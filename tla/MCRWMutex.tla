------------------------------ MODULE MCRWMutex ------------------------------
(***************************************************************************)
(* Instances of RWMutex for TLC: which coroutine belongs to which          *)
(* processor, and how often it locks.                                      *)
(***************************************************************************)
EXTENDS RWMutex, TLC

CONSTANTS c1, c2, c3, p1, p2

\* Two coroutines share a processor, the third runs beside them.
TwoAndOne == c1 :> p1 @@ c2 :> p1 @@ c3 :> p2

\* Everyone takes the lock twice, or only the first does.
Twice == [c \in Coroutines |-> 2]
OneTwice == [c \in Coroutines |-> IF c = c1 THEN 2 ELSE 1]
=============================================================================
