----------------------------- MODULE MCProcessor -----------------------------
(***************************************************************************)
(* Instances of Processor for TLC: who waits for which descriptor, and for *)
(* which with a timer beside.                                              *)
(***************************************************************************)
EXTENDS Processor, TLC

CONSTANTS c1, c2, f1, f2

Everyone == [f \in Fds |-> Coroutines]

\* c1 calls over f1, which c2 may use as well; f2 is c2's own.
Shared == f1 :> {c1, c2} @@ f2 :> {c2}
OneCaller == f1 :> {c1} @@ f2 :> {}
=============================================================================
