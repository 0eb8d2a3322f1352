------------------------------ MODULE ByteQueue ------------------------------
(* What a TcpBuffer promises: the bytes that are put in come out in that     *)
(* order, each once.                                                         *)
EXTENDS Integers, Sequences

VARIABLE bytes

Init == bytes = <<>>

Put == /\ Len(bytes') > Len(bytes)
       /\ SubSeq(bytes', 1, Len(bytes)) = bytes

Take == \E n \in 1..Len(bytes) : bytes' = SubSeq(bytes, n + 1, Len(bytes))

Next == Put \/ Take

Spec == Init /\ [][Next]_bytes
=============================================================================
