----------------------------- MODULE BoundedFIFO -----------------------------
(***************************************************************************)
(* What a processor's pending-task buffer promises to the code that uses   *)
(* it (Processor::addCoroutine and Processor::loop): a first-in first-out  *)
(* queue of at most Limit items whose two operations are atomic.  A push   *)
(* is refused exactly when the queue is full, a pop exactly when it is     *)
(* empty, and an accepted item is handed out once, in order.               *)
(***************************************************************************)
EXTENDS Naturals, Sequences

CONSTANTS Items,     \* what is queued
          Limit      \* the most items the queue holds

VARIABLES queue,     \* the items pushed and not yet popped, oldest first
          outcome    \* what the last call that returned did

vars == <<queue, outcome>>

Idle == [op |-> "none"]
Pushed(item) == [op |-> "push", ok |-> TRUE, item |-> item]
Refused(item) == [op |-> "push", ok |-> FALSE, item |-> item]
Popped(item) == [op |-> "pop", ok |-> TRUE, item |-> item]
Nothing == [op |-> "pop", ok |-> FALSE]

Outcomes ==
    {Idle, Nothing} \cup {Pushed(i) : i \in Items}
        \cup {Refused(i) : i \in Items} \cup {Popped(i) : i \in Items}

Init == queue = <<>> /\ outcome = Idle

Push(item) ==
    /\ Len(queue) < Limit
    /\ queue' = Append(queue, item)
    /\ outcome' = Pushed(item)

PushRefused(item) ==
    /\ Len(queue) = Limit
    /\ outcome' = Refused(item)
    /\ UNCHANGED queue

Pop ==
    /\ queue # <<>>
    /\ queue' = Tail(queue)
    /\ outcome' = Popped(Head(queue))

PopNothing ==
    /\ queue = <<>>
    /\ outcome' = Nothing
    /\ UNCHANGED queue

Next ==
    \/ \E item \in Items : Push(item) \/ PushRefused(item)
    \/ Pop
    \/ PopNothing

Spec == Init /\ [][Next]_vars
=============================================================================
