----------------------------- MODULE TaskHandoff -----------------------------
(***************************************************************************)
(* How a coroutine reaches the processor that runs it: the caller's side   *)
(* of Processor::addCoroutine (push to m_pending_tasks, then write the     *)
(* eventfd m_wake_fd) against the processor's loop (epoll_wait, drain the  *)
(* eventfd, pop and resume until nothing is pending, resume the            *)
(* coroutines whose descriptors are ready, wait again).                    *)
(*                                                                         *)
(* The buffer is LockFreeRingBuffer, step by step; Producers are the       *)
(* threads that call addCoroutine and Items the coroutines.  LoopThread is *)
(* the loop's own thread: the coroutines and timer callbacks it runs hand  *)
(* coroutines over too, and it is a producer only while it runs one.       *)
(***************************************************************************)
EXTENDS LockFreeRingBuffer

CONSTANT LoopThread

VARIABLES caller,      \* thread -> where in addCoroutine it is
          wake_fd,     \* the eventfd's counter is not zero
          wake_event,  \* epoll_wait reported m_wake_fd, not yet drained
          loop_pc,     \* where the loop thread is
          handed,      \* coroutines given to addCoroutine
          dropped,     \* those whose push returned false
          started      \* those resume() was called for

loopVars == <<wake_fd, wake_event, loop_pc>>
vars == <<ringVars, caller, loopVars, handed, dropped, started>>

Init ==
    /\ RingInit
    /\ caller = [p \in Producers |-> "ready"]
    /\ wake_fd = FALSE
    /\ wake_event = FALSE
    /\ loop_pc = "poll"
    /\ handed = {}
    /\ dropped = {}
    /\ started = {}

-----------------------------------------------------------------------------
(* The caller: addCoroutine(pCo, true) *)

\* The loop thread calls addCoroutine only from the coroutines and the timer
\* callbacks it runs; every other thread at any time.
MayCall(p) == p = LoopThread => loop_pc \in {"events", "run", "active"}

HandOver(p, co) ==
    /\ caller[p] = "ready"
    /\ MayCall(p)
    /\ co \notin handed
    /\ PushLoad(p, co)
    /\ caller' = [caller EXCEPT ![p] = "pushing"]
    /\ handed' = handed \cup {co}
    /\ UNCHANGED <<loopVars, dropped, started>>

\* A step of push(); its result is ignored, so that a refused coroutine is
\* forgotten.
Pushing(p) ==
    /\ caller[p] = "pushing"
    /\ PushStep(p)
    /\ caller' = IF PushRefuse(p) \/ PushPublish(p)
                   THEN [caller EXCEPT ![p] = "wakeup"] ELSE caller
    /\ dropped' = IF PushRefuse(p) THEN dropped \cup {push_item[p]} ELSE dropped
    /\ UNCHANGED <<loopVars, handed, started>>

WakeupSkipped(p) ==
    /\ caller[p] = "wakeup"
    /\ caller' = [caller EXCEPT ![p] = "ready"]
    /\ UNCHANGED <<ringVars, loopVars, handed, dropped, started>>

Wakeup(p) ==
    /\ caller[p] = "wakeup"
    /\ wake_fd' = TRUE
    /\ caller' = [caller EXCEPT ![p] = "ready"]
    /\ UNCHANGED <<ringVars, wake_event, loop_pc, handed, dropped, started>>

-----------------------------------------------------------------------------
(* The loop *)

\* epoll_wait returns because the eventfd is readable, among other events ...
PollWoken ==
    /\ loop_pc = "poll"
    /\ wake_fd
    /\ wake_event' = TRUE
    /\ loop_pc' = "events"
    /\ UNCHANGED <<ringVars, caller, wake_fd, handed, dropped, started>>

\* ... or without it: a descriptor, the timer, an error or the timeout.
PollOther ==
    /\ loop_pc = "poll"
    /\ ~wake_fd
    /\ loop_pc' = "events"
    /\ UNCHANGED <<ringVars, caller, wake_fd, wake_event, handed, dropped,
                   started>>

\* read(m_wake_fd) until EAGAIN, wherever the event stands in the array.
DrainRead ==
    /\ loop_pc = "events"
    /\ wake_event
    /\ wake_fd
    /\ wake_fd' = FALSE
    /\ UNCHANGED <<ringVars, caller, wake_event, loop_pc, handed, dropped,
                   started>>

DrainAgain ==
    /\ loop_pc = "events"
    /\ wake_event
    /\ ~wake_fd
    /\ wake_event' = FALSE
    /\ UNCHANGED <<ringVars, caller, wake_fd, loop_pc, handed, dropped, started>>

LoopThreadReady == LoopThread \in Producers => caller[LoopThread] = "ready"

\* getActiveTasks returns and the loop over pop() begins.
EventsDone ==
    /\ loop_pc = "events"
    /\ ~wake_event
    /\ LoopThreadReady
    /\ loop_pc' = "pending"
    /\ UNCHANGED <<ringVars, caller, wake_fd, wake_event, handed, dropped,
                   started>>

\* A step of pop(): a coroutine that comes out is run, and when none does the
\* loop goes on to the active tasks.
Popping ==
    /\ loop_pc = "pending"
    /\ PopLoad \/ PopStep
    /\ loop_pc' = CASE PopRelease -> "run"
                    [] PopNothing -> "active"
                    [] OTHER -> "pending"
    /\ UNCHANGED <<caller, wake_fd, wake_event, handed, dropped, started>>

\* resume(pNewCo) comes back: the coroutine yielded or ended.
RunDone ==
    /\ loop_pc = "run"
    /\ LoopThreadReady
    /\ started' = started \cup {pop_item}
    /\ loop_pc' = "pending"
    /\ UNCHANGED <<ringVars, caller, wake_fd, wake_event, handed, dropped>>

ActiveDoneDrains ==
    /\ loop_pc = "active"
    /\ LoopThreadReady
    /\ loop_pc' = "poll"
    /\ wake_fd' = FALSE
    /\ UNCHANGED <<ringVars, caller, wake_event, handed, dropped, started>>

\* The active tasks have run and the finished coroutines are deleted.
ActiveDone ==
    /\ loop_pc = "active"
    /\ LoopThreadReady
    /\ loop_pc' = "poll"
    /\ UNCHANGED <<ringVars, caller, wake_fd, wake_event, handed, dropped,
                   started>>

CallerStep(p) == Pushing(p) \/ Wakeup(p)
LoopStep ==
    PollWoken \/ DrainRead \/ DrainAgain \/ EventsDone \/ Popping \/ RunDone
        \/ ActiveDone

Next ==
    \/ \E p \in Producers : CallerStep(p) \/ \E co \in Items : HandOver(p, co)
    \/ LoopStep
    \/ PollOther

\* A call of addCoroutine that has begun goes on, and so does the loop; no
\* fairness makes epoll_wait return by its ten-second timeout or for another
\* descriptor, and none makes anyone hand a coroutine over.
Fairness == WF_vars(LoopStep) /\ \A p \in Producers : WF_vars(CallerStep(p))

Safety == Init /\ [][Next]_vars
Spec == Safety /\ Fairness

-----------------------------------------------------------------------------
(* Properties *)

\* Types, and where the loop can be inside pop().
TypeOK ==
    /\ RingTypeOK
    /\ caller \in [Producers -> {"ready", "pushing", "wakeup"}]
    /\ wake_fd \in BOOLEAN
    /\ wake_event \in BOOLEAN
    /\ loop_pc \in {"poll", "events", "pending", "run", "active"}
    /\ pop_pc # "idle" => loop_pc = "pending"
    /\ \A p \in Producers : push_pc[p] # "idle" <=> caller[p] = "pushing"

\* The loop never waits in epoll_wait over a coroutine that nobody is about to
\* wake it for: whatever is pending was published before a write to m_wake_fd
\* that is still to come or still to be drained.
NoSleepWithWork ==
    loop_pc = "poll" /\ m_read_pos # m_write_pos =>
        wake_fd \/ \E p \in Producers : caller[p] = "wakeup"

\* A coroutine that was accepted runs, without the help of the timeout.
AcceptedRuns ==
    \A co \in Items : co \in handed ~> co \in started \cup dropped

\* co_api.h on co_go: "run a coroutine concurrently, the coroutine will run
\* the function func".
EverySpawnRuns == \A co \in Items : co \in handed ~> co \in started
=============================================================================
