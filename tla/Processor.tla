------------------------------ MODULE Processor ------------------------------
(***************************************************************************)
(* One processor: its loop, its epoller, and the coroutines it runs.       *)
(*                                                                         *)
(* An iteration of the loop is: epoll_wait, the reported events in some    *)
(* order (a ready descriptor appends its coroutine to m_active_tasks, the  *)
(* timer runs its callbacks on the spot), the pending tasks, the active    *)
(* tasks, the deletion of the coroutines that ended.  A coroutine waits    *)
(* for a descriptor (waitEvent), with a timer beside it when it is         *)
(* NetSocket::connect() or a client's call, or sleeps (wait).  Coroutine   *)
(* objects come from a pool: a freed one is the next coroutine's.          *)
(*                                                                         *)
(* Timer is abstracted to the events a coroutine has armed, due at any     *)
(* time; m_pending_tasks to the queue that BoundedFIFO says it is.         *)
(***************************************************************************)
EXTENDS Naturals, Sequences

CONSTANTS Coroutines, Fds,
          Users,          \* descriptor -> the coroutines that wait for it
          Callers,        \* descriptor -> those that may do so with a timer
                          \* beside: they connect or call over it
          OddFds,         \* descriptors that may report an event without
                          \* EPOLLIN and EPOLLOUT
          None

ASSUME UsersAssumption ==
    /\ Users \in [Fds -> SUBSET Coroutines]
    /\ Callers \in [Fds -> SUBSET Coroutines]
ASSUME OddAssumption == OddFds \subseteq Fds
ASSUME NoneAssumption == None \notin Coroutines \cup Fds
ASSUME TimerAssumption == "timer" \notin Fds

VARIABLES status,           \* coroutine object -> m_status, "free" in the pool
          waits,            \* coroutine -> what its last yield was for
          wait_fd,          \* coroutine -> the descriptor of its waitEvent()
          timers,           \* the <<coroutine, purpose>> with a timer event
          m_fds,            \* the descriptors registered in the epoller
          m_coroutine,      \* descriptor -> the coroutine of its FdEvent
          io,               \* descriptor -> what the kernel would report
          events,           \* <<source, what>> reported by epoll_wait and not
                            \* yet looked at
          due,              \* the callbacks that onTimer() has yet to run
          m_pending_tasks, m_active_tasks, m_cors_set, m_removed_cors,
          m_cur_coroutine,
          in_coroutine,     \* the thread runs m_cur_coroutine, not the loop
          loop_pc,          \* where the loop is
          aborted,          \* an assertion of the epoller failed
          tainted,          \* the objects whose coroutine has waited with a
                            \* timer beside, or that a timer armed for a
                            \* former coroutine still refers to
          cut               \* the descriptors that timers have unregistered
                            \* since epoll_wait

coVars == <<status, waits, wait_fd>>
epollVars == <<m_fds, m_coroutine, io>>
taskVars == <<m_pending_tasks, m_active_tasks, m_cors_set, m_removed_cors>>
curVars == <<m_cur_coroutine, in_coroutine>>
\* Not in the code: who was disturbed, for the properties.
historyVars == <<tainted, cut>>
vars == <<coVars, timers, epollVars, events, due, taskVars, curVars, loop_pc,
          aborted, historyVars>>

Init ==
    /\ status = [c \in Coroutines |-> "free"]
    /\ waits = [c \in Coroutines |-> "no"]
    /\ wait_fd = [c \in Coroutines |-> None]
    /\ timers = {}
    /\ m_fds = {}
    /\ m_coroutine = [f \in Fds |-> None]
    /\ io = [f \in Fds |-> "quiet"]
    /\ events = {}
    /\ due = {}
    /\ m_pending_tasks = <<>>
    /\ m_active_tasks = <<>>
    /\ m_cors_set = {}
    /\ m_removed_cors = {}
    /\ m_cur_coroutine = None
    /\ in_coroutine = FALSE
    /\ loop_pc = "poll"
    /\ aborted = FALSE
    /\ tainted = {}
    /\ cut = {}

InLoop(pc) == loop_pc = pc /\ ~in_coroutine /\ ~aborted

-----------------------------------------------------------------------------
(* Outside: co_go() from anywhere, and the kernel *)

Go(c) ==
    /\ status[c] = "free"
    /\ status' = [status EXCEPT ![c] = "READY"]
    /\ waits' = [waits EXCEPT ![c] = "no"]
    /\ m_pending_tasks' = Append(m_pending_tasks, c)
    /\ tainted' = IF \E t \in timers \cup due : t[1] = c THEN tainted \cup {c}
                                                         ELSE tainted \ {c}
    /\ UNCHANGED <<wait_fd, timers, epollVars, events, due, m_active_tasks,
                   m_cors_set, m_removed_cors, curVars, loop_pc, aborted, cut>>

\* READ or WRITE readiness, or one of the other events alone.
Kernel(f) ==
    /\ io[f] = "quiet"
    /\ \E what \in {"ready", "odd"} :
           /\ what = "odd" => f \in OddFds
           /\ io' = [io EXCEPT ![f] = what]
    /\ UNCHANGED <<coVars, timers, m_fds, m_coroutine, events, due, taskVars,
                   curVars, loop_pc, aborted, historyVars>>

-----------------------------------------------------------------------------
(* Processor::resume(pCo) and what a resumed coroutine does at once: the   *)
(* end of waitEvent() when that is where it yielded, and the call of       *)
(* delTimerEvent() that follows a wait with a timer                        *)

\* resume() enters the coroutine: it is this processor's, and it is not
\* running or ended.
EntersAny(c) == c # None
Enters(c) == c \in m_cors_set /\ status[c] \in {"READY", "WAITING"}

\* delEvent(fd) and clearCoroutine().  (The first two are for mutants.)
LeaveWaitRegistered(c) ==
    /\ m_coroutine' = IF waits[c] \in {"fd", "timed"}
                        THEN [m_coroutine EXCEPT ![wait_fd[c]] = None]
                        ELSE m_coroutine
    /\ UNCHANGED <<m_fds, aborted>>

LeaveWaitUncleared(c) ==
    /\ m_fds' = IF waits[c] \in {"fd", "timed"} THEN m_fds \ {wait_fd[c]}
                                               ELSE m_fds
    /\ UNCHANGED <<m_coroutine, aborted>>

LeaveWait(c) ==
    IF waits[c] \in {"fd", "timed"}
      THEN LET f == wait_fd[c]
           IN  /\ aborted' = (f \notin m_fds)
               /\ m_fds' = m_fds \ {f}
               /\ m_coroutine' = [m_coroutine EXCEPT ![f] = None]
      ELSE UNCHANGED <<m_fds, m_coroutine, aborted>>

Resume(c) ==
    IF Enters(c)
      THEN /\ m_cur_coroutine' = c
           /\ in_coroutine' = TRUE
           /\ status' = [status EXCEPT ![c] = "RUNNING"]
           /\ timers' = timers \ {<<c, "timed">>}
           /\ waits' = [waits EXCEPT ![c] = "no"]
           /\ LeaveWait(c)
      ELSE /\ UNCHANGED <<status, timers, waits, m_fds, m_coroutine,
                          in_coroutine, aborted>>
           /\ m_cur_coroutine' = IF c \in m_cors_set THEN c ELSE m_cur_coroutine

-----------------------------------------------------------------------------
(* The running coroutine *)

\* yield(): back to wherever the loop resumed it.
Yields ==
    /\ in_coroutine
    /\ ~aborted
    /\ in_coroutine' = FALSE
    /\ UNCHANGED m_cur_coroutine

\* read(), write(), accept() or connect() takes what is there.
Consume(f) ==
    /\ in_coroutine
    /\ ~aborted
    /\ io[f] = "ready"
    /\ \A c \in Coroutines : m_coroutine[f] # c
    /\ io' = [io EXCEPT ![f] = "quiet"]
    /\ UNCHANGED <<coVars, timers, m_fds, m_coroutine, events, due, taskVars,
                   curVars, loop_pc, aborted, historyVars>>

\* waitEvent() on a descriptor no other coroutine uses.
WaitEvent(f, how) ==
    LET c == m_cur_coroutine
    IN  /\ Yields
        /\ c \in IF how = "timed" THEN Callers[f] ELSE Users[f]
        /\ m_coroutine[f] = None
        /\ m_coroutine' = [m_coroutine EXCEPT ![f] = c]
        /\ aborted' = (f \in m_fds)
        /\ m_fds' = m_fds \cup {f}
        /\ wait_fd' = [wait_fd EXCEPT ![c] = f]
        /\ waits' = [waits EXCEPT ![c] = how]
        /\ status' = [status EXCEPT ![c] = "WAITING"]
        /\ timers' = IF how = "timed" THEN timers \cup {<<c, how>>} ELSE timers
        /\ tainted' = IF how = "timed" THEN tainted \cup {c} ELSE tainted
        /\ UNCHANGED <<io, events, due, taskVars, loop_pc, cut>>

\* co_sleep()
Sleep ==
    LET c == m_cur_coroutine
    IN  /\ Yields
        /\ waits' = [waits EXCEPT ![c] = "sleep"]
        /\ status' = [status EXCEPT ![c] = "WAITING"]
        /\ timers' = timers \cup {<<c, "sleep">>}
        /\ UNCHANGED <<wait_fd, epollVars, events, due, taskVars, loop_pc,
                       aborted, historyVars>>

\* Its function returns: killCurCo(); m_status stays RUNNING.  (The first
\* is for a mutant.)
ExitErased ==
    /\ Yields
    /\ m_removed_cors' = m_removed_cors \cup {m_cur_coroutine}
    /\ m_cors_set' = m_cors_set \ {m_cur_coroutine}
    /\ UNCHANGED <<coVars, timers, epollVars, events, due, m_pending_tasks,
                   m_active_tasks, loop_pc, aborted, historyVars>>

Exit ==
    /\ Yields
    /\ m_removed_cors' = m_removed_cors \cup {m_cur_coroutine}
    /\ UNCHANGED <<coVars, timers, epollVars, events, due, m_pending_tasks,
                   m_active_tasks, m_cors_set, loop_pc, aborted, historyVars>>

-----------------------------------------------------------------------------
(* The loop *)

\* m_active_tasks is cleared; epoll_wait() reports what is ready among the
\* registered descriptors, and the timer if some event is due.
Poll ==
    /\ InLoop("poll")
    /\ m_active_tasks' = <<>>
    /\ due' \in SUBSET timers
    /\ events' = {<<f, io[f]>> : f \in {g \in m_fds : io[g] # "quiet"}}
                     \cup IF due' # {} THEN {<<"timer", "ready">>} ELSE {}
    /\ cut' = {}
    /\ loop_pc' = "events"
    /\ UNCHANGED <<coVars, timers, epollVars, m_pending_tasks, m_cors_set,
                   m_removed_cors, curVars, aborted,
                   tainted>>

\* A descriptor's event: its coroutine, if it still has one, becomes active.
\* (The first is for a mutant.)
FdReadyTwice(f) ==
    /\ InLoop("events")
    /\ <<f, "ready">> \in events
    /\ events' = events \ {<<f, "ready">>}
    /\ m_active_tasks' = m_active_tasks \o <<m_coroutine[f], m_coroutine[f]>>
    /\ UNCHANGED <<coVars, timers, epollVars, due, m_pending_tasks, m_cors_set,
                   m_removed_cors, curVars, loop_pc, aborted, historyVars>>

FdReady(f) ==
    /\ InLoop("events")
    /\ <<f, "ready">> \in events
    /\ events' = events \ {<<f, "ready">>}
    /\ m_active_tasks' = Append(m_active_tasks, m_coroutine[f])
    /\ UNCHANGED <<coVars, timers, epollVars, due, m_pending_tasks, m_cors_set,
                   m_removed_cors, curVars, loop_pc, aborted, historyVars>>

\* An event that is neither READ nor WRITE: the descriptor is unregistered.
FdOdd(f) ==
    /\ InLoop("events")
    /\ <<f, "odd">> \in events
    /\ events' = events \ {<<f, "odd">>}
    /\ aborted' = (f \notin m_fds)
    /\ m_fds' = m_fds \ {f}
    /\ UNCHANGED <<coVars, timers, m_coroutine, io, due, taskVars, curVars,
                   loop_pc, historyVars>>

\* The timer's event: onTimer() runs what is due, one callback after another.
TimerReady ==
    /\ InLoop("events")
    /\ <<"timer", "ready">> \in events
    /\ events' = events \ {<<"timer", "ready">>}
    /\ timers' = timers \ due
    /\ loop_pc' = "timers"
    /\ UNCHANGED <<coVars, epollVars, due, taskVars, curVars, aborted,
                   historyVars>>

RunTimer(t) ==
    /\ InLoop("timers")
    /\ t \in due
    /\ due' = due \ {t}
    /\ Resume(t[1])
    /\ cut' = cut \cup (m_fds \ m_fds')
    /\ UNCHANGED <<wait_fd, io, events, taskVars, loop_pc, tainted>>

TimersDone ==
    /\ InLoop("timers")
    /\ due = {}
    /\ loop_pc' = "events"
    /\ UNCHANGED <<coVars, timers, epollVars, events, due, taskVars, curVars,
                   aborted, historyVars>>

EventsDone ==
    /\ InLoop("events")
    /\ events = {}
    /\ loop_pc' = "pending"
    /\ UNCHANGED <<coVars, timers, epollVars, events, due, taskVars, curVars,
                   aborted, historyVars>>

RunPending ==
    /\ InLoop("pending")
    /\ m_pending_tasks # <<>>
    /\ m_cors_set' = m_cors_set \cup {Head(m_pending_tasks)}
    /\ m_pending_tasks' = Tail(m_pending_tasks)
    /\ LET c == Head(m_pending_tasks)
       IN  /\ m_cur_coroutine' = c
           /\ in_coroutine' = TRUE
           /\ status' = [status EXCEPT ![c] = "RUNNING"]
    /\ UNCHANGED <<waits, wait_fd, timers, epollVars, events, due,
                   m_active_tasks, m_removed_cors, loop_pc, aborted,
                   historyVars>>

PendingDone ==
    /\ InLoop("pending")
    /\ m_pending_tasks = <<>>
    /\ loop_pc' = "active"
    /\ UNCHANGED <<coVars, timers, epollVars, events, due, taskVars, curVars,
                   aborted, historyVars>>

\* (The first is for a mutant.)
RunActiveFirst ==
    /\ InLoop("active")
    /\ m_active_tasks # <<>>
    /\ m_active_tasks' = <<>>
    /\ Resume(Head(m_active_tasks))
    /\ UNCHANGED <<wait_fd, io, events, due, m_pending_tasks, m_cors_set,
                   m_removed_cors, loop_pc, historyVars>>

RunActive ==
    /\ InLoop("active")
    /\ m_active_tasks # <<>>
    /\ m_active_tasks' = Tail(m_active_tasks)
    /\ Resume(Head(m_active_tasks))
    /\ UNCHANGED <<wait_fd, io, events, due, m_pending_tasks, m_cors_set,
                   m_removed_cors, loop_pc, historyVars>>

\* The ended coroutines leave m_cors_set and go back to the pool.
DeleteRemoved ==
    /\ InLoop("active")
    /\ m_active_tasks = <<>>
    /\ m_cors_set' = m_cors_set \ m_removed_cors
    /\ status' = [c \in Coroutines |->
                    IF c \in m_removed_cors THEN "free" ELSE status[c]]
    /\ m_removed_cors' = {}
    /\ loop_pc' = "poll"
    /\ UNCHANGED <<waits, wait_fd, timers, epollVars, events, due,
                   m_pending_tasks, m_active_tasks, curVars, aborted,
                   historyVars>>

-----------------------------------------------------------------------------
CoroutineStep ==
    \/ Sleep \/ Exit
    \/ \E f \in Fds : WaitEvent(f, "fd") \/ WaitEvent(f, "timed")

LoopStep ==
    \/ Poll
    \/ \E f \in Fds : FdReady(f) \/ FdOdd(f)
    \/ TimerReady \/ TimersDone \/ EventsDone
    \/ \E t \in due : RunTimer(t)
    \/ RunPending \/ PendingDone
    \/ RunActive \/ DeleteRemoved

Next ==
    \/ LoopStep
    \/ CoroutineStep
    \/ \E f \in Fds : Kernel(f) \/ Consume(f)
    \/ \E c \in Coroutines : Go(c)

\* The loop goes round and no coroutine keeps the thread for ever.
Fairness == WF_vars(LoopStep) /\ WF_vars(CoroutineStep)

Safety == Init /\ [][Next]_vars
Spec == Safety /\ Fairness

-----------------------------------------------------------------------------
(* Properties *)

ElementsOf(s) == {s[i] : i \in DOMAIN s}

\* Types.
TypeOK ==
    /\ status \in [Coroutines -> {"free", "READY", "RUNNING", "WAITING"}]
    /\ waits \in [Coroutines -> {"no", "fd", "timed", "sleep"}]
    /\ wait_fd \in [Coroutines -> Fds \cup {None}]
    /\ timers \subseteq Coroutines \X {"timed", "sleep"}
    /\ m_fds \subseteq Fds
    /\ m_coroutine \in [Fds -> Coroutines \cup {None}]
    /\ io \in [Fds -> {"quiet", "ready", "odd"}]
    /\ events \subseteq (Fds \cup {"timer"}) \X {"ready", "odd"}
    /\ due \subseteq Coroutines \X {"timed", "sleep"}
    /\ m_pending_tasks \in Seq(Coroutines)
    /\ m_active_tasks \in Seq(Coroutines \cup {None})
    /\ m_cors_set \subseteq Coroutines
    /\ m_removed_cors \subseteq m_cors_set
    /\ m_cur_coroutine \in Coroutines \cup {None}
    /\ in_coroutine \in BOOLEAN
    /\ loop_pc \in {"poll", "events", "timers", "pending", "active"}
    /\ aborted \in BOOLEAN
    /\ tainted \subseteq Coroutines
    /\ cut \subseteq Fds

\* What a coroutine's status says of the queues it is in.
StatusInv ==
    /\ \A c \in Coroutines :
           /\ status[c] = "READY" <=> c \in ElementsOf(m_pending_tasks)
           /\ c \in m_cors_set <=> status[c] \in {"RUNNING", "WAITING"}
           /\ status[c] = "RUNNING" <=>
                  c \in m_removed_cors \/ (in_coroutine /\ m_cur_coroutine = c)
           /\ c \in ElementsOf(m_active_tasks) => status[c] # "free"
    /\ \A i, j \in 1 .. Len(m_pending_tasks) :
           m_pending_tasks[i] = m_pending_tasks[j] => i = j
    /\ in_coroutine =>
           /\ m_cur_coroutine \in Coroutines \ m_removed_cors
           /\ loop_pc \in {"timers", "pending", "active"}
    /\ loop_pc = "poll" => m_active_tasks = <<>>

\* What a coroutine waits for, and which descriptors are registered for it.
WaitInv ==
    /\ \A c \in Coroutines :
           /\ status[c] = "WAITING" <=> waits[c] # "no"
           /\ waits[c] \in {"fd", "timed"} =>
                  wait_fd[c] \in Fds /\ m_coroutine[wait_fd[c]] = c
           /\ waits[c] = "timed" => c \in Callers[wait_fd[c]]
    /\ \A f \in Fds :
           /\ m_coroutine[f] # None =>
                  /\ waits[m_coroutine[f]] \in {"fd", "timed"}
                  /\ wait_fd[m_coroutine[f]] = f
                  /\ m_coroutine[f] \in Users[f] \cup Callers[f]
           /\ f \in m_fds => m_coroutine[f] # None
           /\ m_coroutine[f] # None /\ f \notin OddFds => f \in m_fds

\* Which events and callbacks are left in a phase of the loop.
PhaseInv ==
    /\ loop_pc \in {"poll", "pending", "active"} => events = {} /\ due = {}
    /\ loop_pc = "timers" => <<"timer", "ready">> \notin events
    /\ loop_pc = "events" =>
           IF <<"timer", "ready">> \in events THEN due \subseteq timers ELSE due = {}
    /\ \A f \in Fds : ~({<<f, "ready">>, <<f, "odd">>} \subseteq events)
    /\ \A f \in Fds : io[f] = "odd" \/ <<f, "odd">> \in events => f \in OddFds

\* What may still resume a coroutine that has not waited with a timer beside:
\* the timer of its sleep, or the one event of the descriptor that it waits for.
PlainInv ==
    /\ \A c \in Coroutines : c \notin tainted =>
           /\ <<c, "timed">> \notin timers \cup due
           /\ <<c, "sleep">> \in timers \cup due => waits[c] = "sleep"
           /\ loop_pc = "timers" => <<c, "sleep">> \notin timers \cap due
           /\ waits[c] # "timed"
           /\ c \in ElementsOf(m_active_tasks) =>
                  /\ waits[c] = "fd"
                  /\ \A what \in {"ready", "odd"} : <<wait_fd[c], what>> \notin events
                  /\ wait_fd[c] \notin cut => /\ wait_fd[c] \in m_fds
                                              /\ io[wait_fd[c]] # "quiet"
           /\ \A i, j \in 1 .. Len(m_active_tasks) :
                  m_active_tasks[i] = c /\ m_active_tasks[j] = c => i = j
    /\ \A f \in Fds, what \in {"ready", "odd"} :
           f \notin cut /\ <<f, what>> \in events => f \in m_fds /\ io[f] # "quiet"

ProcessorInv == TypeOK /\ StatusInv /\ WaitInv /\ PhaseInv /\ PlainInv

\* The assertions of addEvent() and delEvent() hold.
AssertionsHold == ~aborted

\* The thread never runs a coroutine that has ended, whatever still points to
\* it: an active task collected before a timer callback let it run to its end,
\* or a timer of its own.
RunsOnlyLiving ==
    in_coroutine =>
        /\ m_cur_coroutine \in m_cors_set \ m_removed_cors
        /\ status[m_cur_coroutine] = "RUNNING"

\* No task and no descriptor's event refers to a coroutine object that has
\* gone back to the pool.
TasksAlive ==
    \A c \in Coroutines :
        \/ c \in ElementsOf(m_pending_tasks)
        \/ c \in ElementsOf(m_active_tasks) /\ loop_pc # "poll"
        \/ \E f \in Fds : m_coroutine[f] = c
        => status[c] # "free"

\* Only its own timer ends a sleep.
SleepsOut(c) ==
    waits[c] = "sleep" /\ waits'[c] # "sleep" => <<c, "sleep">> \in due \ due'

\* Only the descriptor's readiness ends a wait for it, if no timer has ended
\* somebody's wait for it since epoll_wait.
WaitsOut(c) ==
    waits[c] = "fd" /\ waits'[c] # "fd" /\ wait_fd[c] \notin cut =>
        io[wait_fd[c]] # "quiet"

\* A coroutine goes on for the reason it waited for and for no other, whatever
\* the callers beside it are resumed for, until it waits with a timer beside
\* itself: also in an object that a caller had, once that caller's timers are gone.
WaitFull ==
    [][\A c \in Coroutines : c \notin tainted => SleepsOut(c) /\ WaitsOut(c)]_vars

\* co_api.h on co_sleep: "the current coroutine waits t milliseconds before it
\* goes on". (The code does not keep this where timers run beside waits; README.)
SleepFull == [][\A c \in Coroutines : SleepsOut(c)]_vars

\* A coroutine whose descriptor is ready goes on.
ReadyServed ==
    \A c \in Coroutines :
        waits[c] = "fd" /\ io[wait_fd[c]] = "ready" ~> waits[c] # "fd"
=============================================================================
