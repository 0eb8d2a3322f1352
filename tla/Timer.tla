-------------------------------- MODULE Timer --------------------------------
(***************************************************************************)
(* Timer, the timer events of one processor: m_pending_events ordered by   *)
(* arrival time, the timerfd that says when to look at them, onTimer() on  *)
(* the processor's loop, and addTimerEvent() and delTimerEvent() called by *)
(* the coroutines of the loop and by other threads (Remotes).              *)
(*                                                                         *)
(* Times are relative to the clock: due[e] is how many ticks are left      *)
(* until m_arrive_time, Past once it is behind.  A critical section under  *)
(* m_event_mutex is one step (RWMutex is a module of its own); the steps   *)
(* of different threads interleave between sections.                       *)
(***************************************************************************)
EXTENDS Integers, FiniteSets, Sequences, SequencesExt

CONSTANTS Events,      \* the TimerEvent objects
          Repeating,   \* those made with is_repeated
          Intervals,   \* the intervals they are made with, in ticks
          Grace,       \* the 10 ms that resetArriveTime() grants a late head
          Remotes,     \* threads other than the loop's
          Deletable,   \* where an event may be when a coroutine deletes it
          RemoteDeletable, \* ... and when another thread does
          Recycle,     \* BOOLEAN: are there always new events to add?
          None

ASSUME EventsAssumption == Repeating \subseteq Events
ASSUME NoneAssumption == None \notin Events /\ None \notin Int
ASSUME TimesAssumption == Intervals \subseteq Nat /\ Grace \in Nat \ {0}
\* m_interval is an int64_t.
ASSUME LongestAssumption ==
    \E n \in Intervals \cup {Grace} : \A i \in Intervals \cup {Grace} : i <= n
ASSUME DeletableAssumption ==
    Deletable \cup RemoteDeletable \subseteq {"pending", "batch", "fired"}
ASSUME ThreadsAssumption == "loop" \notin Remotes
ASSUME RecycleAssumption == Recycle \in BOOLEAN

VARIABLES m_pending_events, m_is_cancled,
          due,        \* event -> ticks until m_arrive_time
          interval,   \* event -> m_interval
          armed,      \* ticks until the timerfd is readable, None if it is off
          loop_pc,    \* where the processor's loop is
          batch,      \* the tasks onTimer() has copied and not yet run
          tmps,       \* the events it has still to look at for repetition
          running,    \* the event whose task the loop runs, or None
          reset_pc,   \* thread -> where in resetArriveTime() it is
          head,       \* thread -> ticks until the first event it copied
          deleting,   \* thread -> the event it deletes, or None
          life,       \* event -> what its owner has done with it
          erased,     \* those that the deletion of one not pending took out
          late        \* those of the batch whose owner deletes them meanwhile

eventVars == <<m_pending_events, m_is_cancled, due, interval>>
loopVars == <<loop_pc, batch, tmps, running>>
threadVars == <<reset_pc, head, deleting>>
\* Not in the code: what happened to the events, for the properties.
historyVars == <<erased, late>>
vars == <<eventVars, armed, loopVars, threadVars, life, historyVars>>

Threads == {"loop"} \cup Remotes
Past == -1

Init ==
    /\ m_pending_events = <<>>
    /\ m_is_cancled = [e \in Events |-> FALSE]
    /\ due = [e \in Events |-> Past]
    /\ interval = [e \in Events |-> 0]
    /\ armed = None
    /\ loop_pc = "poll"
    /\ batch = <<>>
    /\ tmps = <<>>
    /\ running = None
    /\ reset_pc = [t \in Threads |-> "none"]
    /\ head = [t \in Threads |-> 0]
    /\ deleting = [t \in Threads |-> None]
    /\ life = [e \in Events |-> "unused"]
    /\ erased = {}
    /\ late = {}

-----------------------------------------------------------------------------
(* The clock *)

Less(ticks) == IF ticks = Past THEN Past ELSE ticks - 1

Tick ==
    /\ due' = [e \in Events |-> Less(due[e])]
    /\ head' = [t \in Threads |-> Less(head[t])]
    /\ armed' = IF armed \in {None, 0} THEN armed ELSE armed - 1
    /\ UNCHANGED <<m_pending_events, m_is_cancled, interval, loopVars, reset_pc,
                   deleting, life, historyVars>>

-----------------------------------------------------------------------------
(* The multimap *)

Pending == Range(m_pending_events)

InsertedLast(e, ticks) == Append(m_pending_events, e)

\* emplace(): behind every event that arrives no later.
Inserted(e, ticks) ==
    LET before == {i \in DOMAIN m_pending_events :
                       due[m_pending_events[i]] <= ticks}
    IN  InsertAt(m_pending_events, Cardinality(before) + 1, e)

\* The first event that arrives later than e, or nothing: where upper_bound()
\* points.  Of two arrivals that both lie behind, either may be the later.
UpperBounds(e) ==
    LET later(i) == due[m_pending_events[i]] > due[e]
        unsure(i) == due[m_pending_events[i]] = Past /\ due[e] = Past
    IN  {i \in DOMAIN m_pending_events :
            /\ later(i) \/ unsure(i)
            /\ \A j \in 1 .. i - 1 : ~later(j)}

-----------------------------------------------------------------------------
(* addTimerEvent(event, true) by a coroutine of the loop or another thread *)

\* A coroutine runs when the loop resumes it, from a task or from elsewhere.
Free(t) ==
    /\ reset_pc[t] = "none"
    /\ deleting[t] = None
    /\ t = "loop" => loop_pc \in {"task", "run"}

NeedsResetIfEmpty(ticks) == m_pending_events = <<>>
NeedsReset(ticks) ==
    \/ m_pending_events = <<>>
    \/ ticks < due[Head(m_pending_events)]
    \/ due[Head(m_pending_events)] < 0

Add(t, e, ticks) ==
    /\ Free(t)
    /\ life[e] = "unused"
    /\ m_pending_events' = Inserted(e, ticks)
    /\ m_is_cancled' = [m_is_cancled EXCEPT ![e] = FALSE]
    /\ due' = [due EXCEPT ![e] = ticks]
    /\ interval' = [interval EXCEPT ![e] = ticks]
    /\ life' = [life EXCEPT ![e] = "live"]
    /\ reset_pc' = IF NeedsReset(ticks) THEN [reset_pc EXCEPT ![t] = "copy"]
                                        ELSE reset_pc
    /\ erased' = erased \ {e}
    /\ UNCHANGED <<armed, loopVars, head, deleting, late>>

-----------------------------------------------------------------------------
(* resetArriveTime(): copy the events under the read lock, then arm the    *)
(* timerfd for the first of the copy                                       *)

ResetCopy(t) ==
    /\ reset_pc[t] = "copy"
    /\ IF m_pending_events = <<>>
         THEN reset_pc' = [reset_pc EXCEPT ![t] = "none"] /\ UNCHANGED head
         ELSE /\ reset_pc' = [reset_pc EXCEPT ![t] = "set"]
              /\ head' = [head EXCEPT ![t] = due[Head(m_pending_events)]]
    /\ UNCHANGED <<eventVars, armed, loopVars, deleting, life, historyVars>>

Interval(ticks) == IF ticks > 0 THEN ticks ELSE Grace

ResetSet(t) ==
    /\ reset_pc[t] = "set"
    /\ armed' = Interval(head[t])
    /\ reset_pc' = [reset_pc EXCEPT ![t] = "none"]
    /\ UNCHANGED <<eventVars, loopVars, head, deleting, life, historyVars>>

-----------------------------------------------------------------------------
(* delTimerEvent(event) *)

Where(e) ==
    IF e \in Range(batch) THEN "batch"
    ELSE IF e \in Pending THEN "pending"
    ELSE "fired"

\* m_is_cancled is set before the lock is taken ...
DelMark(t, e) ==
    /\ Free(t)
    /\ life[e] \in {"live", "fired"}
    /\ \A u \in Threads : deleting[u] # e
    /\ Where(e) \in IF t = "loop" THEN Deletable ELSE RemoteDeletable
    /\ m_is_cancled' = [m_is_cancled EXCEPT ![e] = TRUE]
    /\ deleting' = [deleting EXCEPT ![t] = e]
    /\ late' = IF Where(e) = "batch" THEN late \cup {e} ELSE late
    /\ UNCHANGED <<m_pending_events, due, interval, armed, loopVars, reset_pc,
                   head, life, erased>>

\* ... then the event is erased, or, if it is not there, the one that the
\* search of its arrival time ended at.
ErasedFirst(e) == IF m_pending_events = <<>> THEN {} ELSE {1}
Erased(e) ==
    IF e \in Pending
      THEN {i \in DOMAIN m_pending_events : m_pending_events[i] = e}
      ELSE UpperBounds(e)

DelErase(t) ==
    /\ deleting[t] # None
    /\ LET e == deleting[t]
       IN  /\ \/ \E i \in Erased(e) :
                     m_pending_events' = RemoveAt(m_pending_events, i)
              \/ Erased(e) = {} /\ UNCHANGED m_pending_events
           /\ life' = [life EXCEPT ![e] = "deleted"]
           /\ erased' = IF e \in Pending THEN erased
                         ELSE erased \cup (Pending \ Pending')
    /\ deleting' = [deleting EXCEPT ![t] = None]
    /\ UNCHANGED <<m_is_cancled, due, interval, armed, loopVars, reset_pc, head,
                   late>>

-----------------------------------------------------------------------------
(* The loop: epoll_wait, onTimer(), and the rest of an iteration *)

\* onTimer() reads the timerfd until EAGAIN.
PollTimer ==
    /\ loop_pc = "poll"
    /\ armed = 0
    /\ armed' = None
    /\ loop_pc' = "collect"
    /\ UNCHANGED <<eventVars, batch, tmps, running, threadVars, life,
                   historyVars>>

\* The iteration is about other descriptors, or the timeout.
PollOther ==
    /\ loop_pc = "poll"
    /\ armed # 0
    /\ loop_pc' = "run"
    /\ UNCHANGED <<eventVars, armed, batch, tmps, running, threadVars, life,
                   historyVars>>

CollectableUnmarked(e) == due[e] <= 0
Collectable(e) == due[e] <= 0 /\ ~m_is_cancled[e]

\* The events that are due go to the batch, up to the first that is not or
\* that is marked.
Collect ==
    /\ loop_pc = "collect"
    /\ LET stops == {i \in DOMAIN m_pending_events :
                         ~Collectable(m_pending_events[i])}
           n == IF stops = {} THEN Len(m_pending_events)
                ELSE (CHOOSE i \in stops : \A j \in stops : i <= j) - 1
       IN  /\ batch' = SubSeq(m_pending_events, 1, n)
           /\ tmps' = SubSeq(m_pending_events, 1, n)
           /\ m_pending_events' =
                  SubSeq(m_pending_events, n + 1, Len(m_pending_events))
    /\ loop_pc' = "repeat"
    /\ UNCHANGED <<m_is_cancled, due, interval, armed, running, threadVars,
                   life, historyVars>>

\* A repeated event starts over and is pending again, without a reset.
RepeatSkipped ==
    /\ loop_pc = "repeat"
    /\ tmps # <<>>
    /\ tmps' = Tail(tmps)
    /\ UNCHANGED <<eventVars, armed, loop_pc, batch, running, threadVars, life,
                   historyVars>>

Repeat ==
    /\ loop_pc = "repeat"
    /\ tmps # <<>>
    /\ LET e == Head(tmps)
       IN  IF e \in Repeating
             THEN /\ m_pending_events' = Inserted(e, interval[e])
                  /\ due' = [due EXCEPT ![e] = interval[e]]
                  /\ m_is_cancled' = [m_is_cancled EXCEPT ![e] = FALSE]
             ELSE UNCHANGED <<m_pending_events, due, m_is_cancled>>
    /\ tmps' = Tail(tmps)
    /\ UNCHANGED <<interval, armed, loop_pc, batch, running, threadVars, life,
                   historyVars>>

StartReset ==
    /\ loop_pc = "repeat"
    /\ tmps = <<>>
    /\ reset_pc' = [reset_pc EXCEPT !["loop"] = "copy"]
    /\ loop_pc' = "tasks"
    /\ UNCHANGED <<eventVars, armed, batch, tmps, running, head, deleting, life,
                   historyVars>>

RunTask ==
    /\ loop_pc = "tasks"
    /\ reset_pc["loop"] = "none"
    /\ batch # <<>>
    /\ running' = Head(batch)
    /\ batch' = Tail(batch)
    /\ life' = IF life[Head(batch)] = "live" /\ Head(batch) \notin Repeating
                 THEN [life EXCEPT ![Head(batch)] = "fired"] ELSE life
    /\ late' = late \ {Head(batch)}
    /\ loop_pc' = "task"
    /\ UNCHANGED <<eventVars, armed, tmps, threadVars, erased>>

TaskDone ==
    /\ loop_pc = "task"
    /\ Free("loop")
    /\ running' = None
    /\ loop_pc' = "tasks"
    /\ UNCHANGED <<eventVars, armed, batch, tmps, threadVars, life,
                   historyVars>>

OnTimerDone ==
    /\ loop_pc = "tasks"
    /\ reset_pc["loop"] = "none"
    /\ batch = <<>>
    /\ loop_pc' = "run"
    /\ UNCHANGED <<eventVars, armed, batch, tmps, running, threadVars, life,
                   historyVars>>

IterationDone ==
    /\ loop_pc = "run"
    /\ Free("loop")
    /\ loop_pc' = "poll"
    /\ UNCHANGED <<eventVars, armed, batch, tmps, running, threadVars, life,
                   historyVars>>

\* The program makes a new event, in the place of one nobody needs any more.
New(e) ==
    /\ Recycle
    /\ life[e] \in {"fired", "deleted"}
    /\ running # e
    /\ e \notin Range(batch)
    /\ \A t \in Threads : deleting[t] # e
    /\ life' = [life EXCEPT ![e] = "unused"]
    /\ UNCHANGED <<eventVars, armed, loopVars, threadVars, historyVars>>

-----------------------------------------------------------------------------
LoopStep ==
    \/ PollTimer \/ Collect \/ Repeat \/ StartReset
    \/ RunTask \/ TaskDone \/ OnTimerDone \/ IterationDone

ThreadStep(t) == ResetCopy(t) \/ ResetSet(t) \/ DelErase(t)

Next ==
    \/ Tick
    \/ LoopStep
    \/ PollOther
    \/ \E t \in Threads :
           \/ ThreadStep(t)
           \/ \E e \in Events :
                  DelMark(t, e) \/ \E ticks \in Intervals : Add(t, e, ticks)
    \/ \E e \in Events : New(e)

\* Time passes, the loop goes round (its coroutines yield) and a call that has
\* begun ends.  Nothing makes another descriptor ready or an event be added.
Fairness ==
    /\ WF_vars(Tick)
    /\ SF_vars(LoopStep)
    /\ \A t \in Threads : WF_vars(ThreadStep(t))

Safety == Init /\ [][Next]_vars
Spec == Safety /\ Fairness

-----------------------------------------------------------------------------
(* Properties *)

MaxTicks == CHOOSE n \in Intervals \cup {Grace} :
                \A i \in Intervals \cup {Grace} : i <= n
Ticks == Past .. MaxTicks

\* Types; the pending events are ordered by arrival and none is there twice.
TypeOK ==
    /\ m_pending_events \in Seq(Events)
    /\ \A i, j \in DOMAIN m_pending_events : i < j =>
           /\ m_pending_events[i] # m_pending_events[j]
           /\ due[m_pending_events[i]] <= due[m_pending_events[j]]
    /\ m_is_cancled \in [Events -> BOOLEAN]
    /\ due \in [Events -> Ticks]
    /\ interval \in [Events -> Intervals \cup {0}]
    /\ armed \in Ticks \cup {None}
    /\ loop_pc \in {"poll", "collect", "repeat", "tasks", "task", "run"}
    /\ batch \in Seq(Events)
    /\ tmps \in Seq(Events)
    /\ running \in Events \cup {None}
    /\ reset_pc \in [Threads -> {"none", "copy", "set"}]
    /\ head \in [Threads -> Ticks]
    /\ deleting \in [Threads -> Events \cup {None}]
    /\ life \in [Events -> {"unused", "live", "fired", "deleted"}]
    /\ erased \subseteq Events
    /\ late \subseteq Events

\* An event that was added, and neither ran nor was deleted by its owner, is
\* still scheduled: the one way to lose it is the delTimerEvent() of another
\* event that is not pending any more.
NoEventLost ==
    \A e \in Events :
        life[e] = "live" => e \in Pending \/ e \in Range(batch) \/ e \in erased

\* delTimerEvent() deletes its event and no other. (The code keeps this where only
\* pending events are deleted, and not where connect() deletes one that ran; README.)
OthersKept == erased = {}

\* The owner's delTimerEvent() keeps the task from running from then on, but
\* for the one run of an event that was about to run already.
DeletedNotRun == \A e \in Range(batch) : life[e] = "deleted" => e \in late

\* When nobody is about to set it, the timerfd fires in time for the first
\* pending event, give or take the grace of a late one.
ArmedForHead ==
    /\ m_pending_events # <<>>
    /\ loop_pc \in {"poll", "tasks", "task", "run"}
    /\ \A t \in Threads : reset_pc[t] = "none"
    => \/ armed # None /\ armed <= due[Head(m_pending_events)]
       \/ armed # None /\ armed <= Grace

\* What every step preserves, and these properties follow from.  The pending
\* events are live; those that onTimer() has still to repeat are in the batch,
\* and nobody adds or deletes one of them meanwhile.
ScheduleInv ==
    /\ TypeOK
    /\ armed # Past
    /\ \A e \in Pending : life[e] = "live"
    /\ \A e \in Range(batch) :
           life[e] # "unused" /\ (e \in Pending => e \in Repeating)
    /\ tmps # <<>> => loop_pc = "repeat"
    /\ \A s \in {batch, tmps} : \A i, j \in DOMAIN s : i # j => s[i] # s[j]
    /\ \A e \in Range(tmps) :
           e \in Range(batch) /\ e \notin Pending /\ life[e] = "live"
    /\ \A t \in Threads : deleting[t] # None => reset_pc[t] = "none"
    /\ deleting["loop"] # None => loop_pc \in {"task", "run"}

\* An event that is being deleted is marked while it is pending, so that it is
\* not collected; another thread's is not in the batch, the loop's own is known
\* to be late if it is.
DeletionsInv ==
    /\ \A t \in Threads : deleting[t] # None =>
           /\ life[deleting[t]] \in {"live", "fired"}
           /\ deleting[t] \in Pending => m_is_cancled[deleting[t]]
           /\ deleting[t] \in Range(batch) => t = "loop" /\ deleting[t] \in late
    /\ \A t, u \in Threads :
           t # u /\ deleting[t] # None => deleting[t] # deleting[u]

\* When only pending events are deleted, what is being deleted is still pending.
PendingInv ==
    /\ OthersKept
    /\ \A t \in Threads : deleting[t] # None => deleting[t] \in Pending

\* The batch is empty when it is collected, and a repeated event that is to run
\* is pending again or about to be, unless another's deletion took it out.
BatchRepeats ==
    /\ loop_pc \in {"poll", "collect", "run"} => batch = <<>>
    /\ \A e \in Range(batch) \cap Repeating :
           life[e] = "live" =>
               e \in Pending \/ e \in Range(tmps) \/ e \in erased

KeptInv == NoEventLost /\ DeletedNotRun /\ BatchRepeats

\* With one thread, what resetArriveTime() has copied is still the first
\* pending event when it arms the timerfd.
ArmedInv ==
    /\ ArmedForHead
    /\ reset_pc["loop"] # "none" => loop_pc \in {"tasks", "task", "run"}
    /\ reset_pc["loop"] = "set" =>
           m_pending_events # <<>> /\ head["loop"] = due[Head(m_pending_events)]

\* An added event runs, unless its owner deletes it or another's deletion takes
\* it out; a repeated one runs again and again.
EventRuns ==
    \A e \in Events :
        life[e] = "live" ~> (running = e \/ life[e] = "deleted" \/ e \in erased)
=============================================================================
