--------------------------- MODULE ProcessorProofs ---------------------------
(***************************************************************************)
(* Processor for every number of coroutines and descriptors, whoever waits *)
(* for which: no ended coroutine runs, no task refers to a recycled one,   *)
(* and what a coroutine can rely on until it waits with a timer beside.    *)
(***************************************************************************)
EXTENDS Processor, SequenceTheorems, TLAPS

(***************************************************************************)
(* The elements of a queue.                                                *)
(***************************************************************************)
Tasks == Coroutines \cup {None}

LEMMA AppendIs ==
    ASSUME NEW s \in Seq(Tasks), NEW e \in Tasks
    PROVE  /\ Append(s, e) \in Seq(Tasks)
           /\ Len(Append(s, e)) = Len(s) + 1
           /\ \A i \in 1 .. Len(s) : Append(s, e)[i] = s[i]
           /\ Append(s, e)[Len(s) + 1] = e
           /\ ElementsOf(Append(s, e)) = ElementsOf(s) \cup {e}
<1>1. /\ Append(s, e) \in Seq(Tasks)
      /\ Len(Append(s, e)) = Len(s) + 1
      /\ \A i \in 1 .. Len(s) : Append(s, e)[i] = s[i]
      /\ Append(s, e)[Len(s) + 1] = e
  BY AppendProperties
<1> DEFINE t == Append(s, e)
<1>2. /\ DOMAIN s = 1 .. Len(s) /\ DOMAIN t = 1 .. Len(s) + 1
      /\ Len(s) \in Nat
  BY <1>1
<1> HIDE DEF t
<1>3. ElementsOf(t) \subseteq ElementsOf(s) \cup {e}
  BY <1>1, <1>2 DEF ElementsOf, t
<1>4. e \in ElementsOf(t)
  <2>1. Len(s) + 1 \in DOMAIN t
    BY <1>2
  <2> QED BY <1>1, <2>1 DEF ElementsOf, t
<1>5. ElementsOf(s) \subseteq ElementsOf(t)
  <2> SUFFICES ASSUME NEW i \in DOMAIN s PROVE s[i] \in ElementsOf(t)
    BY DEF ElementsOf
  <2>1. i \in DOMAIN t /\ t[i] = s[i]
    BY <1>1, <1>2 DEF t
  <2> QED BY <2>1 DEF ElementsOf
<1> QED BY <1>1, <1>3, <1>4, <1>5 DEF t

LEMMA TailIs ==
    ASSUME NEW s \in Seq(Tasks), s # << >>
    PROVE  /\ Head(s) \in ElementsOf(s)
           /\ Tail(s) \in Seq(Tasks)
           /\ Len(s) \in Nat \ {0}
           /\ Len(Tail(s)) = Len(s) - 1
           /\ \A i \in 1 .. Len(s) - 1 : Tail(s)[i] = s[i + 1]
           /\ ElementsOf(s) = {Head(s)} \cup ElementsOf(Tail(s))
<1>1. /\ Head(s) = s[1] /\ Tail(s) \in Seq(Tasks)
      /\ Len(s) \in Nat \ {0}
      /\ Len(Tail(s)) = Len(s) - 1
      /\ \A i \in 1 .. Len(s) - 1 : Tail(s)[i] = s[i + 1]
  BY HeadTailProperties, EmptySeq
<1> DEFINE t == Tail(s)
<1>2. DOMAIN s = 1 .. Len(s) /\ DOMAIN t = 1 .. Len(s) - 1
  BY <1>1
<1> HIDE DEF t
<1>3. Head(s) \in ElementsOf(s)
  <2>1. 1 \in DOMAIN s
    BY <1>1, <1>2
  <2> QED BY <1>1, <2>1 DEF ElementsOf
<1>4. ElementsOf(t) \subseteq ElementsOf(s)
  <2> SUFFICES ASSUME NEW i \in DOMAIN t PROVE t[i] \in ElementsOf(s)
    BY DEF ElementsOf
  <2>1. i + 1 \in DOMAIN s /\ t[i] = s[i + 1]
    BY <1>1, <1>2 DEF t
  <2> QED BY <2>1 DEF ElementsOf
<1>5. ElementsOf(s) \subseteq {Head(s)} \cup ElementsOf(t)
  <2> SUFFICES ASSUME NEW i \in DOMAIN s, i # 1 PROVE s[i] \in ElementsOf(t)
    BY <1>1 DEF ElementsOf
  <2>1. i - 1 \in DOMAIN t /\ t[i - 1] = s[i]
    BY <1>1, <1>2 DEF t
  <2> QED BY <2>1 DEF ElementsOf
<1> QED BY <1>1, <1>3, <1>4, <1>5 DEF t

\* No element twice.
Single(s, e) == \A i, j \in 1 .. Len(s) : s[i] = e /\ s[j] = e => i = j

LEMMA TailSingle ==
    ASSUME NEW s \in Seq(Tasks), s # << >>, NEW e, Single(s, e)
    PROVE  /\ Single(Tail(s), e)
           /\ Head(s) = e => e \notin ElementsOf(Tail(s))
<1>1. /\ Head(s) = s[1] /\ Tail(s) \in Seq(Tasks)
      /\ Len(s) \in Nat \ {0}
      /\ Len(Tail(s)) = Len(s) - 1
      /\ \A i \in 1 .. Len(s) - 1 : Tail(s)[i] = s[i + 1]
  BY HeadTailProperties, EmptySeq
<1> DEFINE t == Tail(s)
<1>2. DOMAIN t = 1 .. Len(s) - 1
  BY <1>1
<1> HIDE DEF t
<1>3. \A i \in 1 .. Len(s) - 1 : i + 1 \in 1 .. Len(s) /\ t[i] = s[i + 1]
  BY <1>1 DEF t
<1>4. Single(t, e)
  <2> SUFFICES ASSUME NEW i \in 1 .. Len(t), NEW j \in 1 .. Len(t), t[i] = e, t[j] = e
               PROVE  i = j
    BY DEF Single
  <2>1. i \in 1 .. Len(s) - 1 /\ j \in 1 .. Len(s) - 1
    BY <1>1 DEF t
  <2>2. i + 1 = j + 1
    BY <1>3, <2>1 DEF Single
  <2> QED BY <1>1, <2>1, <2>2
<1>5. ASSUME Head(s) = e, NEW i \in DOMAIN t, t[i] = e PROVE FALSE
  <2>1. i \in 1 .. Len(s) - 1 /\ s[i + 1] = e /\ s[1] = e
    BY <1>1, <1>2, <1>3, <1>5
  <2>2. i + 1 = 1
    BY <1>1, <1>3, <2>1 DEF Single
  <2> QED BY <1>1, <2>1, <2>2
<1> QED BY <1>4, <1>5 DEF ElementsOf, t

LEMMA AppendSingle ==
    ASSUME NEW s \in Seq(Tasks), NEW d \in Tasks, NEW e, Single(s, e),
           d = e => e \notin ElementsOf(s)
    PROVE  Single(Append(s, d), e)
<1> DEFINE t == Append(s, d)
<1>1. /\ Len(t) = Len(s) + 1 /\ Len(s) \in Nat
      /\ \A i \in 1 .. Len(s) : t[i] = s[i]
      /\ t[Len(s) + 1] = d
  BY AppendIs
<1>2. DOMAIN s = 1 .. Len(s)
  OBVIOUS
<1>3. d = e => \A i \in 1 .. Len(s) : s[i] # e
  BY <1>2 DEF ElementsOf
<1> HIDE DEF t
<1> SUFFICES ASSUME NEW i \in 1 .. Len(t), NEW j \in 1 .. Len(t), t[i] = e, t[j] = e
             PROVE  i = j
  BY DEF Single, t
<1>4. i \in 1 .. Len(s) \/ i = Len(s) + 1
  BY <1>1
<1>5. j \in 1 .. Len(s) \/ j = Len(s) + 1
  BY <1>1
<1> QED BY <1>1, <1>3, <1>4, <1>5 DEF Single

(***************************************************************************)
(* What resume() does to a coroutine that it enters: it waited, and leaves *)
(* the descriptors that were its own.                                      *)
(***************************************************************************)
Leaves(c) == {f \in Fds : m_coroutine[f] = c}

Entered(c) ==
    /\ c \in Coroutines /\ c \in m_cors_set \ m_removed_cors
    /\ status[c] = "WAITING"
    /\ m_cur_coroutine' = c /\ in_coroutine'
    /\ status' = [status EXCEPT ![c] = "RUNNING"]
    /\ timers' = timers \ {<<c, "timed">>}
    /\ waits' = [waits EXCEPT ![c] = "no"]
    /\ m_fds' = m_fds \ Leaves(c)
    /\ m_coroutine' = [f \in Fds |-> IF m_coroutine[f] = c THEN None ELSE m_coroutine[f]]

NotEntered ==
    /\ UNCHANGED <<status, timers, waits, m_fds, m_coroutine, in_coroutine, aborted>>
    /\ m_cur_coroutine' \in Tasks

LEMMA ResumeIs ==
    ASSUME TypeOK, StatusInv, WaitInv, ~in_coroutine, aborted = FALSE, NEW c \in Tasks, Resume(c)
    PROVE  /\ Entered(c) \/ NotEntered
           /\ aborted' \in BOOLEAN
           /\ aborted' => Entered(c) /\ \E f \in Leaves(c) : f \notin m_fds
<1>1. CASE Enters(c)
  <2>1. c \in m_cors_set /\ c \in Coroutines /\ status[c] = "WAITING" /\ c \notin m_removed_cors
    BY <1>1 DEF Enters, TypeOK, StatusInv
  <2>2. /\ m_cur_coroutine' = c /\ in_coroutine' = TRUE
        /\ status' = [status EXCEPT ![c] = "RUNNING"]
        /\ timers' = timers \ {<<c, "timed">>}
        /\ waits' = [waits EXCEPT ![c] = "no"]
        /\ LeaveWait(c)
    BY <1>1 DEF Resume
  <2>3. CASE waits[c] \in {"fd", "timed"}
    <3>1. wait_fd[c] \in Fds /\ Leaves(c) = {wait_fd[c]}
      BY <2>1, <2>3, NoneAssumption DEF Leaves, WaitInv
    <3>2. /\ aborted' = (wait_fd[c] \notin m_fds)
          /\ m_fds' = m_fds \ {wait_fd[c]}
          /\ m_coroutine' = [m_coroutine EXCEPT ![wait_fd[c]] = None]
      BY <2>2, <2>3 DEF LeaveWait
    <3>3. m_coroutine' = [f \in Fds |-> IF m_coroutine[f] = c THEN None ELSE m_coroutine[f]]
      BY <3>1, <3>2 DEF TypeOK, Leaves
    <3>4. Entered(c)
      BY <2>1, <2>2, <3>1, <3>2, <3>3 DEF Entered
    <3> QED BY <3>1, <3>2, <3>4
  <2>4. CASE waits[c] \notin {"fd", "timed"}
    <3>1. Leaves(c) = {}
      BY <2>1, <2>4, NoneAssumption DEF Leaves, WaitInv
    <3>2. UNCHANGED <<m_fds, m_coroutine, aborted>>
      BY <2>2, <2>4 DEF LeaveWait
    <3>3. m_coroutine' = [f \in Fds |-> IF m_coroutine[f] = c THEN None ELSE m_coroutine[f]]
      BY <3>1, <3>2 DEF TypeOK, Leaves
    <3>4. Entered(c)
      BY <2>1, <2>2, <3>1, <3>2, <3>3 DEF Entered
    <3>5. aborted' \in BOOLEAN /\ ~aborted'
      BY <3>2
    <3> QED BY <3>4, <3>5
  <2> QED BY <2>3, <2>4
<1>2. CASE ~Enters(c)
  <2>1. NotEntered
    BY <1>2 DEF Resume, NotEntered, TypeOK, Tasks
  <2>2. aborted' = aborted
    BY <2>1 DEF NotEntered
  <2>3. aborted' \in BOOLEAN /\ ~aborted'
    BY <2>2
  <2> QED BY <2>1, <2>3
<1> QED BY <1>1, <1>2

\* The two places that resume: the callback of a timer event, and an active task.
LEMMA RunTimerIs ==
    ASSUME TypeOK, StatusInv, WaitInv, NEW t \in due, RunTimer(t)
    PROVE  \E c \in Coroutines, what \in {"timed", "sleep"} :
               /\ t = <<c, what>>
               /\ Entered(c) \/ NotEntered
               /\ loop_pc = "timers" /\ loop_pc' = "timers" /\ ~in_coroutine
               /\ due' = due \ {t} /\ cut' = cut \cup (m_fds \ m_fds')
               /\ UNCHANGED <<wait_fd, io, events, m_pending_tasks, m_active_tasks, m_cors_set,
                              m_removed_cors, tainted>>
               /\ aborted' \in BOOLEAN
               /\ aborted' => Entered(c) /\ \E f \in Leaves(c) : f \notin m_fds
<1>1. PICK c \in Coroutines, what \in {"timed", "sleep"} : t = <<c, what>>
  BY DEF TypeOK
<1>2. /\ loop_pc = "timers" /\ loop_pc' = loop_pc /\ ~in_coroutine /\ ~aborted
      /\ due' = due \ {t} /\ Resume(c) /\ cut' = cut \cup (m_fds \ m_fds')
      /\ UNCHANGED <<wait_fd, io, events, m_pending_tasks, m_active_tasks, m_cors_set,
                     m_removed_cors, tainted>>
  BY <1>1 DEF RunTimer, InLoop, taskVars
<1>3. aborted = FALSE
  BY <1>2 DEF TypeOK
<1>4. c \in Tasks
  BY DEF Tasks
<1>5. /\ Entered(c) \/ NotEntered
      /\ aborted' \in BOOLEAN
      /\ aborted' => Entered(c) /\ \E f \in Leaves(c) : f \notin m_fds
  BY <1>2, <1>3, <1>4, ResumeIs
<1> QED BY <1>1, <1>2, <1>5

LEMMA RunActiveIs ==
    ASSUME TypeOK, StatusInv, WaitInv, RunActive
    PROVE  \E c \in Tasks :
               /\ c = Head(m_active_tasks) /\ m_active_tasks # << >>
               /\ m_active_tasks' = Tail(m_active_tasks)
               /\ Entered(c) \/ NotEntered
               /\ loop_pc = "active" /\ loop_pc' = "active" /\ ~in_coroutine
               /\ UNCHANGED <<wait_fd, io, events, due, m_pending_tasks, m_cors_set,
                              m_removed_cors, tainted, cut>>
               /\ aborted' \in BOOLEAN
               /\ aborted' => Entered(c) /\ \E f \in Leaves(c) : f \notin m_fds
<1> DEFINE c == Head(m_active_tasks)
<1>1. /\ loop_pc = "active" /\ loop_pc' = loop_pc /\ ~in_coroutine /\ ~aborted
      /\ m_active_tasks # << >> /\ m_active_tasks' = Tail(m_active_tasks) /\ Resume(c)
      /\ UNCHANGED <<wait_fd, io, events, due, m_pending_tasks, m_cors_set, m_removed_cors, tainted, cut>>
  BY DEF RunActive, InLoop, historyVars
<1>2. aborted = FALSE
  BY <1>1 DEF TypeOK
<1>3. c \in Tasks
  <2>1. m_active_tasks \in Seq(Tasks)
    BY DEF TypeOK, Tasks
  <2> QED BY <1>1, <2>1, HeadTailProperties
<1> HIDE DEF c
<1>4. /\ Entered(c) \/ NotEntered
      /\ aborted' \in BOOLEAN
      /\ aborted' => Entered(c) /\ \E f \in Leaves(c) : f \notin m_fds
  BY <1>1, <1>2, <1>3, ResumeIs
<1> QED BY <1>1, <1>3, <1>4 DEF c

(***************************************************************************)
(* The types.                                                              *)
(***************************************************************************)
LEMMA TypeStep ==
    ASSUME TypeOK, StatusInv, WaitInv, Next
    PROVE  TypeOK'
<1> USE DEF TypeOK
<1>0. tainted' \subseteq Coroutines /\ cut' \subseteq Fds
  <2>1. ASSUME NEW t \in due, RunTimer(t) PROVE UNCHANGED tainted /\ cut' \subseteq Fds
    BY <2>1, RunTimerIs
  <2>2. ASSUME NEW f \in Fds, NEW how, WaitEvent(f, how)
        PROVE  tainted' \subseteq Coroutines /\ UNCHANGED cut
    BY <2>2 DEF WaitEvent, Yields, StatusInv
  <2>3. ASSUME NEW c \in Coroutines, Go(c) PROVE tainted' \subseteq Coroutines /\ UNCHANGED cut
    BY <2>3 DEF Go
  <2>4. CASE Poll
    BY <2>4 DEF Poll
  <2>5. CASE \/ Sleep \/ Exit \/ TimerReady \/ TimersDone \/ EventsDone \/ RunPending
             \/ PendingDone \/ RunActive \/ DeleteRemoved
             \/ \E f \in Fds : FdReady(f) \/ FdOdd(f) \/ Kernel(f) \/ Consume(f)
    <3>1. UNCHANGED historyVars
      BY <2>5
         DEF Sleep, Exit, TimerReady, TimersDone, EventsDone, RunPending, PendingDone, RunActive,
             DeleteRemoved, FdReady, FdOdd, Kernel, Consume
    <3> QED BY <3>1 DEF historyVars
  <2> QED BY <2>1, <2>2, <2>3, <2>4, <2>5 DEF Next, LoopStep, CoroutineStep
<1> USE <1>0
<1>1. ASSUME NEW t \in due, RunTimer(t) PROVE TypeOK'
  <2>1. PICK c \in Coroutines :
             /\ Entered(c) \/ NotEntered
             /\ loop_pc' = "timers" /\ due' \subseteq due
             /\ UNCHANGED <<wait_fd, io, events, m_pending_tasks, m_active_tasks, m_cors_set,
                            m_removed_cors>>
             /\ aborted' \in BOOLEAN
    BY <1>1, RunTimerIs
  <2>2. CASE Entered(c)
    BY <2>1, <2>2 DEF Entered
  <2>3. CASE NotEntered
    BY <2>1, <2>3 DEF NotEntered, Tasks
  <2> QED BY <2>1, <2>2, <2>3
<1>2. CASE RunActive
  <2>1. PICK c \in Tasks :
             /\ m_active_tasks # << >> /\ m_active_tasks' = Tail(m_active_tasks)
             /\ Entered(c) \/ NotEntered
             /\ loop_pc' = "active"
             /\ UNCHANGED <<wait_fd, io, events, due, m_pending_tasks, m_cors_set,
                            m_removed_cors>>
             /\ aborted' \in BOOLEAN
    BY <1>2, RunActiveIs
  <2>2. m_active_tasks' \in Seq(Coroutines \cup {None})
    BY <2>1, TailIs DEF Tasks
  <2>3. CASE Entered(c)
    BY <2>1, <2>2, <2>3 DEF Entered
  <2>4. CASE NotEntered
    BY <2>1, <2>2, <2>4 DEF NotEntered, Tasks
  <2> QED BY <2>1, <2>3, <2>4
<1>3. CASE RunPending
  <2>1. /\ Head(m_pending_tasks) \in Coroutines
        /\ Tail(m_pending_tasks) \in Seq(Coroutines)
    BY <1>3, HeadTailProperties DEF RunPending
  <2> QED BY <1>3, <2>1 DEF RunPending, epollVars
<1>4. CASE DeleteRemoved
  BY <1>4 DEF DeleteRemoved, epollVars, curVars
<1>5. CASE Sleep
  <2>1. m_cur_coroutine \in Coroutines
    BY <1>5 DEF Sleep, Yields, StatusInv
  <2>2. <<m_cur_coroutine, "sleep">> \in Coroutines \X {"timed", "sleep"}
    BY <2>1
  <2>3. timers' \subseteq Coroutines \X {"timed", "sleep"}
    BY <1>5, <2>2 DEF Sleep
  <2>4. status' \in [Coroutines -> {"free", "READY", "RUNNING", "WAITING"}]
        /\ waits' \in [Coroutines -> {"no", "fd", "timed", "sleep"}]
    BY <1>5, <2>1 DEF Sleep
  <2>5. /\ in_coroutine' = FALSE
        /\ UNCHANGED <<m_cur_coroutine, wait_fd, events, due, loop_pc, aborted>>
        /\ UNCHANGED epollVars /\ UNCHANGED taskVars
    BY <1>5 DEF Sleep, Yields
  <2> QED BY <2>3, <2>4, <2>5 DEF epollVars, taskVars
<1>6. CASE Exit
  BY <1>6 DEF Exit, Yields, epollVars, coVars, StatusInv
<1>7. ASSUME NEW f \in Fds, NEW how \in {"fd", "timed"}, WaitEvent(f, how) PROVE TypeOK'
  <2>1. m_cur_coroutine \in Coroutines
    BY <1>7 DEF WaitEvent, Yields, StatusInv
  <2>2. /\ in_coroutine' = FALSE /\ UNCHANGED <<m_cur_coroutine, io, events, due, loop_pc>>
        /\ UNCHANGED taskVars
        /\ m_coroutine' = [m_coroutine EXCEPT ![f] = m_cur_coroutine]
        /\ m_fds' = m_fds \cup {f}
        /\ wait_fd' = [wait_fd EXCEPT ![m_cur_coroutine] = f]
        /\ waits' = [waits EXCEPT ![m_cur_coroutine] = how]
        /\ status' = [status EXCEPT ![m_cur_coroutine] = "WAITING"]
        /\ timers' \in {timers, timers \cup {<<m_cur_coroutine, "timed">>}}
    BY <1>7 DEF WaitEvent, Yields
  <2>3. aborted' \in BOOLEAN
    BY <1>7 DEF WaitEvent
  <2>4. timers' \subseteq Coroutines \X {"timed", "sleep"}
    <3>1. <<m_cur_coroutine, "timed">> \in Coroutines \X {"timed", "sleep"}
      BY <2>1
    <3> QED BY <2>2, <3>1
  <2>5. /\ status' \in [Coroutines -> {"free", "READY", "RUNNING", "WAITING"}]
        /\ waits' \in [Coroutines -> {"no", "fd", "timed", "sleep"}]
        /\ wait_fd' \in [Coroutines -> Fds \cup {None}]
        /\ m_coroutine' \in [Fds -> Coroutines \cup {None}]
        /\ m_fds' \subseteq Fds
    BY <2>1, <2>2
  <2>6. UNCHANGED <<m_cur_coroutine, io, events, due, loop_pc>> /\ in_coroutine' \in BOOLEAN
    BY <2>2
  <2> QED BY <2>2, <2>3, <2>4, <2>5, <2>6 DEF taskVars
<1>8. CASE Poll
  <2>1. events' \subseteq (Fds \cup {"timer"}) \X {"ready", "odd"}
    BY <1>8 DEF Poll
  <2> QED BY <1>8, <2>1 DEF Poll, coVars, epollVars, curVars
<1>9. ASSUME NEW f \in Fds, FdReady(f) PROVE TypeOK'
  <2>1. Append(m_active_tasks, m_coroutine[f]) \in Seq(Coroutines \cup {None})
    BY AppendIs DEF Tasks
  <2> QED BY <1>9, <2>1 DEF FdReady, coVars, epollVars, curVars
<1>10. ASSUME NEW f \in Fds, FdOdd(f) PROVE TypeOK'
  <2>1. aborted' \in BOOLEAN
    BY <1>10 DEF FdOdd
  <2> QED BY <1>10, <2>1 DEF FdOdd, coVars, taskVars, curVars
<1>11. CASE TimerReady \/ TimersDone \/ EventsDone \/ PendingDone
  BY <1>11
     DEF TimerReady, TimersDone, EventsDone, PendingDone, coVars, epollVars, taskVars, curVars
<1>12. ASSUME NEW f \in Fds, Kernel(f) \/ Consume(f) PROVE TypeOK'
  <2>1. io' \in [Fds -> {"quiet", "ready", "odd"}]
    BY <1>12 DEF Kernel, Consume
  <2> QED BY <1>12, <2>1 DEF Kernel, Consume, coVars, taskVars, curVars
<1>13. ASSUME NEW c \in Coroutines, Go(c) PROVE TypeOK'
  <2>1. Append(m_pending_tasks, c) \in Seq(Coroutines)
    BY AppendProperties
  <2> QED BY <1>13, <2>1 DEF Go, epollVars, curVars
<1> QED
  BY <1>1, <1>2, <1>3, <1>4, <1>5, <1>6, <1>7, <1>8, <1>9, <1>10, <1>11, <1>12, <1>13
     DEF Next, LoopStep, CoroutineStep

(***************************************************************************)
(* The queues that a coroutine is in.                                      *)
(***************************************************************************)
LEMMA StatusStep ==
    ASSUME TypeOK, TypeOK', StatusInv, WaitInv, Next
    PROVE  StatusInv'
<1>0. /\ m_pending_tasks \in Seq(Tasks) /\ m_active_tasks \in Seq(Tasks)
      /\ status \in [Coroutines -> {"free", "READY", "RUNNING", "WAITING"}]
      /\ None \notin Coroutines
  BY NoneAssumption DEF TypeOK, Tasks
<1>1. ASSUME NEW c \in Tasks, Entered(c) \/ NotEntered, ~in_coroutine,
             UNCHANGED <<m_pending_tasks, m_cors_set, m_removed_cors>>,
             loop_pc' = loop_pc, loop_pc \in {"timers", "active"},
             ElementsOf(m_active_tasks') \subseteq ElementsOf(m_active_tasks)
      PROVE  StatusInv'
  <2>1. CASE Entered(c)
    BY <1>0, <1>1, <2>1 DEF Entered, StatusInv
  <2>2. CASE NotEntered
    BY <1>0, <1>1, <2>2 DEF NotEntered, StatusInv
  <2> QED BY <1>1, <2>1, <2>2
<1>2. ASSUME NEW t \in due, RunTimer(t) PROVE StatusInv'
  <2>1. PICK c \in Coroutines :
             /\ Entered(c) \/ NotEntered
             /\ loop_pc = "timers" /\ loop_pc' = "timers" /\ ~in_coroutine
             /\ UNCHANGED <<m_pending_tasks, m_active_tasks, m_cors_set, m_removed_cors>>
    BY <1>2, RunTimerIs
  <2>2. c \in Tasks
    BY DEF Tasks
  <2> QED BY <1>1, <2>1, <2>2
<1>3. CASE RunActive
  <2>1. PICK c \in Tasks :
             /\ m_active_tasks # << >> /\ m_active_tasks' = Tail(m_active_tasks)
             /\ Entered(c) \/ NotEntered
             /\ loop_pc = "active" /\ loop_pc' = "active" /\ ~in_coroutine
             /\ UNCHANGED <<m_pending_tasks, m_cors_set, m_removed_cors>>
    BY <1>3, RunActiveIs
  <2>2. ElementsOf(m_active_tasks') \subseteq ElementsOf(m_active_tasks)
    BY <1>0, <2>1, TailIs
  <2> QED BY <1>1, <2>1, <2>2
<1>4. CASE RunPending
  <2> DEFINE c == Head(m_pending_tasks)
             s == m_pending_tasks
  <2>1. s # << >> /\ s \in Seq(Tasks)
    BY <1>0, <1>4 DEF RunPending
  <2>2. \A e : Single(s, e)
    BY DEF StatusInv, Single
  <2>3. /\ c \in ElementsOf(s) /\ c \notin ElementsOf(Tail(s))
        /\ ElementsOf(s) = {c} \cup ElementsOf(Tail(s))
    BY <2>1, <2>2, TailIs, TailSingle
  <2>4. \A i, j \in 1 .. Len(Tail(s)) : Tail(s)[i] = Tail(s)[j] => i = j
    <3>1. \A e : Single(Tail(s), e)
      BY <2>1, <2>2, TailSingle
    <3> QED BY <3>1 DEF Single
  <2>5. c \in Coroutines /\ status[c] = "READY"
    <3>1. c \in Coroutines
      BY <2>1, HeadTailProperties DEF TypeOK
    <3> QED BY <2>3, <3>1 DEF StatusInv
  <2>6. /\ m_cors_set' = m_cors_set \cup {c} /\ m_pending_tasks' = Tail(s)
        /\ m_cur_coroutine' = c /\ in_coroutine' /\ ~in_coroutine
        /\ status' = [status EXCEPT ![c] = "RUNNING"]
        /\ loop_pc = "pending" /\ UNCHANGED <<m_active_tasks, m_removed_cors, loop_pc>>
    BY <1>4 DEF RunPending, InLoop
  <2> HIDE DEF c, s
  <2>7. ASSUME NEW d \in Coroutines
        PROVE  /\ status'[d] = "READY" <=> d \in ElementsOf(m_pending_tasks')
               /\ d \in m_cors_set' <=> status'[d] \in {"RUNNING", "WAITING"}
               /\ status'[d] = "RUNNING" <=>
                      d \in m_removed_cors' \/ (in_coroutine' /\ m_cur_coroutine' = d)
               /\ d \in ElementsOf(m_active_tasks') => status'[d] # "free"
    <3>1. /\ status[d] = "READY" <=> d \in ElementsOf(s)
          /\ d \in m_cors_set <=> status[d] \in {"RUNNING", "WAITING"}
          /\ status[d] = "RUNNING" <=> d \in m_removed_cors
          /\ d \in ElementsOf(m_active_tasks) => status[d] # "free"
      BY <2>6 DEF StatusInv, s
    <3>2. CASE d = c
      BY <1>0, <2>3, <2>5, <2>6, <3>1, <3>2
    <3>3. CASE d # c
      BY <1>0, <2>3, <2>5, <2>6, <3>1, <3>3
    <3> QED BY <3>2, <3>3
  <2>8. c \notin m_removed_cors
    BY <2>5 DEF StatusInv
  <2> QED BY <2>4, <2>5, <2>6, <2>7, <2>8 DEF StatusInv
<1>5. CASE DeleteRemoved
  <2>1. /\ m_cors_set' = m_cors_set \ m_removed_cors /\ ~in_coroutine
        /\ status' = [c \in Coroutines |-> IF c \in m_removed_cors THEN "free" ELSE status[c]]
        /\ m_removed_cors' = {} /\ m_active_tasks = << >> /\ loop_pc' = "poll"
        /\ UNCHANGED <<m_pending_tasks, m_active_tasks, in_coroutine, m_cur_coroutine>>
    BY <1>5 DEF DeleteRemoved, InLoop, curVars
  <2>2. ElementsOf(m_active_tasks') = {}
    BY <2>1 DEF ElementsOf
  <2> QED BY <1>0, <2>1, <2>2 DEF StatusInv
<1>6. CASE Sleep \/ \E f \in Fds : WaitEvent(f, "fd") \/ WaitEvent(f, "timed")
  <2>1. /\ in_coroutine /\ ~in_coroutine'
        /\ status' = [status EXCEPT ![m_cur_coroutine] = "WAITING"]
        /\ UNCHANGED <<m_pending_tasks, m_active_tasks, m_cors_set, m_removed_cors,
                       m_cur_coroutine, loop_pc>>
    BY <1>6 DEF Sleep, WaitEvent, Yields, taskVars
  <2> QED BY <1>0, <2>1 DEF StatusInv
<1>7. CASE Exit
  <2>1. /\ in_coroutine /\ ~in_coroutine'
        /\ m_removed_cors' = m_removed_cors \cup {m_cur_coroutine}
        /\ UNCHANGED <<status, m_pending_tasks, m_active_tasks, m_cors_set, m_cur_coroutine,
                       loop_pc>>
    BY <1>7 DEF Exit, Yields, coVars
  <2> QED BY <1>0, <2>1 DEF StatusInv
<1>8. CASE Poll
  <2>1. /\ m_active_tasks' = << >> /\ loop_pc' = "events" /\ ~in_coroutine
        /\ UNCHANGED <<status, m_pending_tasks, m_cors_set, m_removed_cors, m_cur_coroutine,
                       in_coroutine>>
    BY <1>8 DEF Poll, InLoop, coVars, curVars
  <2>2. ElementsOf(m_active_tasks') = {}
    BY <2>1 DEF ElementsOf
  <2> QED BY <2>1, <2>2 DEF StatusInv
<1>9. ASSUME NEW f \in Fds, FdReady(f) PROVE StatusInv'
  <2>1. /\ m_active_tasks' = Append(m_active_tasks, m_coroutine[f])
        /\ loop_pc = "events" /\ ~in_coroutine
        /\ UNCHANGED <<status, m_pending_tasks, m_cors_set, m_removed_cors, m_cur_coroutine,
                       in_coroutine, loop_pc>>
    BY <1>9 DEF FdReady, InLoop, coVars, curVars
  <2>2. m_coroutine[f] \in Tasks
    BY DEF TypeOK, Tasks
  <2>3. ElementsOf(m_active_tasks') = ElementsOf(m_active_tasks) \cup {m_coroutine[f]}
    BY <1>0, <2>1, <2>2, AppendIs
  <2>4. m_coroutine[f] # None => status[m_coroutine[f]] # "free"
    BY <2>2 DEF WaitInv, Tasks
  <2>5. \A c \in Coroutines : c \in ElementsOf(m_active_tasks') => status[c] # "free"
    BY <1>0, <2>3, <2>4 DEF StatusInv
  <2> QED BY <2>1, <2>5 DEF StatusInv
<1>10. CASE \/ \E f \in Fds : FdOdd(f) \/ Kernel(f) \/ Consume(f)
            \/ TimerReady \/ TimersDone \/ EventsDone \/ PendingDone
  <2>1. /\ UNCHANGED <<status, m_pending_tasks, m_active_tasks, m_cors_set, m_removed_cors,
                       m_cur_coroutine, in_coroutine>>
        /\ \/ loop_pc' = loop_pc
           \/ ~in_coroutine /\ loop_pc' \in {"events", "timers", "pending", "active"}
    BY <1>10
       DEF FdOdd, Kernel, Consume, TimerReady, TimersDone, EventsDone, PendingDone, InLoop,
           coVars, taskVars, curVars
  <2> QED BY <2>1 DEF StatusInv
<1>11. ASSUME NEW c \in Coroutines, Go(c) PROVE StatusInv'
  <2> DEFINE s == m_pending_tasks
  <2>1. /\ status[c] = "free" /\ status' = [status EXCEPT ![c] = "READY"]
        /\ m_pending_tasks' = Append(s, c)
        /\ UNCHANGED <<m_active_tasks, m_cors_set, m_removed_cors, m_cur_coroutine,
                       in_coroutine, loop_pc>>
    BY <1>11 DEF Go, curVars
  <2>2. c \notin ElementsOf(s) /\ c \in Tasks
    BY <2>1 DEF StatusInv, Tasks
  <2>3. ElementsOf(Append(s, c)) = ElementsOf(s) \cup {c}
    BY <1>0, <2>2, AppendIs
  <2>4. \A i, j \in 1 .. Len(Append(s, c)) : Append(s, c)[i] = Append(s, c)[j] => i = j
    <3>1. \A e : Single(s, e)
      BY DEF StatusInv, Single
    <3>2. \A e : Single(Append(s, c), e)
      BY <1>0, <2>2, <3>1, AppendSingle
    <3> QED BY <3>2 DEF Single
  <2> HIDE DEF s
  <2>5. ASSUME NEW d \in Coroutines
        PROVE  /\ status'[d] = "READY" <=> d \in ElementsOf(m_pending_tasks')
               /\ d \in m_cors_set' <=> status'[d] \in {"RUNNING", "WAITING"}
               /\ status'[d] = "RUNNING" <=>
                      d \in m_removed_cors' \/ (in_coroutine' /\ m_cur_coroutine' = d)
               /\ d \in ElementsOf(m_active_tasks') => status'[d] # "free"
    <3>1. /\ status[d] = "READY" <=> d \in ElementsOf(s)
          /\ d \in m_cors_set <=> status[d] \in {"RUNNING", "WAITING"}
          /\ status[d] = "RUNNING" <=>
                 d \in m_removed_cors \/ (in_coroutine /\ m_cur_coroutine = d)
          /\ d \in ElementsOf(m_active_tasks) => status[d] # "free"
      BY DEF StatusInv, s
    <3>2. CASE d = c
      BY <1>0, <2>1, <2>3, <3>1, <3>2
    <3>3. CASE d # c
      BY <1>0, <2>1, <2>3, <3>1, <3>3
    <3> QED BY <3>2, <3>3
  <2> QED BY <2>1, <2>4, <2>5 DEF StatusInv
<1> QED
  BY <1>2, <1>3, <1>4, <1>5, <1>6, <1>7, <1>8, <1>9, <1>10, <1>11
     DEF Next, LoopStep, CoroutineStep

(***************************************************************************)
(* What the coroutines wait for.                                           *)
(***************************************************************************)
LEMMA WaitStep ==
    ASSUME TypeOK, TypeOK', StatusInv, WaitInv, PhaseInv, Next
    PROVE  WaitInv'
<1>0. /\ status \in [Coroutines -> {"free", "READY", "RUNNING", "WAITING"}]
      /\ waits \in [Coroutines -> {"no", "fd", "timed", "sleep"}]
      /\ m_coroutine \in [Fds -> Coroutines \cup {None}]
      /\ wait_fd \in [Coroutines -> Fds \cup {None}]
      /\ None \notin Coroutines
  BY NoneAssumption DEF TypeOK
<1>1. ASSUME NEW c \in Tasks, Entered(c) \/ NotEntered, UNCHANGED wait_fd
      PROVE  WaitInv'
  <2>1. CASE Entered(c)
    <3>1. \A d \in Coroutines :
              /\ d # c => status'[d] = status[d] /\ waits'[d] = waits[d]
              /\ d = c => status'[d] = "RUNNING" /\ waits'[d] = "no"
      BY <1>0, <2>1 DEF Entered
    <3>2. /\ c \in Coroutines
          /\ \A f \in Fds :
              /\ m_coroutine[f] = c => m_coroutine'[f] = None /\ f \notin m_fds'
              /\ m_coroutine[f] # c =>
                     m_coroutine'[f] = m_coroutine[f] /\ (f \in m_fds' <=> f \in m_fds)
      BY <2>1 DEF Entered, Leaves
    <3>3. ASSUME NEW d \in Coroutines
          PROVE  /\ status'[d] = "WAITING" <=> waits'[d] # "no"
                 /\ waits'[d] \in {"fd", "timed"} =>
                        wait_fd'[d] \in Fds /\ m_coroutine'[wait_fd'[d]] = d
                 /\ waits'[d] = "timed" => d \in Callers[wait_fd'[d]]
      BY <1>0, <1>1, <3>1, <3>2 DEF WaitInv
    <3>4. ASSUME NEW f \in Fds
          PROVE  /\ m_coroutine'[f] # None =>
                      /\ waits'[m_coroutine'[f]] \in {"fd", "timed"}
                      /\ wait_fd'[m_coroutine'[f]] = f
                      /\ m_coroutine'[f] \in Users[f] \cup Callers[f]
                 /\ f \in m_fds' => m_coroutine'[f] # None
                 /\ m_coroutine'[f] # None /\ f \notin OddFds => f \in m_fds'
      <4>1. CASE m_coroutine[f] = c
        BY <1>0, <3>2, <4>1 DEF WaitInv
      <4>2. CASE m_coroutine[f] # c
        BY <1>0, <1>1, <3>1, <3>2, <4>2 DEF WaitInv
      <4> QED BY <4>1, <4>2
    <3> QED BY <3>3, <3>4 DEF WaitInv
  <2>2. CASE NotEntered
    BY <1>1, <2>2 DEF NotEntered, WaitInv
  <2> QED BY <1>1, <2>1, <2>2
<1>2. ASSUME NEW t \in due, RunTimer(t) PROVE WaitInv'
  <2>1. PICK c \in Coroutines : (Entered(c) \/ NotEntered) /\ UNCHANGED wait_fd
    BY <1>2, RunTimerIs
  <2>2. c \in Tasks
    BY DEF Tasks
  <2> QED BY <1>1, <2>1, <2>2
<1>3. CASE RunActive
  <2>1. PICK c \in Tasks : (Entered(c) \/ NotEntered) /\ UNCHANGED wait_fd
    BY <1>3, RunActiveIs
  <2> QED BY <1>1, <2>1
<1>4. CASE RunPending \/ DeleteRemoved \/ \E c \in Coroutines : Go(c)
  <2>1. /\ UNCHANGED <<wait_fd, m_fds, m_coroutine>>
        /\ \A d \in Coroutines :
               \/ status'[d] = status[d] /\ waits'[d] = waits[d]
               \/ /\ status[d] # "WAITING" /\ status'[d] # "WAITING"
                  /\ waits'[d] \in {waits[d], "no"}
    <3>1. CASE RunPending
      <4> DEFINE c == Head(m_pending_tasks)
      <4>1. /\ status' = [status EXCEPT ![c] = "RUNNING"] /\ m_pending_tasks # << >>
            /\ UNCHANGED <<wait_fd, m_fds, m_coroutine, waits>>
        BY <3>1 DEF RunPending, epollVars
      <4>2. m_pending_tasks \in Seq(Tasks)
        BY DEF TypeOK, Tasks
      <4>3. c \in ElementsOf(m_pending_tasks)
        BY <4>1, <4>2, TailIs
      <4> HIDE DEF c
      <4>4. ASSUME NEW d \in Coroutines
            PROVE  \/ status'[d] = status[d] /\ waits'[d] = waits[d]
                   \/ /\ status[d] # "WAITING" /\ status'[d] # "WAITING"
                      /\ waits'[d] \in {waits[d], "no"}
        <5>1. CASE d = c
          BY <1>0, <4>1, <4>3, <5>1 DEF StatusInv
        <5>2. CASE d # c
          BY <1>0, <4>1, <5>2
        <5> QED BY <5>1, <5>2
      <4> QED BY <4>1, <4>4
    <3>2. CASE DeleteRemoved
      <4>1. /\ status' = [c \in Coroutines |-> IF c \in m_removed_cors THEN "free"
                                                                      ELSE status[c]]
            /\ UNCHANGED <<wait_fd, m_fds, m_coroutine, waits>>
        BY <3>2 DEF DeleteRemoved, epollVars
      <4> QED BY <1>0, <4>1 DEF StatusInv
    <3>3. ASSUME NEW c \in Coroutines, Go(c)
          PROVE  /\ UNCHANGED <<wait_fd, m_fds, m_coroutine>>
                 /\ \A d \in Coroutines :
                        \/ status'[d] = status[d] /\ waits'[d] = waits[d]
                        \/ /\ status[d] # "WAITING" /\ status'[d] # "WAITING"
                           /\ waits'[d] \in {waits[d], "no"}
      <4>1. /\ status' = [status EXCEPT ![c] = "READY"] /\ status[c] = "free"
            /\ waits' = [waits EXCEPT ![c] = "no"]
            /\ UNCHANGED <<wait_fd, m_fds, m_coroutine>>
        BY <3>3 DEF Go, epollVars
      <4> QED BY <1>0, <4>1
    <3> QED BY <1>4, <3>1, <3>2, <3>3
  <2>2. \A d \in Coroutines : waits'[d] = waits[d] /\ (status'[d] = "WAITING" <=>
                                                        status[d] = "WAITING")
    BY <1>0, <2>1 DEF WaitInv
  <2> QED BY <1>0, <2>1, <2>2 DEF WaitInv
<1>5. CASE Sleep
  <2>1. /\ in_coroutine
        /\ status' = [status EXCEPT ![m_cur_coroutine] = "WAITING"]
        /\ waits' = [waits EXCEPT ![m_cur_coroutine] = "sleep"]
        /\ UNCHANGED <<wait_fd, m_fds, m_coroutine>>
    BY <1>5 DEF Sleep, Yields, epollVars
  <2>2. m_cur_coroutine \in Coroutines /\ waits[m_cur_coroutine] = "no"
    BY <1>0, <2>1 DEF StatusInv, WaitInv
  <2> QED BY <1>0, <2>1, <2>2 DEF WaitInv
<1>6. ASSUME NEW f \in Fds, NEW how \in {"fd", "timed"}, WaitEvent(f, how) PROVE WaitInv'
  <2> DEFINE c == m_cur_coroutine
  <2>1. /\ in_coroutine /\ m_coroutine[f] = None
        /\ c \in IF how = "timed" THEN Callers[f] ELSE Users[f]
        /\ status' = [status EXCEPT ![c] = "WAITING"]
        /\ waits' = [waits EXCEPT ![c] = how]
        /\ wait_fd' = [wait_fd EXCEPT ![c] = f]
        /\ m_fds' = m_fds \cup {f}
        /\ m_coroutine' = [m_coroutine EXCEPT ![f] = c]
    BY <1>6 DEF WaitEvent, Yields
  <2>2. c \in Coroutines /\ waits[c] = "no"
    BY <1>0, <2>1 DEF StatusInv, WaitInv
  <2> HIDE DEF c
  <2>3. \A d \in Coroutines :
            /\ d # c => status'[d] = status[d] /\ waits'[d] = waits[d] /\ wait_fd'[d] = wait_fd[d]
            /\ d = c => status'[d] = "WAITING" /\ waits'[d] = how /\ wait_fd'[d] = f
    BY <1>0, <2>1
  <2>4. \A g \in Fds :
            /\ g # f => m_coroutine'[g] = m_coroutine[g] /\ (g \in m_fds' <=> g \in m_fds)
            /\ g = f => m_coroutine'[g] = c /\ g \in m_fds'
    BY <1>0, <2>1
  <2>5. ASSUME NEW d \in Coroutines
        PROVE  /\ status'[d] = "WAITING" <=> waits'[d] # "no"
               /\ waits'[d] \in {"fd", "timed"} =>
                      wait_fd'[d] \in Fds /\ m_coroutine'[wait_fd'[d]] = d
               /\ waits'[d] = "timed" => d \in Callers[wait_fd'[d]]
    BY <1>0, <2>1, <2>2, <2>3, <2>4 DEF WaitInv
  <2>6. ASSUME NEW g \in Fds
        PROVE  /\ m_coroutine'[g] # None =>
                    /\ waits'[m_coroutine'[g]] \in {"fd", "timed"}
                    /\ wait_fd'[m_coroutine'[g]] = g
                    /\ m_coroutine'[g] \in Users[g] \cup Callers[g]
               /\ g \in m_fds' => m_coroutine'[g] # None
               /\ m_coroutine'[g] # None /\ g \notin OddFds => g \in m_fds'
    BY <1>0, <2>1, <2>2, <2>3, <2>4 DEF WaitInv
  <2> QED BY <2>5, <2>6 DEF WaitInv
<1>7. ASSUME NEW f \in Fds, FdOdd(f) PROVE WaitInv'
  <2>1. UNCHANGED <<status, waits, wait_fd, m_coroutine>> /\ m_fds' = m_fds \ {f}
    BY <1>7 DEF FdOdd, coVars
  <2>2. f \in OddFds
    BY <1>7 DEF FdOdd, PhaseInv
  <2> QED BY <2>1, <2>2 DEF WaitInv
<1>8. CASE \/ Exit \/ Poll \/ TimerReady \/ TimersDone \/ EventsDone \/ PendingDone
           \/ \E f \in Fds : FdReady(f) \/ Kernel(f) \/ Consume(f)
  <2>1. UNCHANGED <<status, waits, wait_fd, m_coroutine, m_fds>>
    BY <1>8
       DEF Exit, Poll, TimerReady, TimersDone, EventsDone, PendingDone, FdReady, Kernel, Consume,
           coVars, epollVars
  <2> QED BY <2>1 DEF WaitInv
<1> QED
  BY <1>2, <1>3, <1>4, <1>5, <1>6, <1>7, <1>8 DEF Next, LoopStep, CoroutineStep

(***************************************************************************)
(* What is left to do in a phase of the loop.                              *)
(***************************************************************************)
LEMMA PhaseStep ==
    ASSUME TypeOK, TypeOK', StatusInv, WaitInv, PhaseInv, Next
    PROVE  PhaseInv'
<1>1. CASE Poll
  <2>1. /\ due' \in SUBSET timers /\ loop_pc' = "events" /\ UNCHANGED <<timers, io>>
        /\ events' = {<<f, io[f]>> : f \in {g \in m_fds : io[g] # "quiet"}}
                         \cup IF due' # {} THEN {<<"timer", "ready">>} ELSE {}
    BY <1>1 DEF Poll, epollVars
  <2>2. <<"timer", "ready">> \in events' <=> due' # {}
    BY <2>1, TimerAssumption DEF TypeOK
  <2>3. ASSUME NEW f \in Fds, NEW what, <<f, what>> \in events' PROVE what = io[f]
    <3>1. f # "timer"
      BY TimerAssumption
    <3> QED BY <2>1, <2>3, <3>1
  <2>4. \A f \in Fds : ~({<<f, "ready">>, <<f, "odd">>} \subseteq events')
    <3> SUFFICES ASSUME NEW f \in Fds, <<f, "ready">> \in events', <<f, "odd">> \in events'
                 PROVE  FALSE
      OBVIOUS
    <3>1. io[f] = "ready" /\ io[f] = "odd"
      BY <2>3
    <3> QED BY <3>1
  <2>5. \A f \in Fds : io'[f] = "odd" \/ <<f, "odd">> \in events' => f \in OddFds
    BY <2>1, <2>3 DEF PhaseInv
  <2> QED BY <2>1, <2>2, <2>4, <2>5 DEF PhaseInv
<1>2. ASSUME NEW f \in Fds, FdReady(f) \/ FdOdd(f) PROVE PhaseInv'
  <2>1. PICK what \in {"ready", "odd"} : events' = events \ {<<f, what>>}
    BY <1>2 DEF FdReady, FdOdd
  <2>2. UNCHANGED <<due, timers, io, loop_pc>> /\ loop_pc = "events"
    BY <1>2 DEF FdReady, FdOdd, InLoop, epollVars
  <2>3. <<"timer", "ready">> \in events' <=> <<"timer", "ready">> \in events
    BY <2>1, TimerAssumption
  <2> QED BY <2>1, <2>2, <2>3 DEF PhaseInv
<1>3. CASE TimerReady
  <2>1. /\ loop_pc = "events" /\ loop_pc' = "timers" /\ UNCHANGED <<due, io>>
        /\ events' = events \ {<<"timer", "ready">>}
    BY <1>3 DEF TimerReady, InLoop, epollVars
  <2> QED BY <2>1 DEF PhaseInv
<1>4. CASE TimersDone
  <2>1. /\ loop_pc = "timers" /\ loop_pc' = "events" /\ due' = {}
        /\ UNCHANGED <<events, io>>
    BY <1>4 DEF TimersDone, InLoop, epollVars
  <2> QED BY <2>1 DEF PhaseInv
<1>5. CASE EventsDone
  <2>1. /\ loop_pc = "events" /\ loop_pc' = "pending" /\ events = {}
        /\ UNCHANGED <<events, due, io>>
    BY <1>5 DEF EventsDone, InLoop, epollVars
  <2> QED BY <2>1 DEF PhaseInv
<1>6. ASSUME NEW t \in due, RunTimer(t) PROVE PhaseInv'
  <2>1. /\ loop_pc = "timers" /\ loop_pc' = "timers"
        /\ UNCHANGED <<events, io>>
    BY <1>6 DEF RunTimer, InLoop
  <2> QED BY <2>1 DEF PhaseInv
<1>7. CASE PendingDone \/ DeleteRemoved \/ RunPending \/ RunActive
  <2>1. /\ loop_pc \in {"pending", "active"} /\ loop_pc' \in {"pending", "active", "poll"}
        /\ UNCHANGED <<events, due, io>>
    BY <1>7 DEF PendingDone, DeleteRemoved, RunPending, RunActive, InLoop, epollVars
  <2> QED BY <2>1 DEF PhaseInv
<1>8. CASE \/ CoroutineStep \/ \E c \in Coroutines : Go(c)
           \/ \E f \in Fds : Consume(f)
  <2>1. UNCHANGED <<events, due, loop_pc>> /\ timers \subseteq timers'
    BY <1>8 DEF CoroutineStep, Sleep, Exit, WaitEvent, Go, Consume
  <2>2. \A f \in Fds : io'[f] = "odd" => io[f] = "odd"
    <3>1. \/ UNCHANGED io
          \/ \E f \in Fds : io' = [io EXCEPT ![f] = "quiet"]
      BY <1>8 DEF CoroutineStep, Sleep, Exit, WaitEvent, Go, Consume, epollVars
    <3>2. io \in [Fds -> {"quiet", "ready", "odd"}]
      BY DEF TypeOK
    <3> QED BY <3>1, <3>2
  <2> QED BY <2>1, <2>2 DEF PhaseInv
<1>9. ASSUME NEW f \in Fds, Kernel(f) PROVE PhaseInv'
  <2>1. UNCHANGED <<events, due, timers, loop_pc>>
    BY <1>9 DEF Kernel
  <2>2. \A g \in Fds : io'[g] = "odd" => g \in OddFds
    <3>1. PICK what \in {"ready", "odd"} :
               (what = "odd" => f \in OddFds) /\ io' = [io EXCEPT ![f] = what]
      BY <1>9 DEF Kernel
    <3>2. io \in [Fds -> {"quiet", "ready", "odd"}]
      BY DEF TypeOK
    <3> QED BY <3>1, <3>2 DEF PhaseInv
  <2> QED BY <2>1, <2>2 DEF PhaseInv
<1> QED
  BY <1>1, <1>2, <1>3, <1>4, <1>5, <1>6, <1>7, <1>8, <1>9 DEF Next, LoopStep

(***************************************************************************)
(* What may resume a coroutine that has not waited with a timer beside.    *)
(***************************************************************************)
PlainCo(c) ==
    /\ <<c, "timed">> \notin timers \cup due
    /\ <<c, "sleep">> \in timers \cup due => waits[c] = "sleep"
    /\ loop_pc = "timers" => <<c, "sleep">> \notin timers \cap due
    /\ waits[c] # "timed"
    /\ c \in ElementsOf(m_active_tasks) =>
           /\ waits[c] = "fd"
           /\ \A what \in {"ready", "odd"} : <<wait_fd[c], what>> \notin events
           /\ wait_fd[c] \notin cut => /\ wait_fd[c] \in m_fds
                                       /\ io[wait_fd[c]] # "quiet"
    /\ Single(m_active_tasks, c)

PlainFd(f) ==
    \A what \in {"ready", "odd"} :
        f \notin cut /\ <<f, what>> \in events => f \in m_fds /\ io[f] # "quiet"

LEMMA PlainIs ==
    /\ PlainInv <=> /\ \A c \in Coroutines : c \notin tainted => PlainCo(c)
                    /\ \A f \in Fds : PlainFd(f)
    /\ PlainInv' <=> /\ \A c \in Coroutines : c \notin tainted' => PlainCo(c)'
                     /\ \A f \in Fds : PlainFd(f)'
BY DEF PlainInv, PlainCo, PlainFd, Single

\* Its waits are for descriptors, without a timer, or for its sleep.
LEMMA PlainWaits ==
    ASSUME TypeOK, WaitInv, NEW c \in Coroutines, PlainCo(c)
    PROVE  /\ waits[c] \in {"no", "fd", "sleep"}
           /\ waits[c] = "fd" => wait_fd[c] \in Fds /\ m_coroutine[wait_fd[c]] = c
<1>1. waits[c] \in {"no", "fd", "timed", "sleep"}
  BY DEF TypeOK
<1>2. waits[c] \in {"fd", "timed"} => wait_fd[c] \in Fds /\ m_coroutine[wait_fd[c]] = c
  BY DEF WaitInv
<1>3. waits[c] # "timed"
  BY DEF PlainCo
<1> QED BY <1>1, <1>2, <1>3

LEMMA PlainCoPrimed ==
    ASSUME NEW c \in Coroutines,
           <<c, "timed">> \notin timers' \cup due',
           <<c, "sleep">> \in timers' \cup due' => waits'[c] = "sleep",
           loop_pc' = "timers" => <<c, "sleep">> \notin timers' \cap due',
           waits'[c] # "timed",
           c \in ElementsOf(m_active_tasks') =>
               /\ waits'[c] = "fd"
               /\ \A what \in {"ready", "odd"} : <<wait_fd'[c], what>> \notin events'
               /\ wait_fd'[c] \notin cut' => /\ wait_fd'[c] \in m_fds'
                                           /\ io'[wait_fd'[c]] # "quiet",
           Single(m_active_tasks', c)
    PROVE  PlainCo(c)'
BY DEF PlainCo, Single, ElementsOf

LEMMA PlainFdPrimed ==
    ASSUME NEW f \in Fds,
           \A what \in {"ready", "odd"} :
               f \notin cut' /\ <<f, what>> \in events' => f \in m_fds' /\ io'[f] # "quiet"
    PROVE  PlainFd(f)'
BY DEF PlainFd

\* One that stays where it is.
LEMMA PlainStays ==
    ASSUME NEW c \in Coroutines, PlainCo(c),
           waits'[c] = waits[c], wait_fd'[c] = wait_fd[c],
           \A what \in {"timed", "sleep"} :
               <<c, what>> \in timers' \cup due' => <<c, what>> \in timers \cup due,
           loop_pc' = "timers" => <<c, "sleep">> \notin timers' \cap due',
           c \in ElementsOf(m_active_tasks') => c \in ElementsOf(m_active_tasks),
           Single(m_active_tasks', c),
           events' \subseteq events,
           c \in ElementsOf(m_active_tasks) /\ wait_fd[c] \notin cut' =>
               wait_fd[c] \in m_fds' /\ io'[wait_fd[c]] # "quiet"
    PROVE  PlainCo(c)'
<1>1. <<c, "timed">> \notin timers' \cup due'
  BY DEF PlainCo
<1>2. <<c, "sleep">> \in timers' \cup due' => waits'[c] = "sleep"
  BY DEF PlainCo
<1>3. c \in ElementsOf(m_active_tasks') =>
          /\ waits'[c] = "fd"
          /\ \A what \in {"ready", "odd"} : <<wait_fd'[c], what>> \notin events'
          /\ wait_fd'[c] \notin cut' => /\ wait_fd'[c] \in m_fds'
                                      /\ io'[wait_fd'[c]] # "quiet"
  BY DEF PlainCo
<1>4. waits'[c] # "timed"
  BY DEF PlainCo
<1> QED BY <1>1, <1>2, <1>3, <1>4, PlainCoPrimed

LEMMA PlainRunTimer ==
    ASSUME TypeOK, StatusInv, WaitInv, PhaseInv, PlainInv, NEW t \in due, RunTimer(t)
    PROVE  PlainInv'
<1>0. /\ waits \in [Coroutines -> {"no", "fd", "timed", "sleep"}]
      /\ m_coroutine \in [Fds -> Coroutines \cup {None}]
      /\ \A c \in Coroutines : c \notin tainted => PlainCo(c)
      /\ \A f \in Fds : PlainFd(f)
  BY PlainIs DEF TypeOK
<1>1. PICK c \in Coroutines, what \in {"timed", "sleep"} :
         /\ t = <<c, what>>
         /\ Entered(c) \/ NotEntered
         /\ loop_pc = "timers" /\ loop_pc' = "timers"
         /\ due' = due \ {t} /\ cut' = cut \cup (m_fds \ m_fds')
         /\ UNCHANGED <<wait_fd, io, events, m_active_tasks, tainted>>
  BY RunTimerIs
<1>2. c \notin tainted => what = "sleep" /\ waits[c] = "sleep" /\ <<c, "sleep">> \notin timers
                    /\ <<c, "timed">> \notin timers \cup due
  BY <1>0, <1>1 DEF PlainCo
<1>3. /\ m_fds' = m_fds \ Leaves(c) \/ UNCHANGED m_fds
      /\ timers' \subseteq timers
      /\ \A d \in Coroutines : d # c => waits'[d] = waits[d]
  BY <1>0, <1>1 DEF Entered, NotEntered
<1>4. ASSUME NEW d \in Coroutines, d \notin tainted', d # c PROVE PlainCo(d)'
  <2>1. PlainCo(d)
    BY <1>0, <1>1, <1>4
  <2>2. d \in ElementsOf(m_active_tasks) => waits[d] = "fd"
    BY <2>1 DEF PlainCo
  <2>3. d \in ElementsOf(m_active_tasks) => wait_fd[d] \notin Leaves(c)
    BY <1>4, <2>1, <2>2, PlainWaits DEF Leaves
  <2>4. d \in ElementsOf(m_active_tasks) /\ wait_fd[d] \notin cut' =>
            wait_fd[d] \in m_fds' /\ io'[wait_fd[d]] # "quiet"
    BY <1>1, <1>3, <2>1, <2>3 DEF PlainCo
  <2>5. Single(m_active_tasks', d)
    BY <1>1, <2>1 DEF PlainCo
  <2>6. waits'[d] = waits[d] /\ wait_fd'[d] = wait_fd[d]
    BY <1>1, <1>3, <1>4
  <2>7. loop_pc' = "timers" => <<d, "sleep">> \notin timers' \cap due'
    BY <1>1, <1>3, <2>1 DEF PlainCo
  <2> QED BY <1>1, <1>3, <2>1, <2>4, <2>5, <2>6, <2>7, PlainStays
<1>5. ASSUME c \notin tainted' PROVE PlainCo(c)'
  <2>1. PlainCo(c) /\ c \notin ElementsOf(m_active_tasks')
    BY <1>0, <1>1, <1>2, <1>5 DEF PlainCo
  <2>2. <<c, "timed">> \notin timers' \cup due' /\ <<c, "sleep">> \notin timers' \cup due'
    BY <1>1, <1>2, <1>3, <1>5
  <2>3. Single(m_active_tasks', c)
    BY <1>1, <2>1 DEF PlainCo
  <2>4. waits'[c] # "timed"
    BY <1>0, <1>1, <1>2, <1>5 DEF Entered, NotEntered
  <2> QED BY <2>1, <2>2, <2>3, <2>4, PlainCoPrimed
<1>6. ASSUME NEW f \in Fds PROVE PlainFd(f)'
  <2>1. ASSUME f \notin cut', NEW w \in {"ready", "odd"}, <<f, w>> \in events'
        PROVE  f \in m_fds' /\ io'[f] # "quiet"
    BY <1>0, <1>1, <2>1 DEF PlainFd
  <2> QED BY <2>1, PlainFdPrimed
<1> QED BY <1>1, <1>4, <1>5, <1>6, PlainIs

LEMMA PlainRunActive ==
    ASSUME TypeOK, StatusInv, WaitInv, PhaseInv, PlainInv, RunActive
    PROVE  PlainInv'
<1>0. /\ waits \in [Coroutines -> {"no", "fd", "timed", "sleep"}]
      /\ \A c \in Coroutines : c \notin tainted => PlainCo(c)
      /\ m_active_tasks \in Seq(Tasks)
  BY PlainIs DEF TypeOK, Tasks
<1>1. PICK c \in Tasks :
         /\ c = Head(m_active_tasks) /\ m_active_tasks # << >>
         /\ m_active_tasks' = Tail(m_active_tasks)
         /\ Entered(c) \/ NotEntered
         /\ loop_pc = "active" /\ loop_pc' = "active"
         /\ UNCHANGED <<wait_fd, io, events, due, tainted, cut>>
  BY RunActiveIs
<1>2. due = {} /\ events = {}
  BY <1>1 DEF PhaseInv
<1>3. /\ c \in ElementsOf(m_active_tasks)
      /\ ElementsOf(m_active_tasks') \subseteq ElementsOf(m_active_tasks)
      /\ \A d : Single(m_active_tasks, d) =>
                    Single(m_active_tasks', d) /\ (c = d => d \notin ElementsOf(m_active_tasks'))
  BY <1>0, <1>1, TailIs, TailSingle
<1>4. /\ m_fds' = m_fds \ Leaves(c) \/ UNCHANGED m_fds
      /\ timers' \subseteq timers
      /\ \A d \in Coroutines : d # c => waits'[d] = waits[d]
  BY <1>0, <1>1 DEF Entered, NotEntered
<1>5. ASSUME NEW d \in Coroutines, d \notin tainted', d # c PROVE PlainCo(d)'
  <2>1. PlainCo(d)
    BY <1>0, <1>1, <1>5
  <2>2. d \in ElementsOf(m_active_tasks) => waits[d] = "fd"
    BY <2>1 DEF PlainCo
  <2>3. d \in ElementsOf(m_active_tasks) => wait_fd[d] \notin Leaves(c)
    BY <1>5, <2>1, <2>2, PlainWaits DEF Leaves
  <2>4. d \in ElementsOf(m_active_tasks) /\ wait_fd[d] \notin cut' =>
            wait_fd[d] \in m_fds' /\ io'[wait_fd[d]] # "quiet"
    BY <1>1, <1>4, <2>1, <2>3 DEF PlainCo
  <2>5. Single(m_active_tasks', d)
    BY <1>3, <2>1 DEF PlainCo
  <2>6. waits'[d] = waits[d] /\ wait_fd'[d] = wait_fd[d]
    BY <1>1, <1>4, <1>5
  <2> QED BY <1>1, <1>3, <1>4, <2>1, <2>4, <2>5, <2>6, PlainStays
<1>6. ASSUME c \in Coroutines, c \notin tainted' PROVE PlainCo(c)'
  <2>1. PlainCo(c) /\ waits[c] = "fd"
    BY <1>0, <1>1, <1>3, <1>6 DEF PlainCo
  <2>2. <<c, "timed">> \notin timers' \cup due' /\ <<c, "sleep">> \notin timers' \cup due'
    BY <1>1, <1>2, <1>4, <2>1 DEF PlainCo
  <2>3. Single(m_active_tasks', c) /\ c \notin ElementsOf(m_active_tasks')
    BY <1>3, <2>1 DEF PlainCo
  <2>4. waits'[c] # "timed"
    BY <1>0, <1>1, <2>1 DEF Entered, NotEntered
  <2> QED BY <1>6, <2>2, <2>3, <2>4, PlainCoPrimed
<1>7. \A f \in Fds : PlainFd(f)'
  BY <1>1, <1>2, PlainFdPrimed
<1> QED BY <1>1, <1>5, <1>6, <1>7, PlainIs

LEMMA PlainEvents ==
    ASSUME TypeOK, StatusInv, WaitInv, PhaseInv, PlainInv,
           Poll \/ TimerReady \/ \E f \in Fds : FdReady(f) \/ FdOdd(f)
    PROVE  PlainInv'
<1>0. /\ \A c \in Coroutines : c \notin tainted => PlainCo(c)
      /\ \A f \in Fds : PlainFd(f)
      /\ m_active_tasks \in Seq(Tasks)
      /\ m_coroutine \in [Fds -> Tasks]
  BY PlainIs DEF TypeOK, Tasks
<1>1. CASE Poll
  <2>1. /\ UNCHANGED <<waits, wait_fd, timers, m_fds, io, tainted>>
        /\ m_active_tasks' = << >> /\ loop_pc' = "events"
        /\ due' \in SUBSET timers
        /\ events' = {<<f, io[f]>> : f \in {g \in m_fds : io[g] # "quiet"}}
                         \cup IF due' # {} THEN {<<"timer", "ready">>} ELSE {}
    BY <1>1 DEF Poll, coVars, epollVars
  <2>2. ElementsOf(m_active_tasks') = {} /\ \A c : Single(m_active_tasks', c)
    BY <2>1 DEF ElementsOf, Single
  <2>3. \A c \in Coroutines : c \notin tainted' => PlainCo(c)'
    BY <1>0, <2>1, <2>2, PlainCoPrimed DEF PlainCo
  <2>4. ASSUME NEW f \in Fds PROVE PlainFd(f)'
    <3>1. f # "timer"
      BY TimerAssumption
    <3>2. \A what \in {"ready", "odd"} : <<f, what>> \in events' => f \in m_fds /\ io[f] # "quiet"
      BY <2>1, <3>1
    <3> QED BY <2>1, <3>2, PlainFdPrimed
  <2> QED BY <2>1, <2>3, <2>4, PlainIs
<1>2. CASE TimerReady
  <2>1. /\ UNCHANGED <<waits, wait_fd, due, m_active_tasks, m_fds, io>>
        /\ timers' = timers \ due /\ events' \subseteq events /\ UNCHANGED <<tainted, cut>>
    BY <1>2 DEF TimerReady, coVars, epollVars, taskVars, historyVars
  <2>2. \A c \in Coroutines : c \notin tainted' => PlainCo(c)'
    <3> SUFFICES ASSUME NEW c \in Coroutines, PlainCo(c) PROVE PlainCo(c)'
      BY <1>0, <2>1
    <3>1. c \in ElementsOf(m_active_tasks) /\ wait_fd[c] \notin cut' =>
              wait_fd[c] \in m_fds' /\ io'[wait_fd[c]] # "quiet"
      BY <2>1 DEF PlainCo
    <3>2. Single(m_active_tasks', c)
      BY <2>1 DEF PlainCo
    <3> QED BY <2>1, <3>1, <3>2, PlainStays
  <2>3. \A f \in Fds : PlainFd(f)'
    BY <1>0, <2>1, PlainFdPrimed DEF PlainFd
  <2> QED BY <2>2, <2>3, PlainIs
<1>3. ASSUME NEW f \in Fds, FdReady(f) PROVE PlainInv'
  <2>0. PICK c \in Tasks : c = m_coroutine[f]
    BY <1>0
  <2>1. /\ UNCHANGED <<waits, wait_fd, due, timers, m_fds, io>>
        /\ m_active_tasks' = Append(m_active_tasks, c)
        /\ <<f, "ready">> \in events /\ events' = events \ {<<f, "ready">>}
        /\ loop_pc' = "events" /\ UNCHANGED <<tainted, cut>>
    BY <1>3, <2>0 DEF FdReady, InLoop, coVars, epollVars, historyVars
  <2>2. c \in Coroutines => waits[c] \in {"fd", "timed"} /\ wait_fd[c] = f
    BY <2>0, NoneAssumption DEF WaitInv
  <2>3. ElementsOf(m_active_tasks') = ElementsOf(m_active_tasks) \cup {c}
    BY <1>0, <2>1, <2>2, AppendIs
  <2>4. ASSUME NEW d \in Coroutines, d \notin tainted', d # c PROVE PlainCo(d)'
    <3>1. PlainCo(d)
      BY <1>0, <2>1, <2>4
    <3>2. Single(m_active_tasks', d)
      BY <1>0, <2>1, <2>2, <2>4, <3>1, AppendSingle DEF PlainCo
    <3>3. d \in ElementsOf(m_active_tasks) /\ wait_fd[d] \notin cut' =>
              wait_fd[d] \in m_fds' /\ io'[wait_fd[d]] # "quiet"
      BY <2>1, <3>1 DEF PlainCo
    <3> QED BY <2>1, <2>3, <2>4, <3>1, <3>2, <3>3, PlainStays
  <2>5. ASSUME c \in Coroutines, c \notin tainted' PROVE PlainCo(c)'
    <3>1. PlainCo(c) /\ waits[c] = "fd" /\ wait_fd[c] = f
      BY <1>0, <2>1, <2>2, <2>5, PlainWaits
    <3>2. c \notin ElementsOf(m_active_tasks)
      BY <2>1, <3>1 DEF PlainCo
    <3>3. Single(m_active_tasks', c)
      BY <1>0, <2>1, <2>2, <3>1, <3>2, AppendSingle DEF PlainCo
    <3>4. \A what \in {"ready", "odd"} : <<f, what>> \notin events'
      BY <2>1 DEF PhaseInv
    <3>5. f \notin cut' => f \in m_fds /\ io[f] # "quiet"
      BY <1>0, <2>1 DEF PlainFd
    <3>6. <<c, "timed">> \notin timers' \cup due' /\ <<c, "sleep">> \notin timers' \cup due'
      BY <2>1, <3>1 DEF PlainCo
    <3>7. waits'[c] # "timed"
      BY <2>1, <3>1
    <3> QED BY <2>1, <2>5, <3>1, <3>3, <3>4, <3>5, <3>6, <3>7, PlainCoPrimed
  <2>6. \A g \in Fds : PlainFd(g)'
    BY <1>0, <2>1, PlainFdPrimed DEF PlainFd
  <2> QED BY <2>4, <2>5, <2>6, PlainIs
<1>4. ASSUME NEW f \in Fds, FdOdd(f) PROVE PlainInv'
  <2>1. /\ UNCHANGED <<waits, wait_fd, due, timers, io, m_active_tasks, loop_pc>>
        /\ <<f, "odd">> \in events /\ events' = events \ {<<f, "odd">>}
        /\ m_fds' = m_fds \ {f} /\ loop_pc = "events" /\ UNCHANGED <<tainted, cut>>
    BY <1>4 DEF FdOdd, InLoop, coVars, taskVars, historyVars
  <2>2. ASSUME NEW c \in Coroutines, c \notin tainted' PROVE PlainCo(c)'
    <3>1. PlainCo(c)
      BY <1>0, <2>1, <2>2
    <3>2. c \in ElementsOf(m_active_tasks) => wait_fd[c] # f
      BY <2>1, <3>1 DEF PlainCo
    <3>3. c \in ElementsOf(m_active_tasks) /\ wait_fd[c] \notin cut' =>
              wait_fd[c] \in m_fds' /\ io'[wait_fd[c]] # "quiet"
      BY <2>1, <3>1, <3>2 DEF PlainCo
    <3>4. Single(m_active_tasks', c)
      BY <2>1, <3>1 DEF PlainCo
    <3> QED BY <2>1, <3>1, <3>3, <3>4, PlainStays
  <2>3. ASSUME NEW g \in Fds PROVE PlainFd(g)'
    <3>1. CASE g = f
      <4>1. \A what \in {"ready", "odd"} : <<f, what>> \notin events'
        BY <2>1 DEF PhaseInv
      <4> QED BY <3>1, <4>1, PlainFdPrimed
    <3>2. CASE g # f
      BY <1>0, <2>1, <3>2, PlainFdPrimed DEF PlainFd
    <3> QED BY <3>1, <3>2
  <2> QED BY <2>2, <2>3, PlainIs
<1> QED BY <1>1, <1>2, <1>3, <1>4

LEMMA PlainOthers ==
    ASSUME TypeOK, StatusInv, WaitInv, PhaseInv, PlainInv,
           \/ TimersDone \/ EventsDone \/ PendingDone \/ RunPending \/ DeleteRemoved \/ Exit
           \/ \E f \in Fds : Kernel(f) \/ Consume(f)
           \/ \E c \in Coroutines : Go(c)
    PROVE  PlainInv'
<1>0. /\ \A c \in Coroutines : c \notin tainted => PlainCo(c)
      /\ \A f \in Fds : PlainFd(f)
      /\ status \in [Coroutines -> {"free", "READY", "RUNNING", "WAITING"}]
      /\ waits \in [Coroutines -> {"no", "fd", "timed", "sleep"}]
      /\ io \in [Fds -> {"quiet", "ready", "odd"}]
      /\ m_fds \subseteq Fds
      /\ m_coroutine \in [Fds -> Coroutines \cup {None}]
      /\ m_active_tasks \in Seq(Coroutines \cup {None})
  BY PlainIs DEF TypeOK
<1>1. /\ UNCHANGED <<wait_fd, due, timers, m_active_tasks, events, m_fds, cut>>
      /\ loop_pc' = "timers" => loop_pc = "timers"
  BY DEF TimersDone, EventsDone, PendingDone, RunPending, DeleteRemoved, Exit, Kernel, Consume,
         Go, coVars, epollVars, taskVars, historyVars
<1>2. \A c \in Coroutines : waits'[c] = waits[c]
  <2>1. \/ UNCHANGED waits
        \/ \E c \in Coroutines : status[c] = "free" /\ waits' = [waits EXCEPT ![c] = "no"]
    BY DEF TimersDone, EventsDone, PendingDone, RunPending, DeleteRemoved, Exit, Kernel, Consume,
           Go, coVars
  <2>2. \A c \in Coroutines : status[c] = "free" => waits[c] = "no"
    BY DEF WaitInv
  <2> QED BY <1>0, <2>1, <2>2
<1>3. \A f \in Fds : m_coroutine[f] # None /\ io[f] # "quiet" => io'[f] # "quiet"
  <2>1. \/ UNCHANGED io
        \/ \E f \in Fds : io[f] = "quiet" /\ \E what \in {"ready", "odd"} :
                                                  io' = [io EXCEPT ![f] = what]
        \/ \E f \in Fds : m_coroutine[f] = None /\ io' = [io EXCEPT ![f] = "quiet"]
    <3>1. ASSUME NEW f \in Fds, Consume(f)
          PROVE  m_coroutine[f] = None /\ io' = [io EXCEPT ![f] = "quiet"]
      BY <1>0, <3>1 DEF Consume
    <3>2. ASSUME NEW f \in Fds, Kernel(f)
          PROVE  io[f] = "quiet" /\ \E what \in {"ready", "odd"} : io' = [io EXCEPT ![f] = what]
      BY <3>2 DEF Kernel
    <3> QED
      BY <3>1, <3>2
         DEF TimersDone, EventsDone, PendingDone, RunPending, DeleteRemoved, Exit, Go, epollVars
  <2> QED BY <1>0, <2>1
<1>4. ASSUME NEW c \in Coroutines, c \notin tainted' PROVE PlainCo(c)'
  <2>1. PlainCo(c)
    <3>1. CASE c \notin tainted
      BY <1>0, <3>1
    <3>2. CASE c \in tainted
      <4>1. /\ status[c] = "free"
            /\ \A what \in {"timed", "sleep"} : <<c, what>> \notin timers \cup due
        <5>1. PICK d \in Coroutines : Go(d) /\ c = d
          BY <1>4, <3>2
             DEF TimersDone, EventsDone, PendingDone, RunPending, DeleteRemoved, Exit, Kernel,
                 Consume, Go, historyVars
        <5>2. \A t \in timers \cup due : t[1] # c
          BY <1>4, <5>1 DEF Go
        <5> QED BY <5>1, <5>2 DEF Go
      <4>2. c \notin ElementsOf(m_active_tasks) /\ waits[c] # "timed"
        BY <4>1 DEF StatusInv, WaitInv
      <4>3. Single(m_active_tasks, c)
        <5>1. \A i \in 1 .. Len(m_active_tasks) : m_active_tasks[i] # c
          BY <1>0, <4>2 DEF ElementsOf
        <5> QED BY <5>1 DEF Single
      <4> QED BY <4>1, <4>2, <4>3 DEF PlainCo
    <3> QED BY <3>1, <3>2
  <2>2. c \in ElementsOf(m_active_tasks) => wait_fd[c] \in Fds /\ m_coroutine[wait_fd[c]] # None
    BY <1>4, <2>1, PlainWaits, NoneAssumption DEF PlainCo
  <2>3. c \in ElementsOf(m_active_tasks) /\ wait_fd[c] \notin cut' =>
            wait_fd[c] \in m_fds' /\ io'[wait_fd[c]] # "quiet"
    BY <1>1, <1>3, <2>1, <2>2 DEF PlainCo
  <2>4. Single(m_active_tasks', c)
    BY <1>1, <2>1 DEF PlainCo
  <2>5. loop_pc' = "timers" => <<c, "sleep">> \notin timers' \cap due'
    BY <1>1, <2>1 DEF PlainCo
  <2> QED BY <1>1, <1>2, <2>1, <2>3, <2>4, <2>5, PlainStays
<1>5. ASSUME NEW f \in Fds PROVE PlainFd(f)'
  <2>1. f \in m_fds => m_coroutine[f] # None
    BY DEF WaitInv
  <2> QED BY <1>0, <1>1, <1>3, <2>1, PlainFdPrimed DEF PlainFd
<1> QED BY <1>4, <1>5, PlainIs

\* The running coroutine waits.
LEMMA PlainYields ==
    ASSUME TypeOK, StatusInv, WaitInv, PhaseInv, PlainInv,
           Sleep \/ \E f \in Fds : WaitEvent(f, "fd") \/ WaitEvent(f, "timed")
    PROVE  PlainInv'
<1>0. /\ \A d \in Coroutines : d \notin tainted => PlainCo(d)
      /\ \A f \in Fds : PlainFd(f)
      /\ waits \in [Coroutines -> {"no", "fd", "timed", "sleep"}]
      /\ wait_fd \in [Coroutines -> Fds \cup {None}]
  BY PlainIs DEF TypeOK
<1>1. PICK c \in Coroutines : c = m_cur_coroutine /\ waits[c] = "no"
  BY DEF Sleep, WaitEvent, Yields, StatusInv, WaitInv
<1>2. /\ UNCHANGED <<due, m_active_tasks, events, io, loop_pc>> /\ m_fds \subseteq m_fds'
      /\ \A d \in Coroutines : d # c => waits'[d] = waits[d] /\ wait_fd'[d] = wait_fd[d]
      /\ UNCHANGED cut /\ tainted \subseteq tainted' /\ (waits'[c] = "timed" => c \in tainted')
      /\ \E what \in {"timed", "sleep"} :
             /\ timers' = timers \/ timers' = timers \cup {<<c, what>>}
             /\ what = "sleep" => waits'[c] = "sleep"
             /\ timers' # timers /\ what = "timed" => c \in tainted'
  <2>1. CASE Sleep
    BY <1>0, <1>1, <2>1 DEF Sleep, epollVars, taskVars, historyVars
  <2>2. ASSUME NEW f \in Fds, NEW how \in {"fd", "timed"}, WaitEvent(f, how)
        PROVE  /\ UNCHANGED <<due, m_active_tasks, events, io, loop_pc>> /\ m_fds \subseteq m_fds'
               /\ \A d \in Coroutines : d # c =>
                      waits'[d] = waits[d] /\ wait_fd'[d] = wait_fd[d]
               /\ UNCHANGED cut /\ tainted \subseteq tainted'
               /\ waits'[c] = "timed" => c \in tainted'
               /\ timers' = timers \/ timers' = timers \cup {<<c, "timed">>}
               /\ timers' # timers => c \in tainted'
    BY <1>0, <1>1, <2>2 DEF WaitEvent, taskVars
  <2> QED BY <2>1, <2>2
<1>3. ASSUME NEW d \in Coroutines, d \notin tainted', d # c PROVE PlainCo(d)'
  <2>1. PlainCo(d)
    BY <1>0, <1>2, <1>3
  <2>2. d \in ElementsOf(m_active_tasks) /\ wait_fd[d] \notin cut' =>
            wait_fd[d] \in m_fds' /\ io'[wait_fd[d]] # "quiet"
    BY <1>2, <2>1 DEF PlainCo
  <2>3. Single(m_active_tasks', d)
    BY <1>2, <2>1 DEF PlainCo
  <2>4. \A what \in {"timed", "sleep"} : <<d, what>> \in timers' => <<d, what>> \in timers
    BY <1>2, <1>3
  <2>5. loop_pc' = "timers" => <<d, "sleep">> \notin timers' \cap due'
    BY <1>2, <2>1, <2>4 DEF PlainCo
  <2> QED BY <1>2, <1>3, <2>1, <2>2, <2>3, <2>4, <2>5, PlainStays
<1>4. ASSUME c \notin tainted' PROVE PlainCo(c)'
  <2>1. /\ PlainCo(c)
        /\ \A what \in {"timed", "sleep"} : <<c, what>> \notin timers \cup due
        /\ c \notin ElementsOf(m_active_tasks)
    BY <1>0, <1>1, <1>2, <1>4 DEF PlainCo
  <2>2. <<c, "timed">> \notin timers' /\ (<<c, "sleep">> \in timers' => waits'[c] = "sleep")
    BY <1>2, <1>4, <2>1
  <2>3. Single(m_active_tasks', c) /\ c \notin ElementsOf(m_active_tasks')
    BY <1>2, <2>1 DEF PlainCo
  <2>4. waits'[c] # "timed"
    BY <1>2, <1>4
  <2> QED BY <1>1, <1>2, <2>1, <2>2, <2>3, <2>4, PlainCoPrimed
<1>5. \A f \in Fds : PlainFd(f)'
  BY <1>0, <1>2, PlainFdPrimed DEF PlainFd
<1> QED BY <1>3, <1>4, <1>5, PlainIs

LEMMA ProcessorStep == ProcessorInv /\ [Next]_vars => ProcessorInv'
<1>1. ASSUME ProcessorInv, Next PROVE ProcessorInv'
  <2>1. TypeOK'
    BY <1>1, TypeStep DEF ProcessorInv
  <2>2. StatusInv' /\ WaitInv' /\ PhaseInv'
    BY <1>1, <2>1, StatusStep, WaitStep, PhaseStep DEF ProcessorInv
  <2>3. PlainInv'
    BY <1>1, PlainRunTimer, PlainRunActive, PlainEvents, PlainOthers, PlainYields
       DEF ProcessorInv, Next, LoopStep, CoroutineStep
  <2> QED BY <2>1, <2>2, <2>3 DEF ProcessorInv
<1>2. ASSUME ProcessorInv, UNCHANGED vars PROVE ProcessorInv'
  <2>1. TypeOK'
    BY <1>2
       DEF ProcessorInv, TypeOK, vars, coVars, epollVars, taskVars, curVars, historyVars
  <2>2. StatusInv'
    BY <1>2 DEF ProcessorInv, StatusInv, ElementsOf, vars, coVars, epollVars, taskVars, curVars
  <2>3. WaitInv' /\ PhaseInv'
    BY <1>2 DEF ProcessorInv, WaitInv, PhaseInv, vars, coVars, epollVars, taskVars, curVars
  <2>4. PlainInv'
    BY <1>2
       DEF ProcessorInv, PlainInv, ElementsOf, vars, coVars, epollVars, taskVars, curVars,
           historyVars
  <2> QED BY <2>1, <2>2, <2>3, <2>4 DEF ProcessorInv
<1> QED BY <1>1, <1>2

LEMMA ProcessorInit == Init => ProcessorInv
<1> SUFFICES ASSUME Init PROVE ProcessorInv
  OBVIOUS
<1>1. ElementsOf(<< >>) = {}
  BY DEF ElementsOf
<1>2. TypeOK
  <2>1. << >> \in Seq(Coroutines) /\ << >> \in Seq(Coroutines \cup {None})
    OBVIOUS
  <2>2. /\ status \in [Coroutines -> {"free", "READY", "RUNNING", "WAITING"}]
        /\ waits \in [Coroutines -> {"no", "fd", "timed", "sleep"}]
        /\ wait_fd \in [Coroutines -> Fds \cup {None}]
        /\ m_coroutine \in [Fds -> Coroutines \cup {None}]
        /\ io \in [Fds -> {"quiet", "ready", "odd"}]
    BY DEF Init
  <2>3. /\ m_cur_coroutine \in Coroutines \cup {None}
        /\ in_coroutine \in BOOLEAN /\ aborted \in BOOLEAN
        /\ loop_pc \in {"poll", "events", "timers", "pending", "active"}
    BY DEF Init
  <2>4. /\ timers \subseteq Coroutines \X {"timed", "sleep"} /\ m_fds \subseteq Fds
        /\ events \subseteq (Fds \cup {"timer"}) \X {"ready", "odd"}
        /\ due \subseteq Coroutines \X {"timed", "sleep"}
        /\ m_cors_set \subseteq Coroutines /\ m_removed_cors \subseteq m_cors_set
        /\ tainted \subseteq Coroutines /\ cut \subseteq Fds
    BY DEF Init
  <2>5. m_pending_tasks = << >> /\ m_active_tasks = << >>
    BY DEF Init
  <2> QED BY <2>1, <2>2, <2>3, <2>4, <2>5 DEF TypeOK
<1>3. StatusInv
  BY <1>1 DEF Init, StatusInv
<1>4. WaitInv /\ PhaseInv
  BY DEF Init, WaitInv, PhaseInv
<1>5. PlainInv
  BY <1>1 DEF Init, PlainInv
<1> QED BY <1>2, <1>3, <1>4, <1>5 DEF ProcessorInv

(* What a coroutine's status, its queues, its timers and its descriptor have *)
(* to do with each other in every phase of the loop.                         *)
THEOREM ProcessorInvariant == Safety => []ProcessorInv
BY ProcessorInit, ProcessorStep, PTL DEF Safety

(* Types.                                                                    *)
THEOREM ProcessorTypes == Safety => []TypeOK
<1>1. ProcessorInv => TypeOK
  BY DEF ProcessorInv
<1> QED BY <1>1, ProcessorInvariant, PTL

(* The thread never runs a coroutine that has ended, whatever still points   *)
(* to it.                                                                    *)
THEOREM NoEndedRuns == Safety => []RunsOnlyLiving
<1>1. ProcessorInv => RunsOnlyLiving
  BY DEF ProcessorInv, StatusInv, RunsOnlyLiving
<1> QED BY <1>1, ProcessorInvariant, PTL

(* No task and no descriptor's event refers to a coroutine object that has   *)
(* gone back to the pool.                                                    *)
THEOREM NoTaskRecycled == Safety => []TasksAlive
<1>1. ProcessorInv => TasksAlive
  <2> SUFFICES ASSUME ProcessorInv, NEW c \in Coroutines, status[c] = "free",
                      \/ c \in ElementsOf(m_pending_tasks)
                      \/ c \in ElementsOf(m_active_tasks) /\ loop_pc # "poll"
                      \/ \E f \in Fds : m_coroutine[f] = c
               PROVE  FALSE
    BY DEF TasksAlive
  <2>1. c \notin ElementsOf(m_pending_tasks) /\ c \notin ElementsOf(m_active_tasks)
    BY DEF ProcessorInv, StatusInv
  <2>2. \A f \in Fds : m_coroutine[f] # c
    BY NoneAssumption DEF ProcessorInv, WaitInv
  <2> QED BY <2>1, <2>2
<1> QED BY <1>1, ProcessorInvariant, PTL

(***************************************************************************)
(* Objects that are never a caller's, and descriptors that only those wait *)
(* for: timers never disturb them.                                         *)
(***************************************************************************)
Plain(c) == \A f \in Fds : c \notin Callers[f]
Uncalled(f) == \A c \in Coroutines : c \in Users[f] \cup Callers[f] => Plain(c)

NeverTainted ==
    /\ \A c \in Coroutines : Plain(c) => c \notin tainted
    /\ \A f \in Fds : Uncalled(f) => f \notin cut

LEMMA NeverTaintedStep == ProcessorInv /\ NeverTainted /\ [Next]_vars => NeverTainted'
<1> SUFFICES ASSUME ProcessorInv, NeverTainted, [Next]_vars PROVE NeverTainted'
  OBVIOUS
<1> USE DEF ProcessorInv
<1>1. ASSUME NEW t \in due, RunTimer(t) PROVE NeverTainted'
  <2>1. PICK c \in Coroutines, what \in {"timed", "sleep"} :
           /\ t = <<c, what>> /\ (Entered(c) \/ NotEntered)
           /\ cut' = cut \cup (m_fds \ m_fds') /\ UNCHANGED tainted
    BY <1>1, RunTimerIs
  <2>2. ASSUME NEW f \in Fds, Uncalled(f), f \in m_fds \ m_fds' PROVE FALSE
    <3>1. m_coroutine[f] = c
      BY <2>1, <2>2 DEF Entered, NotEntered, Leaves
    <3>2. waits[c] \in {"fd", "timed"} /\ c \in Users[f] \cup Callers[f]
      BY <3>1, NoneAssumption DEF WaitInv
    <3>3. c \notin tainted
      BY <2>2, <3>2 DEF Uncalled, NeverTainted
    <3>4. PlainCo(c)
      BY <3>3, PlainIs
    <3>5. <<c, "timed">> \notin due /\ (<<c, "sleep">> \in due => waits[c] = "sleep")
      BY <3>4 DEF PlainCo
    <3> QED BY <1>1, <2>1, <3>2, <3>5
  <2> QED BY <2>1, <2>2 DEF NeverTainted, Plain, Uncalled
<1>2. ASSUME NEW f \in Fds, NEW how \in {"fd", "timed"}, WaitEvent(f, how) PROVE NeverTainted'
  <2>1. /\ UNCHANGED cut
        /\ \/ UNCHANGED tainted
           \/ /\ tainted' = tainted \cup {m_cur_coroutine}
              /\ m_cur_coroutine \in Callers[f]
    BY <1>2 DEF WaitEvent
  <2> QED BY <1>2, <2>1 DEF NeverTainted, Plain, Uncalled
<1>3. ASSUME NEW c \in Coroutines, Go(c) PROVE NeverTainted'
  <2>1. status[c] = "free" /\ UNCHANGED cut
        /\ tainted' = IF \E t \in timers \cup due : t[1] = c THEN tainted \cup {c}
                                                             ELSE tainted \ {c}
    BY <1>3 DEF Go
  <2>2. waits[c] = "no"
    BY <2>1 DEF WaitInv
  <2>3. Plain(c) => \A t \in timers \cup due : t[1] # c
    <3> SUFFICES ASSUME Plain(c), NEW t \in timers \cup due, t[1] = c PROVE FALSE
      OBVIOUS
    <3>1. PICK what \in {"timed", "sleep"} : t = <<c, what>>
      BY DEF TypeOK
    <3>2. PlainCo(c)
      BY PlainIs DEF NeverTainted
    <3> QED BY <2>2, <3>1, <3>2 DEF PlainCo
  <2> QED BY <2>1, <2>3 DEF NeverTainted, Plain, Uncalled
<1>4. CASE Poll
  BY <1>4 DEF Poll, NeverTainted, Plain, Uncalled
<1>5. CASE \/ Sleep \/ Exit \/ TimerReady \/ TimersDone \/ EventsDone \/ RunPending
           \/ PendingDone \/ RunActive \/ DeleteRemoved
           \/ \E f \in Fds : FdReady(f) \/ FdOdd(f) \/ Kernel(f) \/ Consume(f)
           \/ UNCHANGED vars
  <2>1. UNCHANGED historyVars
    BY <1>5
       DEF Sleep, Exit, TimerReady, TimersDone, EventsDone, RunPending, PendingDone, RunActive,
           DeleteRemoved, FdReady, FdOdd, Kernel, Consume, vars
  <2> QED BY <2>1 DEF historyVars, NeverTainted, Plain, Uncalled
<1> QED BY <1>1, <1>2, <1>3, <1>4, <1>5 DEF Next, LoopStep, CoroutineStep

(* No assertion of the epoller fails, if those who wait for a descriptor     *)
(* that may report an odd event never wait with a timer beside.              *)
THEOREM EpollerAssertions ==
    ASSUME \A f \in OddFds : Uncalled(f)
    PROVE  Safety => []AssertionsHold
<1>1. Init => AssertionsHold /\ NeverTainted
  BY DEF Init, AssertionsHold, NeverTainted
<1>2. ASSUME ProcessorInv, NeverTainted, AssertionsHold, Next PROVE AssertionsHold'
  <2> USE DEF ProcessorInv, AssertionsHold
  <2>1. ASSUME NEW t \in due, RunTimer(t) PROVE ~aborted'
    <3>1. PICK c \in Coroutines, what \in {"timed", "sleep"} :
             t = <<c, what>> /\ (aborted' => Entered(c) /\ \E f \in Leaves(c) : f \notin m_fds)
      BY <1>2, <2>1, RunTimerIs
    <3> SUFFICES ASSUME NEW f \in Leaves(c), f \notin m_fds PROVE FALSE
      BY <3>1
    <3>2. f \in Fds /\ m_coroutine[f] = c /\ c # None
      BY NoneAssumption DEF Leaves
    <3>3. f \in OddFds /\ c \in Users[f] \cup Callers[f] /\ waits[c] \in {"fd", "timed"}
      BY <1>2, <3>2 DEF WaitInv
    <3>4. c \notin tainted
      BY <1>2, <3>3 DEF Uncalled, NeverTainted
    <3>5. PlainCo(c)
      BY <1>2, <3>4, PlainIs
    <3> QED BY <3>1, <3>3, <3>5 DEF PlainCo
  <2>2. CASE RunActive
    <3>1. PICK c \in Tasks :
             /\ c = Head(m_active_tasks) /\ m_active_tasks # << >>
             /\ aborted' => Entered(c) /\ \E f \in Leaves(c) : f \notin m_fds
      BY <1>2, <2>2, RunActiveIs
    <3> SUFFICES ASSUME Entered(c), NEW f \in Leaves(c), f \notin m_fds PROVE FALSE
      BY <3>1
    <3>2. f \in Fds /\ m_coroutine[f] = c /\ c # None /\ c \in Coroutines
      BY NoneAssumption DEF Leaves, Entered
    <3>3. f \in OddFds /\ c \in Users[f] \cup Callers[f] /\ wait_fd[c] = f
      BY <1>2, <3>2 DEF WaitInv
    <3>4. f \notin cut /\ c \notin tainted
      BY <1>2, <3>2, <3>3 DEF Uncalled, NeverTainted
    <3>5. PlainCo(c)
      BY <1>2, <3>2, <3>4, PlainIs
    <3>6. c \in ElementsOf(m_active_tasks)
      <4>1. m_active_tasks \in Seq(Tasks)
        BY <1>2 DEF TypeOK, Tasks
      <4> QED BY <3>1, <4>1, TailIs
    <3> QED BY <3>3, <3>4, <3>5, <3>6 DEF PlainCo
  <2>3. ASSUME NEW f \in Fds, FdOdd(f) PROVE ~aborted'
    <3>1. <<f, "odd">> \in events /\ aborted' = (f \notin m_fds)
      BY <2>3 DEF FdOdd
    <3>2. f \in OddFds
      BY <1>2, <3>1 DEF PhaseInv
    <3>3. PlainFd(f) /\ f \notin cut
      BY <1>2, <3>2, PlainIs DEF NeverTainted
    <3> QED BY <3>1, <3>3 DEF PlainFd
  <2>4. ASSUME NEW f \in Fds, NEW how \in {"fd", "timed"}, WaitEvent(f, how) PROVE ~aborted'
    BY <1>2, <2>4 DEF WaitEvent, WaitInv
  <2>5. CASE \/ Sleep \/ Exit \/ Poll \/ TimerReady \/ TimersDone \/ EventsDone \/ RunPending
             \/ PendingDone \/ DeleteRemoved
             \/ \E f \in Fds : FdReady(f) \/ Kernel(f) \/ Consume(f)
             \/ \E c \in Coroutines : Go(c)
    <3>1. UNCHANGED aborted
      BY <2>5
         DEF Sleep, Exit, Poll, TimerReady, TimersDone, EventsDone, RunPending, PendingDone,
             DeleteRemoved, FdReady, Kernel, Consume, Go
    <3> QED BY <1>2, <3>1
  <2> QED BY <1>2, <2>1, <2>2, <2>3, <2>4, <2>5 DEF Next, LoopStep, CoroutineStep
<1>3. AssertionsHold /\ UNCHANGED vars => AssertionsHold'
  BY DEF AssertionsHold, vars
<1>4. ProcessorInv /\ NeverTainted /\ AssertionsHold /\ [Next]_vars
          => (AssertionsHold /\ NeverTainted)'
  BY <1>2, <1>3, NeverTaintedStep
<1> QED BY <1>1, <1>4, ProcessorInvariant, PTL DEF Safety

\* Only a timer's callback and an active task end a wait.
LEMMA WaitEnds ==
    ASSUME ProcessorInv, Next, NEW c \in Coroutines, waits[c] # "no", waits'[c] # waits[c]
    PROVE  \/ \E what \in {"timed", "sleep"} : <<c, what>> \in due \ due'
           \/ c \in ElementsOf(m_active_tasks)
<1> USE DEF ProcessorInv
<1>0. waits \in [Coroutines -> {"no", "fd", "timed", "sleep"}]
  BY DEF TypeOK
<1>1. ASSUME NEW t \in due, RunTimer(t)
      PROVE  \E what \in {"timed", "sleep"} : <<c, what>> \in due \ due'
  <2>1. PICK d \in Coroutines, what \in {"timed", "sleep"} :
             t = <<d, what>> /\ due' = due \ {t} /\ (Entered(d) \/ NotEntered)
    BY <1>1, RunTimerIs
  <2>2. d = c
    BY <1>0, <2>1 DEF Entered, NotEntered
  <2> QED BY <1>1, <2>1, <2>2
<1>2. CASE RunActive
  <2>1. PICK d \in Tasks :
             d = Head(m_active_tasks) /\ m_active_tasks # << >> /\ (Entered(d) \/ NotEntered)
    BY <1>2, RunActiveIs
  <2>2. d = c
    BY <1>0, <2>1 DEF Entered, NotEntered
  <2>3. m_active_tasks \in Seq(Tasks)
    BY DEF TypeOK, Tasks
  <2> QED BY <2>1, <2>2, <2>3, TailIs
<1>3. CASE Sleep \/ \E f \in Fds : WaitEvent(f, "fd") \/ WaitEvent(f, "timed")
  <2>1. /\ in_coroutine
        /\ \E how : waits' = [waits EXCEPT ![m_cur_coroutine] = how]
    BY <1>3 DEF Sleep, WaitEvent, Yields
  <2>2. m_cur_coroutine \in Coroutines /\ waits[m_cur_coroutine] = "no"
    BY <2>1 DEF StatusInv, WaitInv
  <2> QED BY <1>0, <2>1, <2>2
<1>4. ASSUME NEW d \in Coroutines, Go(d) PROVE FALSE
  <2>1. waits' = [waits EXCEPT ![d] = "no"] /\ waits[d] = "no"
    BY <1>4 DEF Go, WaitInv
  <2> QED BY <1>0, <2>1
<1>5. CASE \/ Exit \/ Poll \/ TimerReady \/ TimersDone \/ EventsDone \/ RunPending \/ PendingDone
           \/ DeleteRemoved \/ \E f \in Fds : FdReady(f) \/ FdOdd(f) \/ Kernel(f) \/ Consume(f)
  <2>1. UNCHANGED waits
    BY <1>5
       DEF Exit, Poll, TimerReady, TimersDone, EventsDone, RunPending, PendingDone, DeleteRemoved,
           FdReady, FdOdd, Kernel, Consume, coVars
  <2> QED BY <2>1
<1> QED BY <1>1, <1>2, <1>3, <1>4, <1>5 DEF Next, LoopStep, CoroutineStep

(* A coroutine goes on for the reason it waited for and for no other, until  *)
(* it waits with a timer beside, whatever its object was before and whatever *)
(* the callers beside it are resumed for.                                    *)
THEOREM PlainWaitsAreFull == Safety => WaitFull
<1>1. ASSUME ProcessorInv, Next, NEW c \in Coroutines, c \notin tainted
      PROVE  SleepsOut(c) /\ WaitsOut(c)
  <2>1. PlainCo(c)
    BY <1>1, PlainIs DEF ProcessorInv
  <2>2. SleepsOut(c)
    <3> SUFFICES ASSUME waits[c] = "sleep", waits'[c] # "sleep"
                 PROVE  <<c, "sleep">> \in due \ due'
      BY DEF SleepsOut
    <3> QED BY <1>1, <2>1, WaitEnds DEF PlainCo
  <2>3. WaitsOut(c)
    <3> SUFFICES ASSUME waits[c] = "fd", waits'[c] # "fd", wait_fd[c] \notin cut
                 PROVE  io[wait_fd[c]] # "quiet"
      BY DEF WaitsOut
    <3> QED BY <1>1, <2>1, WaitEnds DEF PlainCo
  <2> QED BY <2>2, <2>3
<1>2. ProcessorInv /\ [Next]_vars =>
          [\A c \in Coroutines : c \notin tainted => SleepsOut(c) /\ WaitsOut(c)]_vars
  BY <1>1
<1> QED BY <1>2, ProcessorInvariant, PTL DEF Safety, WaitFull
=============================================================================
