------------------------------- MODULE Scheduler -------------------------------
(***************************************************************************)
(* Scheduler, the singleton that owns the processors, and the selector     *)
(* that picks one for a new coroutine, as co_go() calls them from any      *)
(* thread: getScheduler() with its double-checked creation, then           *)
(* getProcessor(tid), or getProcessor() and ProcessorSelector::next().     *)
(*                                                                         *)
(* m_scheduler, m_processors and m_curpro_id are plain variables: every    *)
(* access is a step of its own and threads interleave between them.  The   *)
(* strategy is ROUND_ROBIN, the default, which nothing in the program      *)
(* changes.  The scheduler is never destroyed.                             *)
(***************************************************************************)
EXTENDS Integers, Sequences

CONSTANTS Threads,
          ProCnt,      \* m_pro_cnt, the processors of the machine
          Calls,       \* bound: how often each thread calls co_go()
          NoThread

ASSUME ProCntAssumption == ProCnt \in Nat \ {0}
ASSUME CallsAssumption == Calls \in Nat
ASSUME NoThreadAssumption == NoThread \notin Threads

VARIABLES m_scheduler,     \* the pointer is set
          m_sche_mutex,    \* the thread that holds it, or NoThread
          m_processors,    \* index + 1 -> "made", then "looping" after loop()
          m_curpro_id,
          created,         \* how often new Scheduler() ran
          pc, left,        \* thread -> where it is, the calls it has left
          tid,             \* thread -> the argument of co_go(), -1 to choose
          n,               \* thread -> the local of next()
          loaded,          \* thread -> the m_curpro_id that ++ has loaded
          got              \* thread -> the index it took, -1 for a nullptr

schedVars == <<m_scheduler, m_sche_mutex, m_processors, created>>
localVars == <<left, tid, n, loaded, got>>
coGoVars == <<schedVars, m_curpro_id, pc, localVars>>

SchedInit ==
    /\ m_scheduler = FALSE
    /\ m_sche_mutex = NoThread
    /\ m_processors = <<>>
    /\ m_curpro_id = 0
    /\ created = 0
    /\ pc = [t \in Threads |-> "idle"]
    /\ left = [t \in Threads |-> Calls]
    /\ tid = [t \in Threads |-> -1]
    /\ n = [t \in Threads |-> 0]
    /\ loaded = [t \in Threads |-> 0]
    /\ got = [t \in Threads |-> -1]

\* Thread t goes from one place to another.
Goes(t, from, to) == pc[t] = from /\ pc' = [pc EXCEPT ![t] = to]

-----------------------------------------------------------------------------
(* getScheduler() *)

Call(t, id) ==
    /\ left[t] > 0
    /\ Goes(t, "idle", IF m_scheduler THEN "use" ELSE "lock")
    /\ left' = [left EXCEPT ![t] = @ - 1]
    /\ tid' = [tid EXCEPT ![t] = id]
    /\ UNCHANGED <<schedVars, m_curpro_id, n, loaded, got>>

\* (The first is for a mutant, here and below.)
LockAlways(t) ==
    /\ Goes(t, "lock", "locked")
    /\ m_sche_mutex' = t
    /\ UNCHANGED <<m_scheduler, m_processors, created, m_curpro_id, localVars>>

Lock(t) ==
    /\ Goes(t, "lock", "locked")
    /\ m_sche_mutex = NoThread
    /\ m_sche_mutex' = t
    /\ UNCHANGED <<m_scheduler, m_processors, created, m_curpro_id, localVars>>

Found(t) ==
    /\ Goes(t, "locked", "unlock")
    /\ m_scheduler
    /\ UNCHANGED <<schedVars, m_curpro_id, localVars>>

\* The pointer is set before startScheduler() runs.
CreateUnchecked(t) ==
    /\ Goes(t, "locked", "start")
    /\ m_scheduler' = TRUE
    /\ created' = created + 1
    /\ UNCHANGED <<m_sche_mutex, m_processors, m_curpro_id, localVars>>

Create(t) ==
    /\ Goes(t, "locked", "start")
    /\ ~m_scheduler
    /\ m_scheduler' = TRUE
    /\ created' = created + 1
    /\ UNCHANGED <<m_sche_mutex, m_processors, m_curpro_id, localVars>>

MakeProcessor(t) ==
    /\ Goes(t, "start", "loop")
    /\ Len(m_processors) < ProCnt
    /\ m_processors' = Append(m_processors, "made")
    /\ UNCHANGED <<m_scheduler, m_sche_mutex, created, m_curpro_id, localVars>>

\* loop() makes the epoller and the timer and starts the thread.
StartLoop(t) ==
    /\ Goes(t, "loop", "start")
    /\ m_processors' = [m_processors EXCEPT ![Len(m_processors)] = "looping"]
    /\ UNCHANGED <<m_scheduler, m_sche_mutex, created, m_curpro_id, localVars>>

StartedShort(t) ==
    /\ Goes(t, "start", "unlock")
    /\ Len(m_processors) >= ProCnt - 1
    /\ UNCHANGED <<schedVars, m_curpro_id, localVars>>

Started(t) ==
    /\ Goes(t, "start", "unlock")
    /\ Len(m_processors) >= ProCnt
    /\ UNCHANGED <<schedVars, m_curpro_id, localVars>>

Unlock(t) ==
    /\ Goes(t, "unlock", "use")
    /\ m_sche_mutex' = NoThread
    /\ UNCHANGED <<m_scheduler, m_processors, created, m_curpro_id, localVars>>

-----------------------------------------------------------------------------
(* getProcessor(tid), getProcessor() and next() *)

GetById(t) ==
    /\ Goes(t, "use", "got")
    /\ tid[t] >= 0
    /\ got' = [got EXCEPT ![t] = tid[t]]
    /\ UNCHANGED <<schedVars, m_curpro_id, left, tid, n, loaded>>

NoProcessors(t) ==
    /\ Goes(t, "use", "got")
    /\ tid[t] < 0
    /\ m_processors = <<>>
    /\ n' = [n EXCEPT ![t] = 0]
    /\ got' = [got EXCEPT ![t] = -1]
    /\ UNCHANGED <<schedVars, m_curpro_id, left, tid, loaded>>

Size(t) ==
    /\ Goes(t, "use", "load")
    /\ tid[t] < 0
    /\ m_processors # <<>>
    /\ n' = [n EXCEPT ![t] = Len(m_processors)]
    /\ UNCHANGED <<schedVars, m_curpro_id, left, tid, loaded, got>>

\* ++m_curpro_id is a load and a store.
Load(t) ==
    /\ Goes(t, "load", "store")
    /\ loaded' = [loaded EXCEPT ![t] = m_curpro_id]
    /\ UNCHANGED <<schedVars, m_curpro_id, left, tid, n, got>>

Store(t) ==
    /\ Goes(t, "store", "test")
    /\ m_curpro_id' = loaded[t] + 1
    /\ UNCHANGED <<schedVars, localVars>>

Beyond(t) == m_curpro_id >= n[t]

Test(t) ==
    /\ Goes(t, "test", IF Beyond(t) THEN "wrap" ELSE "index")
    /\ UNCHANGED <<schedVars, m_curpro_id, localVars>>

Wrap(t) ==
    /\ Goes(t, "wrap", "index")
    /\ m_curpro_id' = 1
    /\ UNCHANGED <<schedVars, localVars>>

Index(t) ==
    /\ Goes(t, "index", "got")
    /\ got' = [got EXCEPT ![t] = m_curpro_id]
    /\ UNCHANGED <<schedVars, m_curpro_id, left, tid, n, loaded>>

\* The caller makes its coroutine from the processor's pool and hands it over.
Use(t) ==
    /\ Goes(t, "got", "idle")
    /\ UNCHANGED <<schedVars, m_curpro_id, localVars>>

-----------------------------------------------------------------------------
ThreadStep(t) ==
    \/ \E id \in -1 .. ProCnt - 1 : Call(t, id)
    \/ Lock(t) \/ Found(t) \/ Create(t) \/ MakeProcessor(t) \/ StartLoop(t)
    \/ Started(t) \/ Unlock(t)
    \/ GetById(t) \/ NoProcessors(t) \/ Size(t)
    \/ Load(t) \/ Store(t) \/ Test(t) \/ Wrap(t) \/ Index(t) \/ Use(t)

\* The threads have made their calls.
Resting ==
    /\ \A t \in Threads : pc[t] = "idle" /\ left[t] = 0
    /\ UNCHANGED coGoVars

SchedNext == Resting \/ \E t \in Threads : ThreadStep(t)

SchedSpec == SchedInit /\ [][SchedNext]_coGoVars

-----------------------------------------------------------------------------
(* Properties *)

PCs == {"idle", "lock", "locked", "start", "loop", "unlock", "use", "load",
        "store", "test", "wrap", "index", "got"}

\* Types, and who holds the mutex.
SchedTypeOK ==
    /\ m_scheduler \in BOOLEAN
    /\ m_sche_mutex \in Threads \cup {NoThread}
    /\ m_processors \in Seq({"made", "looping"})
    /\ m_curpro_id \in Nat
    /\ created \in Nat
    /\ pc \in [Threads -> PCs]
    /\ left \in [Threads -> Nat]
    /\ tid \in [Threads -> -1 .. ProCnt - 1]
    /\ n \in [Threads -> Nat]
    /\ loaded \in [Threads -> Nat]
    /\ got \in [Threads -> Int]
    /\ \A t \in Threads :
           pc[t] \in {"locked", "start", "loop", "unlock"} <=> m_sche_mutex = t

\* Threads that meet in the first call of getScheduler() make one scheduler
\* between them, and start each processor of the machine once.
StartedOnce ==
    /\ created <= 1
    /\ Len(m_processors) <= ProCnt
    /\ \A i \in DOMAIN m_processors :
           m_processors[i] = "made" =>
               i = Len(m_processors) /\ \E t \in Threads : pc[t] = "loop"

\* A thread that took the mutex uses the scheduler only when all processors
\* loop; so does everyone once one such thread is through.
MutexMeansStarted ==
    \A t \in Threads :
        pc[t] = "unlock" =>
            /\ Len(m_processors) = ProCnt
            /\ \A i \in 1 .. ProCnt : m_processors[i] = "looping"

\* What every step preserves and the two properties above follow from: the
\* processors are in the hands of the thread that starts them, and complete
\* when there is none.
Starts(t) == pc[t] \in {"start", "loop"}
AllLooping == \A i \in DOMAIN m_processors : m_processors[i] = "looping"

StartInv ==
    /\ SchedTypeOK
    /\ created = IF m_scheduler THEN 1 ELSE 0
    /\ Len(m_processors) <= ProCnt
    /\ ~m_scheduler => m_processors = <<>> /\ \A t \in Threads : ~Starts(t)
    /\ \A t \in Threads : pc[t] = "unlock" => m_scheduler
    /\ \A t \in Threads : pc[t] = "start" => AllLooping
    /\ \A t \in Threads : pc[t] = "loop" =>
           /\ m_processors # <<>>
           /\ \A i \in DOMAIN m_processors :
                  m_processors[i] = "made" <=> i = Len(m_processors)
    /\ m_scheduler /\ (\A t \in Threads : ~Starts(t)) =>
           Len(m_processors) = ProCnt /\ AllLooping

\* co_api.h: with four processors tid is valid from 0 to 3, and -1 lets the
\* scheduler choose.  What a caller got is a processor whose loop was started.
\* (The code does not keep this; README.)
GotLooping ==
    \A t \in Threads :
        pc[t] = "got" => /\ got[t] + 1 \in DOMAIN m_processors
                         /\ m_processors[got[t] + 1] = "looping"
=============================================================================
