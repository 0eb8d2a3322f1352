------------------------------- MODULE RWMutex -------------------------------
(***************************************************************************)
(* RWMutex, the coroutine read-write lock, with the processors whose       *)
(* coroutines contend for it.                                              *)
(*                                                                         *)
(* rlock() and wlock() take the lock or queue the running coroutine on     *)
(* m_waitingCo, under the spinlock m_lock; the spinlock is released before *)
(* the coroutine yields, and a coroutine that is resumed tries again from  *)
(* the start.  An unlock that frees the lock hands every waiter back to    *)
(* the pending tasks of its own processor.                                 *)
(*                                                                         *)
(* A processor runs one coroutine at a time; a coroutine never changes     *)
(* processor (Home).  pending is the processor's m_pending_tasks as the    *)
(* queue BoundedFIFO says it is, of a size never reached here.             *)
(***************************************************************************)
EXTENDS Naturals, Sequences, FiniteSets

CONSTANTS Processors, Coroutines,
          Home,      \* coroutine -> its processor
          Modes,     \* what coroutines lock for: "r", "w" or both
          Rounds,    \* bound: coroutine -> how often it takes the lock
          None

ASSUME HomeAssumption == Home \in [Coroutines -> Processors]
ASSUME FiniteAssumption == IsFiniteSet(Coroutines)
ASSUME ModesAssumption == Modes \subseteq {"r", "w"}
ASSUME RoundsAssumption == Rounds \in [Coroutines -> Nat]
ASSUME NoneAssumption == None \notin Coroutines

VARIABLES m_state, m_readingNum, m_waitingCo,
          m_lock,     \* the coroutine that holds the spinlock, or None
          pc,         \* coroutine -> where it is
          mode,       \* coroutine -> what it locks for
          left,       \* coroutine -> the rounds it has left
          cur,        \* processor -> the coroutine it runs, or None
          pending,    \* processor -> its pending tasks
          sleeping    \* the coroutines waiting for a timer or a descriptor

mutexVars == <<m_state, m_readingNum, m_waitingCo>>
coVars == <<mode, left>>
schedVars == <<cur, pending, sleeping>>
vars == <<mutexVars, m_lock, pc, coVars, schedVars>>

\* The lock is c's until the unlock that c calls has updated m_state.
HoldingPCs == {"holding", "kept", "unlock", "unlocking"}
Holds(c) == pc[c] \in HoldingPCs
ReadHolders == {c \in Coroutines : Holds(c) /\ mode[c] = "r"}
WriteHolders == {c \in Coroutines : Holds(c) /\ mode[c] = "w"}

Runs(c) == cur[Home[c]] = c

Init ==
    /\ m_state = "FREE"
    /\ m_readingNum = 0
    /\ m_waitingCo = <<>>
    /\ m_lock = None
    /\ pc = [c \in Coroutines |-> "unborn"]
    /\ mode \in [Coroutines -> Modes]
    /\ left = Rounds
    /\ cur = [p \in Processors |-> None]
    /\ pending = [p \in Processors |-> <<>>]
    /\ sleeping = {}

-----------------------------------------------------------------------------
(* The coroutine's own code *)

\* co_go() puts a new coroutine among its processor's pending tasks.
Go(c) ==
    /\ pc[c] = "unborn"
    /\ pc' = [pc EXCEPT ![c] = "new"]
    /\ pending' = [pending EXCEPT ![Home[c]] = Append(@, c)]
    /\ UNCHANGED <<mutexVars, m_lock, coVars, cur, sleeping>>

\* It calls rlock() or wlock(), in either mode each time.
Begin(c) ==
    /\ Runs(c)
    /\ pc[c] \in {"outside", "rested"}
    /\ left[c] > 0
    /\ left' = [left EXCEPT ![c] = @ - 1]
    /\ \E m \in Modes : mode' = [mode EXCEPT ![c] = m]
    /\ pc' = [pc EXCEPT ![c] = "lock"]
    /\ UNCHANGED <<mutexVars, m_lock, schedVars>>

\* It waits for a timer or a descriptor, once outside and once as a holder.
Sleep(c) ==
    /\ Runs(c)
    /\ pc[c] \in {"outside", "holding"}
    /\ pc' = [pc EXCEPT ![c] = IF @ = "outside" THEN "rested" ELSE "kept"]
    /\ sleeping' = sleeping \cup {c}
    /\ cur' = [cur EXCEPT ![Home[c]] = None]
    /\ UNCHANGED <<mutexVars, m_lock, coVars, pending>>

\* It calls runlock() or wunlock().
End(c) ==
    /\ Runs(c)
    /\ pc[c] \in {"holding", "kept"}
    /\ pc' = [pc EXCEPT ![c] = "unlock"]
    /\ UNCHANGED <<mutexVars, m_lock, coVars, schedVars>>

\* Its function returns.
Exit(c) ==
    /\ Runs(c)
    /\ pc[c] \in {"outside", "rested"}
    /\ left[c] = 0
    /\ pc' = [pc EXCEPT ![c] = "dead"]
    /\ cur' = [cur EXCEPT ![Home[c]] = None]
    /\ UNCHANGED <<mutexVars, m_lock, coVars, pending, sleeping>>

-----------------------------------------------------------------------------
(* The spinlock: the guard at the head of each operation *)

\* (The first is for a mutant.)
SpinLockUnguarded(c) ==
    /\ Runs(c)
    /\ pc[c] \in {"lock", "unlock"}
    /\ m_lock' = c
    /\ pc' = [pc EXCEPT ![c] = IF @ = "lock" THEN "locking" ELSE "unlocking"]
    /\ UNCHANGED <<mutexVars, coVars, schedVars>>

SpinLock(c) ==
    /\ Runs(c)
    /\ m_lock = None
    /\ pc[c] \in {"lock", "unlock"}
    /\ m_lock' = c
    /\ pc' = [pc EXCEPT ![c] = IF @ = "lock" THEN "locking" ELSE "unlocking"]
    /\ UNCHANGED <<mutexVars, coVars, schedVars>>

-----------------------------------------------------------------------------
(* rlock() and wlock(); the spinlock is released when their block ends *)

ReadableUnchecked == TRUE
Readable == m_state \in {"FREE", "READING"}

WritableWhenRead == m_state # "WRITING"
Writable == m_state = "FREE"

Available(c) == IF mode[c] = "r" THEN Readable ELSE Writable

TakeRead(c) ==
    /\ pc[c] = "locking"
    /\ mode[c] = "r"
    /\ Readable
    /\ m_readingNum' = m_readingNum + 1
    /\ m_state' = "READING"
    /\ m_lock' = None
    /\ pc' = [pc EXCEPT ![c] = "holding"]
    /\ UNCHANGED <<m_waitingCo, coVars, schedVars>>

TakeWrite(c) ==
    /\ pc[c] = "locking"
    /\ mode[c] = "w"
    /\ Writable
    /\ m_state' = "WRITING"
    /\ m_lock' = None
    /\ pc' = [pc EXCEPT ![c] = "holding"]
    /\ UNCHANGED <<m_readingNum, m_waitingCo, coVars, schedVars>>

\* The guard dropped before the coroutine is queued.
EnqueueLate(c) ==
    /\ \/ pc[c] = "locking" /\ ~Available(c) /\ m_lock' = None
          /\ pc' = [pc EXCEPT ![c] = "parking"] /\ UNCHANGED m_waitingCo
       \/ pc[c] = "parking" /\ \A i \in DOMAIN m_waitingCo : m_waitingCo[i] # c
          /\ m_waitingCo' = Append(m_waitingCo, c) /\ UNCHANGED <<m_lock, pc>>
    /\ UNCHANGED <<m_state, m_readingNum, coVars, schedVars>>

Enqueue(c) ==
    /\ pc[c] = "locking"
    /\ ~Available(c)
    /\ m_waitingCo' = Append(m_waitingCo, c)
    /\ m_lock' = None
    /\ pc' = [pc EXCEPT ![c] = "parking"]
    /\ UNCHANGED <<m_state, m_readingNum, coVars, schedVars>>

\* yield(): from here on the processor runs others.
Park(c) ==
    /\ Runs(c)
    /\ pc[c] = "parking"
    /\ pc' = [pc EXCEPT ![c] = "parked"]
    /\ cur' = [cur EXCEPT ![Home[c]] = None]
    /\ UNCHANGED <<mutexVars, m_lock, coVars, pending, sleeping>>

-----------------------------------------------------------------------------
(* runlock(), wunlock() and freeLock() *)

\* A reader that is not the last one leaves; the lock stays with the others.
LeaveRead(c) ==
    /\ pc[c] = "unlocking"
    /\ mode[c] = "r"
    /\ m_readingNum # 1
    /\ m_readingNum' = m_readingNum - 1
    /\ m_lock' = None
    /\ pc' = [pc EXCEPT ![c] = "outside"]
    /\ UNCHANGED <<m_state, m_waitingCo, coVars, schedVars>>

\* The last reader or the writer calls freeLock(): m_state first ...
Free(c) ==
    /\ pc[c] = "unlocking"
    /\ \/ mode[c] = "r" /\ m_readingNum = 1 /\ m_readingNum' = 0
       \/ mode[c] = "w" /\ UNCHANGED m_readingNum
    /\ m_state' = "FREE"
    /\ pc' = [pc EXCEPT ![c] = "freeing"]
    /\ UNCHANGED <<m_waitingCo, m_lock, coVars, schedVars>>

\* ... then every waiter in turn goes to its own processor's pending tasks ...
WakeFront(c) ==
    /\ pc[c] = "freeing"
    /\ m_waitingCo # <<>>
    /\ LET wakeCo == Head(m_waitingCo)
       IN  pending' = [pending EXCEPT ![Home[wakeCo]] = Append(@, wakeCo)]
    /\ m_waitingCo' = Tail(m_waitingCo)
    /\ UNCHANGED <<m_state, m_readingNum, m_lock, pc, coVars, cur, sleeping>>

StopWakingEarly == Len(m_waitingCo) <= 1
NoneWaits == m_waitingCo = <<>>

\* ... and the guard goes when nobody waits.
FreeDone(c) ==
    /\ pc[c] = "freeing"
    /\ NoneWaits
    /\ m_lock' = None
    /\ pc' = [pc EXCEPT ![c] = "outside"]
    /\ UNCHANGED <<mutexVars, coVars, schedVars>>

-----------------------------------------------------------------------------
(* The processor's loop *)

\* resume() of the next pending task: a new coroutine starts, one that waits
\* goes on from where it yielded, and any other is left alone.
ResumePending(p) ==
    /\ cur[p] = None
    /\ pending[p] # <<>>
    /\ LET c == Head(pending[p])
           waits == pc[c] \in {"new", "parked"} \/ c \in sleeping
       IN  /\ cur' = IF waits THEN [cur EXCEPT ![p] = c] ELSE cur
           /\ pc' = [pc EXCEPT ![c] = CASE @ = "new" -> "outside"
                                        [] @ = "parked" -> "lock"
                                        [] OTHER -> @]
           /\ sleeping' = sleeping \ {c}
    /\ pending' = [pending EXCEPT ![p] = Tail(@)]
    /\ UNCHANGED <<mutexVars, m_lock, coVars>>

\* A timer or a descriptor resumes a coroutine that waits for it.
ResumeSleeper(c) ==
    /\ c \in sleeping
    /\ cur[Home[c]] = None
    /\ cur' = [cur EXCEPT ![Home[c]] = c]
    /\ sleeping' = sleeping \ {c}
    /\ UNCHANGED <<mutexVars, m_lock, pc, coVars, pending>>

-----------------------------------------------------------------------------
CoStep(c) ==
    \/ Begin(c) \/ Sleep(c) \/ End(c) \/ Exit(c)
    \/ SpinLock(c)
    \/ TakeRead(c) \/ TakeWrite(c) \/ Enqueue(c) \/ Park(c)
    \/ LeaveRead(c) \/ Free(c) \/ WakeFront(c) \/ FreeDone(c)

\* Nothing to run and nobody to wake: the processors stay in epoll_wait.
Idling ==
    /\ \A p \in Processors : cur[p] = None /\ pending[p] = <<>>
    /\ sleeping = {}
    /\ UNCHANGED vars

Next ==
    \/ \E c \in Coroutines : Go(c) \/ CoStep(c) \/ ResumeSleeper(c)
    \/ \E p \in Processors : ResumePending(p)
    \/ Idling

\* The running coroutine and the loop of a processor go on; timers and
\* descriptors fire.
Fairness ==
    /\ \A c \in Coroutines : WF_vars(CoStep(c)) /\ SF_vars(ResumeSleeper(c))
    /\ \A p \in Processors : SF_vars(ResumePending(p))

Safety == Init /\ [][Next]_vars
Spec == Safety /\ Fairness

-----------------------------------------------------------------------------
(* Properties *)

PCs == {"unborn", "new", "outside", "rested", "lock", "locking", "parking", "parked",
        "freeing", "dead"} \cup HoldingPCs

\* Types, and who is where: the running coroutine of a processor is its own,
\* and the holder of the spinlock is between the guard's two ends.
TypeOK ==
    /\ m_state \in {"FREE", "READING", "WRITING"}
    /\ m_readingNum \in Nat
    /\ m_waitingCo \in Seq(Coroutines)
    /\ m_lock \in Coroutines \cup {None}
    /\ pc \in [Coroutines -> PCs]
    /\ mode \in [Coroutines -> {"r", "w"}]
    /\ left \in [Coroutines -> Nat]
    /\ cur \in [Processors -> Coroutines \cup {None}]
    /\ pending \in [Processors -> Seq(Coroutines)]
    /\ sleeping \subseteq Coroutines
    /\ \A c \in Coroutines :
           pc[c] \in {"locking", "unlocking", "freeing"} <=> m_lock = c

\* A writer is alone in the lock.
MutualExclusion ==
    \A c \in WriteHolders : WriteHolders \cup ReadHolders = {c}

\* m_state and m_readingNum say who holds the lock, also while it is freed.
StateCountsHolders ==
    /\ m_readingNum = Cardinality(ReadHolders)
    /\ m_state = "READING" <=> ReadHolders # {}
    /\ m_state = "WRITING" <=> WriteHolders # {}

\* How often c stands in a sequence of coroutines.
Times(c, s) == Cardinality({i \in DOMAIN s : s[i] = c})

\* A coroutine that gave up its turn to wait for the lock is in m_waitingCo or
\* among its processor's pending tasks, once; one that does not wait is in
\* neither, so that no wake-up resumes a coroutine that sleeps for another
\* reason.
WaitersKept ==
    \A c \in Coroutines :
        Times(c, m_waitingCo) + Times(c, pending[Home[c]]) =
            IF pc[c] \in {"new", "parking", "parked"} THEN 1 ELSE 0

\* Whoever waits in m_waitingCo waits for someone: the lock is held, or its
\* last holder is in freeLock() and will wake the queue.
WaitersHaveHolder ==
    m_waitingCo # <<>> =>
        \E c \in Coroutines : Holds(c) \/ pc[c] = "freeing"

\* What every step preserves and the two properties above follow from.
HolderInv == TypeOK /\ MutualExclusion /\ StateCountsHolders

\* What WaitersKept needs: a processor's tasks are its own, and a coroutine is
\* inside an operation of the mutex, or about to yield, only while it runs.
InOperation == {"lock", "locking", "parking", "unlock", "unlocking", "freeing"}

WaitInv ==
    /\ WaitersKept
    /\ \A p \in Processors : \A i \in DOMAIN pending[p] : Home[pending[p][i]] = p
    /\ \A c \in Coroutines : pc[c] \in InOperation => Runs(c)

\* Every call of rlock() and wlock() returns with the lock, when the holders
\* unlock and the coroutines lock a bounded number of times.
LockTaken == \A c \in Coroutines : pc[c] = "lock" ~> Holds(c)
=============================================================================
