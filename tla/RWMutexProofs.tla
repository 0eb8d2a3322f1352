---------------------------- MODULE RWMutexProofs ----------------------------
(***************************************************************************)
(* RWMutex for every number of coroutines and processors: types, mutual    *)
(* exclusion, the meaning of m_state and m_readingNum, and that nobody is  *)
(* left in m_waitingCo without someone to wake the queue.                  *)
(***************************************************************************)
EXTENDS RWMutex, FiniteSetTheorems, SequenceTheorems, TLAPS

LEMMA HoldersFinite ==
    /\ IsFiniteSet(ReadHolders)
    /\ ReadHolders \subseteq Coroutines
    /\ WriteHolders \subseteq Coroutines
BY FiniteAssumption, FS_Subset DEF ReadHolders, WriteHolders

LEMMA HolderInit == Init => HolderInv
<1> SUFFICES ASSUME Init PROVE HolderInv
  OBVIOUS
<1>1. ReadHolders = {} /\ WriteHolders = {}
  BY DEF Init, ReadHolders, WriteHolders, Holds, HoldingPCs
<1>2. mode \in [Coroutines -> {"r", "w"}] /\ left \in [Coroutines -> Nat]
  BY ModesAssumption, RoundsAssumption DEF Init
<1>3. <<>> \in Seq(Coroutines)
  OBVIOUS
<1>4. TypeOK
  BY <1>2, <1>3, NoneAssumption DEF Init, TypeOK, PCs, HoldingPCs
<1> QED
  BY <1>1, <1>4, FS_EmptySet
     DEF Init, HolderInv, MutualExclusion, StateCountsHolders

(***************************************************************************)
(* A holder for reading counts.                                            *)
(***************************************************************************)
LEMMA ReaderCounts ==
    ASSUME HolderInv, NEW c \in Coroutines, pc[c] = "unlocking", mode[c] = "r"
    PROVE  /\ c \in ReadHolders
           /\ m_readingNum \in Nat \ {0}
           /\ m_readingNum = Cardinality(ReadHolders)
<1>1. c \in ReadHolders
  BY DEF ReadHolders, Holds, HoldingPCs
<1>2. Cardinality(ReadHolders) \in Nat /\ Cardinality(ReadHolders) # 0
  BY <1>1, HoldersFinite, FS_CardinalityType, FS_EmptySet
<1> QED BY <1>1, <1>2 DEF HolderInv, StateCountsHolders

LEMMA CoTypeOK ==
    ASSUME HolderInv, NEW c \in Coroutines, CoStep(c)
    PROVE  TypeOK'
<1> USE HomeAssumption, ModesAssumption, NoneAssumption
    DEF HolderInv, TypeOK, PCs, HoldingPCs, mutexVars, coVars, schedVars
<1>1. CASE Begin(c)
  BY <1>1 DEF Begin
<1>2. CASE Sleep(c)
  BY <1>2 DEF Sleep
<1>3. CASE End(c)
  BY <1>3 DEF End
<1>4. CASE Exit(c)
  BY <1>4 DEF Exit
<1>5. CASE SpinLock(c)
  BY <1>5 DEF SpinLock
<1>6. CASE TakeRead(c)
  BY <1>6 DEF TakeRead
<1>7. CASE TakeWrite(c)
  BY <1>7 DEF TakeWrite
<1>8. CASE Enqueue(c)
  BY <1>8 DEF Enqueue
<1>9. CASE Park(c)
  BY <1>9 DEF Park
<1>10. CASE LeaveRead(c)
  <2>1. m_readingNum - 1 \in Nat
    BY <1>10, ReaderCounts DEF LeaveRead
  <2> QED BY <1>10, <2>1 DEF LeaveRead
<1>11. CASE Free(c)
  BY <1>11 DEF Free
<1>12. CASE WakeFront(c)
  BY <1>12 DEF WakeFront
<1>13. CASE FreeDone(c)
  BY <1>13 DEF FreeDone
<1> QED
  BY <1>1, <1>2, <1>3, <1>4, <1>5, <1>6, <1>7, <1>8, <1>9, <1>10, <1>11,
     <1>12, <1>13 DEF CoStep

LEMMA OtherTypeOK ==
    ASSUME HolderInv,
           \/ \E c \in Coroutines : Go(c) \/ ResumeSleeper(c)
           \/ \E p \in Processors : ResumePending(p)
           \/ Idling
           \/ UNCHANGED vars
    PROVE  TypeOK'
<1> USE HomeAssumption, NoneAssumption
    DEF HolderInv, TypeOK, PCs, HoldingPCs, mutexVars, coVars, schedVars
<1>1. ASSUME NEW c \in Coroutines, Go(c) PROVE TypeOK'
  BY <1>1 DEF Go
<1>2. ASSUME NEW c \in Coroutines, ResumeSleeper(c) PROVE TypeOK'
  BY <1>2 DEF ResumeSleeper
<1>3. ASSUME NEW p \in Processors, ResumePending(p) PROVE TypeOK'
  <2> DEFINE c == Head(pending[p])
  <2>1. c \in Coroutines /\ Tail(pending[p]) \in Seq(Coroutines)
    BY <1>3 DEF ResumePending
  <2>2. /\ pc' \in [Coroutines -> PCs]
        /\ cur' \in [Processors -> Coroutines \cup {None}]
        /\ pending' \in [Processors -> Seq(Coroutines)]
        /\ sleeping' \subseteq Coroutines
    BY <1>3, <2>1 DEF ResumePending
  <2>3. \A d \in Coroutines :
          pc'[d] \in {"locking", "unlocking", "freeing"}
            <=> pc[d] \in {"locking", "unlocking", "freeing"}
    BY <1>3, <2>1 DEF ResumePending
  <2>4. UNCHANGED <<mutexVars, m_lock, coVars>>
    BY <1>3 DEF ResumePending
  <2> QED BY <2>2, <2>3, <2>4
<1>4. ASSUME Idling \/ UNCHANGED vars PROVE TypeOK'
  BY <1>4 DEF Idling, vars
<1> QED BY <1>1, <1>2, <1>3, <1>4

-----------------------------------------------------------------------------
(***************************************************************************)
(* A step that changes neither who holds the lock nor what it says of it.  *)
(***************************************************************************)
SameHolders ==
    /\ UNCHANGED <<m_state, m_readingNum>>
    /\ \A d \in Coroutines :
           /\ pc'[d] \in HoldingPCs <=> pc[d] \in HoldingPCs
           /\ pc[d] \in HoldingPCs => mode'[d] = mode[d]

LEMMA SameHoldersInv ==
    ASSUME HolderInv, SameHolders
    PROVE  MutualExclusion' /\ StateCountsHolders'
<1>1. ReadHolders' = ReadHolders /\ WriteHolders' = WriteHolders
  BY DEF SameHolders, ReadHolders, WriteHolders, Holds
<1> QED
  BY <1>1 DEF SameHolders, HolderInv, MutualExclusion, StateCountsHolders

LEMMA QuietSteps ==
    ASSUME HolderInv, [Next]_vars,
           ~ \E c \in Coroutines :
               TakeRead(c) \/ TakeWrite(c) \/ LeaveRead(c) \/ Free(c)
    PROVE  SameHolders
<1> USE DEF HolderInv, TypeOK, SameHolders, HoldingPCs, mutexVars, coVars
<1>1. ASSUME NEW c \in Coroutines,
             Begin(c) \/ Sleep(c) \/ End(c) \/ Exit(c) \/ SpinLock(c)
      PROVE  SameHolders
  BY <1>1 DEF Begin, Sleep, End, Exit, SpinLock
<1>2. ASSUME NEW c \in Coroutines,
             Enqueue(c) \/ Park(c) \/ WakeFront(c) \/ FreeDone(c)
      PROVE  SameHolders
  BY <1>2 DEF Enqueue, Park, WakeFront, FreeDone
<1>3. ASSUME NEW c \in Coroutines, Go(c) \/ ResumeSleeper(c)
      PROVE  SameHolders
  BY <1>3 DEF Go, ResumeSleeper
<1>4. ASSUME NEW p \in Processors, ResumePending(p) PROVE SameHolders
  <2>1. Head(pending[p]) \in Coroutines
    BY <1>4 DEF ResumePending
  <2> QED BY <1>4, <2>1 DEF ResumePending
<1>5. ASSUME Idling \/ UNCHANGED vars PROVE SameHolders
  BY <1>5 DEF Idling, vars
<1> HIDE DEF SameHolders
<1> QED BY <1>1, <1>2, <1>3, <1>4, <1>5 DEF Next, CoStep

(***************************************************************************)
(* The four steps that do.                                                 *)
(***************************************************************************)
LEMMA TakeReadInv ==
    ASSUME HolderInv, NEW c \in Coroutines, TakeRead(c)
    PROVE  MutualExclusion' /\ StateCountsHolders'
<1> USE DEF HolderInv
<1>1. c \notin ReadHolders /\ WriteHolders = {}
  BY DEF TakeRead, Readable, ReadHolders, Holds, HoldingPCs, StateCountsHolders
<1>2. ReadHolders' = ReadHolders \cup {c} /\ WriteHolders' = WriteHolders
  BY DEF TakeRead, coVars, ReadHolders, WriteHolders, Holds, HoldingPCs, TypeOK
<1>3. Cardinality(ReadHolders \cup {c}) = Cardinality(ReadHolders) + 1
  BY <1>1, HoldersFinite, FS_AddElement
<1> QED BY <1>1, <1>2, <1>3 DEF TakeRead, MutualExclusion, StateCountsHolders

LEMMA TakeWriteInv ==
    ASSUME HolderInv, NEW c \in Coroutines, TakeWrite(c)
    PROVE  MutualExclusion' /\ StateCountsHolders'
<1> USE DEF HolderInv
<1>1. WriteHolders = {} /\ ReadHolders = {}
  BY DEF TakeWrite, Writable, StateCountsHolders
<1>2. ReadHolders' = ReadHolders /\ WriteHolders' = {c}
  BY <1>1
     DEF TakeWrite, coVars, ReadHolders, WriteHolders, Holds, HoldingPCs, TypeOK
<1> QED BY <1>1, <1>2 DEF TakeWrite, MutualExclusion, StateCountsHolders

LEMMA LeaveReadInv ==
    ASSUME HolderInv, NEW c \in Coroutines, LeaveRead(c)
    PROVE  MutualExclusion' /\ StateCountsHolders'
<1> USE DEF HolderInv
<1>1. /\ c \in ReadHolders
      /\ m_readingNum \in Nat \ {0, 1}
      /\ m_readingNum = Cardinality(ReadHolders)
  BY ReaderCounts DEF LeaveRead
<1>2. ReadHolders' = ReadHolders \ {c} /\ WriteHolders' = WriteHolders
  BY DEF LeaveRead, coVars, ReadHolders, WriteHolders, Holds, HoldingPCs, TypeOK
<1>3. Cardinality(ReadHolders \ {c}) = m_readingNum - 1
  BY <1>1, HoldersFinite, FS_RemoveElement
<1>4. ReadHolders \ {c} # {}
  <2>1. Cardinality(ReadHolders \ {c}) # 0
    BY <1>1, <1>3
  <2> QED BY <2>1, FS_EmptySet
<1>5. WriteHolders = {} /\ m_state = "READING"
  BY <1>1 DEF MutualExclusion, StateCountsHolders, ReadHolders, WriteHolders
<1>6. m_state' = "READING" /\ m_readingNum' = m_readingNum - 1
  BY <1>5 DEF LeaveRead
<1> QED
  BY <1>2, <1>3, <1>4, <1>5, <1>6 DEF MutualExclusion, StateCountsHolders

LEMMA FreeInv ==
    ASSUME HolderInv, NEW c \in Coroutines, Free(c)
    PROVE  MutualExclusion' /\ StateCountsHolders'
<1> USE DEF HolderInv
<1>1. /\ ReadHolders' = ReadHolders \ {c}
      /\ WriteHolders' = WriteHolders \ {c}
  BY DEF Free, coVars, ReadHolders, WriteHolders, Holds, HoldingPCs, TypeOK
<1>2. CASE mode[c] = "r"
  <2>1. c \in ReadHolders /\ Cardinality(ReadHolders) = 1
    BY <1>2, ReaderCounts DEF Free
  <2>2. ReadHolders = {c}
    BY <2>1, HoldersFinite, FS_Singleton
  <2>3. WriteHolders = {}
    BY <2>1 DEF MutualExclusion, StateCountsHolders, ReadHolders, WriteHolders
  <2> QED
    BY <1>1, <1>2, <2>2, <2>3, FS_EmptySet
       DEF Free, MutualExclusion, StateCountsHolders
<1>3. CASE mode[c] = "w"
  <2>1. c \in WriteHolders
    BY <1>3 DEF Free, WriteHolders, Holds, HoldingPCs
  <2>2. WriteHolders = {c} /\ ReadHolders = {}
    BY <2>1 DEF MutualExclusion, ReadHolders, WriteHolders
  <2> QED
    BY <1>1, <1>3, <2>2 DEF Free, MutualExclusion, StateCountsHolders
<1> QED BY <1>2, <1>3 DEF TypeOK

LEMMA HolderStep == HolderInv /\ [Next]_vars => HolderInv'
<1> SUFFICES ASSUME HolderInv, [Next]_vars PROVE HolderInv'
  OBVIOUS
<1>1. TypeOK'
  BY CoTypeOK, OtherTypeOK DEF Next
<1>2. MutualExclusion' /\ StateCountsHolders'
  BY QuietSteps, SameHoldersInv, TakeReadInv, TakeWriteInv, LeaveReadInv,
     FreeInv
<1> QED BY <1>1, <1>2 DEF HolderInv

(***************************************************************************)
(* Types, mutual exclusion and the meaning of m_state and m_readingNum.    *)
(***************************************************************************)
THEOREM HolderInvariant == Safety => []HolderInv
BY HolderInit, HolderStep, PTL DEF Safety

(***************************************************************************)
(* A writer is alone in the lock, for any coroutines and processors.       *)
(***************************************************************************)
THEOREM WriterIsAlone == Safety => []MutualExclusion
<1>1. HolderInv => MutualExclusion
  BY DEF HolderInv
<1> QED BY <1>1, HolderInvariant, PTL

(***************************************************************************)
(* Types, and that the spinlock's holder is between the guard's two ends.  *)
(***************************************************************************)
THEOREM MutexTypes == Safety => []TypeOK
<1>1. HolderInv => TypeOK
  BY DEF HolderInv
<1> QED BY <1>1, HolderInvariant, PTL

(***************************************************************************)
(* m_state and m_readingNum say who holds the lock, however the blocks of  *)
(* rlock(), wlock(), runlock() and wunlock() interleave.                   *)
(***************************************************************************)
THEOREM StateCounts == Safety => []StateCountsHolders
<1>1. HolderInv => StateCountsHolders
  BY DEF HolderInv
<1> QED BY <1>1, HolderInvariant, PTL

-----------------------------------------------------------------------------
(***************************************************************************)
(* Nobody is stranded in m_waitingCo.  A coroutine is queued only when the *)
(* lock is taken, and whoever frees the lock leaves only an empty queue.   *)
(***************************************************************************)
LEMMA Queued ==
    ASSUME HolderInv, NEW c \in Coroutines, Enqueue(c)
    PROVE  \E d \in Coroutines : Holds(d)
<1>1. m_state # "FREE" /\ m_state \in {"FREE", "READING", "WRITING"}
  BY DEF Enqueue, Available, Readable, Writable, HolderInv, TypeOK
<1> QED
  BY <1>1 DEF HolderInv, StateCountsHolders, ReadHolders, WriteHolders

LEMMA WaitersStep ==
    ASSUME HolderInv, WaitersHaveHolder, [Next]_vars
    PROVE  WaitersHaveHolder'
<1> DEFINE Busy(d) == pc[d] \in HoldingPCs \cup {"freeing"}
<1>0. WaitersHaveHolder <=>
        (m_waitingCo # <<>> => \E d \in Coroutines : Busy(d))
  BY DEF WaitersHaveHolder, Holds
<1>1. ASSUME NEW c \in Coroutines, Enqueue(c) PROVE WaitersHaveHolder'
  <2>1. PICK d \in Coroutines : Holds(d)
    BY <1>1, Queued
  <2>2. Holds(d)'
    BY <1>1, <2>1 DEF Enqueue, Holds, HoldingPCs, HolderInv, TypeOK
  <2> QED BY <2>2 DEF WaitersHaveHolder
<1>2. ASSUME NEW c \in Coroutines, TakeRead(c) \/ TakeWrite(c) \/ Free(c)
      PROVE  WaitersHaveHolder'
  <2>1. pc'[c] \in {"holding", "freeing"}
    BY <1>2 DEF TakeRead, TakeWrite, Free, HolderInv, TypeOK
  <2> QED BY <2>1 DEF WaitersHaveHolder, Holds, HoldingPCs
<1>3. ASSUME NEW c \in Coroutines, LeaveRead(c) PROVE WaitersHaveHolder'
  <2>1. StateCountsHolders'
    BY <1>3, LeaveReadInv
  <2>2. m_readingNum \in Nat \ {0, 1} /\ m_readingNum' = m_readingNum - 1
    BY <1>3, ReaderCounts DEF LeaveRead
  <2>3. m_readingNum' # 0
    BY <2>2
  <2>4. (ReadHolders # {})'
    BY <2>1, <2>3, FS_EmptySet DEF StateCountsHolders
  <2> QED BY <2>4 DEF WaitersHaveHolder, ReadHolders
<1>4. ASSUME NEW c \in Coroutines, FreeDone(c) PROVE WaitersHaveHolder'
  BY <1>4 DEF FreeDone, NoneWaits, mutexVars, WaitersHaveHolder
<1>5. ASSUME NEW c \in Coroutines, WakeFront(c) PROVE WaitersHaveHolder'
  <2>1. pc'[c] = "freeing"
    BY <1>5 DEF WakeFront
  <2> QED BY <2>1 DEF WaitersHaveHolder
<1>6. ASSUME UNCHANGED m_waitingCo,
             \A d \in Coroutines : Busy(d) => pc'[d] \in HoldingPCs \cup {"freeing"}
      PROVE  WaitersHaveHolder'
  BY <1>6 DEF WaitersHaveHolder, Holds
<1> USE DEF HolderInv, TypeOK, HoldingPCs, mutexVars
<1>7. ASSUME NEW c \in Coroutines,
             \/ Begin(c) \/ Sleep(c) \/ End(c) \/ Exit(c) \/ SpinLock(c)
             \/ Park(c) \/ Go(c) \/ ResumeSleeper(c)
      PROVE  WaitersHaveHolder'
  BY <1>6, <1>7
     DEF Begin, Sleep, End, Exit, SpinLock, Park, Go, ResumeSleeper
<1>8. ASSUME NEW p \in Processors, ResumePending(p) PROVE WaitersHaveHolder'
  <2>1. Head(pending[p]) \in Coroutines
    BY <1>8 DEF ResumePending
  <2> QED BY <1>6, <1>8, <2>1 DEF ResumePending
<1>9. ASSUME Idling \/ UNCHANGED vars PROVE WaitersHaveHolder'
  BY <1>6, <1>9 DEF Idling, vars
<1> HIDE DEF HolderInv, TypeOK
<1> QED
  BY <1>1, <1>2, <1>3, <1>4, <1>5, <1>7, <1>8, <1>9 DEF Next, CoStep

(***************************************************************************)
(* Whoever waits in m_waitingCo waits for a holder or for the one that is  *)
(* freeing the lock.                                                       *)
(***************************************************************************)
THEOREM NobodyStranded == Safety => []WaitersHaveHolder
<1>1. Init => WaitersHaveHolder
  BY DEF Init, WaitersHaveHolder
<1>2. HolderInv /\ WaitersHaveHolder /\ [Next]_vars => WaitersHaveHolder'
  BY WaitersStep
<1> QED BY <1>1, <1>2, HolderInvariant, PTL DEF Safety
-----------------------------------------------------------------------------
(***************************************************************************)
(* How often a coroutine stands in a queue, when one is put behind and     *)
(* when the first is taken.                                                *)
(***************************************************************************)
Places(c, s) == {i \in DOMAIN s : s[i] = c}

LEMMA PlacesFinite ==
    ASSUME NEW s \in Seq(Coroutines), NEW c
    PROVE  /\ IsFiniteSet(Places(c, s))
           /\ Times(c, s) = Cardinality(Places(c, s))
           /\ Times(c, s) \in Nat
<1>1. DOMAIN s = 1 .. Len(s) /\ Len(s) \in Nat
  OBVIOUS
<1>2. IsFiniteSet(1 .. Len(s))
  BY <1>1, FS_Interval
<1>3. IsFiniteSet(Places(c, s))
  BY <1>1, <1>2, FS_Subset DEF Places
<1> QED BY <1>3, FS_CardinalityType DEF Times, Places

LEMMA TimesEmpty == \A c : Times(c, <<>>) = 0
<1> SUFFICES ASSUME NEW c PROVE Times(c, <<>>) = 0
  OBVIOUS
<1>1. {i \in DOMAIN <<>> : <<>>[i] = c} = {}
  OBVIOUS
<1> QED BY <1>1, FS_EmptySet DEF Times

LEMMA TimesAppend ==
    ASSUME NEW s \in Seq(Coroutines), NEW d \in Coroutines, NEW c
    PROVE  Times(c, Append(s, d)) = Times(c, s) + IF c = d THEN 1 ELSE 0
<1> DEFINE n == Len(s) + 1
           t == Append(s, d)
<1>1. /\ DOMAIN s = 1 .. Len(s) /\ DOMAIN t = 1 .. n /\ Len(s) \in Nat
      /\ t[n] = d /\ \A i \in 1 .. Len(s) : t[i] = s[i]
      /\ t \in Seq(Coroutines)
  OBVIOUS
<1> HIDE DEF t
<1>2. Places(c, t) = IF c = d THEN Places(c, s) \cup {n} ELSE Places(c, s)
  BY <1>1 DEF Places
<1>3. n \notin Places(c, s)
  BY <1>1 DEF Places
<1>4. Cardinality(Places(c, s) \cup {n}) = Cardinality(Places(c, s)) + 1
  BY <1>3, PlacesFinite, FS_AddElement
<1>5. Times(c, t) = Cardinality(Places(c, t)) /\ Times(c, s) = Cardinality(Places(c, s))
  BY <1>1, PlacesFinite
<1>6. Times(c, s) \in Nat
  BY PlacesFinite
<1> QED BY <1>2, <1>4, <1>5, <1>6 DEF t

LEMMA TimesTail ==
    ASSUME NEW s \in Seq(Coroutines), s # <<>>, NEW c
    PROVE  Times(c, Tail(s)) = Times(c, s) - IF c = Head(s) THEN 1 ELSE 0
<1> DEFINE t == Tail(s)
<1>1. /\ Len(s) \in Nat \ {0} /\ DOMAIN s = 1 .. Len(s)
      /\ DOMAIN t = 1 .. Len(s) - 1 /\ Head(s) = s[1]
      /\ \A i \in 1 .. Len(s) - 1 : t[i] = s[i + 1]
      /\ t \in Seq(Coroutines)
  OBVIOUS
<1> HIDE DEF t
<1> DEFINE f == [i \in Places(c, t) |-> i + 1]
<1>2. f \in Bijection(Places(c, t), Places(c, s) \ {1})
  <2>1. f \in [Places(c, t) -> Places(c, s) \ {1}]
    BY <1>1 DEF Places
  <2>2. \A i, j \in Places(c, t) : f[i] = f[j] => i = j
    BY <1>1 DEF Places
  <2>3. \A j \in Places(c, s) \ {1} : j - 1 \in Places(c, t) /\ f[j - 1] = j
    BY <1>1 DEF Places
  <2>4. \A j \in Places(c, s) \ {1} : \E i \in Places(c, t) : f[i] = j
    BY <2>3
  <2> HIDE DEF f
  <2> QED BY <2>1, <2>2, <2>4 DEF Bijection, Injection, IsInjective, Surjection
<1>3. Cardinality(Places(c, s) \ {1}) = Cardinality(Places(c, t))
  BY <1>1, <1>2, PlacesFinite, FS_Bijection DEF ExistsBijection
<1>4. 1 \in Places(c, s) <=> c = Head(s)
  BY <1>1 DEF Places
<1>5. Cardinality(Places(c, s) \ {1}) =
        IF 1 \in Places(c, s) THEN Cardinality(Places(c, s)) - 1 ELSE Cardinality(Places(c, s))
  BY PlacesFinite, FS_RemoveElement
<1>6. Times(c, t) = Cardinality(Places(c, t)) /\ Times(c, s) = Cardinality(Places(c, s))
  BY <1>1, PlacesFinite
<1>7. Times(c, s) \in Nat
  BY PlacesFinite
<1> QED BY <1>3, <1>4, <1>5, <1>6, <1>7 DEF t
-----------------------------------------------------------------------------
(***************************************************************************)
(* No waiter is lost or queued twice.  Only the running coroutine is       *)
(* inside an operation, so that a processor never takes the task of one    *)
(* that is queued and has not yielded yet.                                 *)
(***************************************************************************)
Waits(c) == pc[c] \in {"new", "parking", "parked"}

LEMMA WaitInit == Init => WaitInv
<1> SUFFICES ASSUME Init PROVE WaitInv
  OBVIOUS
<1>1. ASSUME NEW c \in Coroutines
      PROVE  Times(c, m_waitingCo) = 0 /\ Times(c, pending[Home[c]]) = 0
  BY TimesEmpty, HomeAssumption DEF Init
<1>2. ASSUME NEW p \in Processors PROVE DOMAIN pending[p] = {}
  BY DEF Init
<1> QED BY <1>1, <1>2 DEF Init, WaitInv, WaitersKept, InOperation

(***************************************************************************)
(* The steps that leave both kinds of queues alone.                        *)
(***************************************************************************)
LEMMA SameQueues ==
    ASSUME HolderInv, WaitInv,
           UNCHANGED <<m_waitingCo, pending>>,
           \A c \in Coroutines : Waits(c)' <=> Waits(c),
           \A c \in Coroutines : pc'[c] \in InOperation => cur'[Home[c]] = c
    PROVE  WaitInv'
BY DEF WaitInv, WaitersKept, Waits, Runs

LEMMA OperationWait ==
    ASSUME HolderInv, WaitInv, NEW c \in Coroutines,
           \/ Begin(c) \/ End(c) \/ SpinLock(c) \/ TakeRead(c) \/ TakeWrite(c)
           \/ LeaveRead(c) \/ Free(c) \/ FreeDone(c)
    PROVE  WaitInv'
<1>1. /\ UNCHANGED <<m_waitingCo, pending, cur>>
      /\ \A d \in Coroutines \ {c} : pc'[d] = pc[d]
      /\ pc[c] \notin {"new", "parking", "parked"}
      /\ pc'[c] \notin {"new", "parking", "parked"}
  BY DEF Begin, End, SpinLock, TakeRead, TakeWrite, LeaveRead, Free, FreeDone,
         mutexVars, schedVars, HolderInv, TypeOK
<1>2. Runs(c)
  BY DEF Begin, End, SpinLock, TakeRead, TakeWrite, LeaveRead, Free, FreeDone,
         WaitInv, InOperation
<1>3. \A d \in Coroutines : pc'[d] \in InOperation => cur'[Home[d]] = d
  BY <1>1, <1>2 DEF WaitInv, Runs
<1> QED BY <1>1, <1>3, SameQueues DEF Waits

\* A coroutine gives its processor up.
LEMMA YieldWait ==
    ASSUME HolderInv, WaitInv, NEW c \in Coroutines, Sleep(c) \/ Exit(c) \/ Park(c)
    PROVE  WaitInv'
<1>1. /\ UNCHANGED <<m_waitingCo, pending>>
      /\ cur[Home[c]] = c /\ cur' = [cur EXCEPT ![Home[c]] = None]
      /\ \A d \in Coroutines \ {c} : pc'[d] = pc[d]
      /\ pc'[c] \notin InOperation
      /\ Waits(c)' <=> Waits(c)
  BY DEF Sleep, Exit, Park, Runs, mutexVars, HolderInv, TypeOK, InOperation, Waits
<1>2. \A d \in Coroutines : pc'[d] \in InOperation => cur'[Home[d]] = d
  <2> SUFFICES ASSUME NEW d \in Coroutines, pc'[d] \in InOperation
               PROVE  cur'[Home[d]] = d
    OBVIOUS
  <2>1. d # c /\ cur[Home[d]] = d
    BY <1>1 DEF WaitInv, Runs
  <2>2. Home[d] # Home[c]
    BY <1>1, <2>1
  <2> QED BY <1>1, <2>1, <2>2, HomeAssumption DEF HolderInv, TypeOK
<1> QED BY <1>1, <1>2, SameQueues DEF Waits

LEMMA SleeperWait ==
    ASSUME HolderInv, WaitInv, NEW c \in Coroutines, ResumeSleeper(c)
    PROVE  WaitInv'
<1>1. /\ UNCHANGED <<m_waitingCo, pending, pc>>
      /\ cur[Home[c]] = None /\ cur' = [cur EXCEPT ![Home[c]] = c]
  BY DEF ResumeSleeper, mutexVars
<1>2. \A d \in Coroutines : pc'[d] \in InOperation => cur'[Home[d]] = d
  <2> SUFFICES ASSUME NEW d \in Coroutines, pc'[d] \in InOperation
               PROVE  cur'[Home[d]] = d
    OBVIOUS
  <2>1. cur[Home[d]] = d
    BY <1>1 DEF WaitInv, Runs
  <2>2. Home[d] # Home[c]
    BY <1>1, <2>1, NoneAssumption
  <2> QED BY <1>1, <2>1, <2>2, HomeAssumption DEF HolderInv, TypeOK
<1> QED BY <1>1, <1>2, SameQueues DEF Waits

(***************************************************************************)
(* The steps that move a coroutine from queue to queue.                    *)
(***************************************************************************)
LEMMA GoWait ==
    ASSUME HolderInv, WaitInv, NEW c \in Coroutines, Go(c)
    PROVE  WaitInv'
<1>1. /\ UNCHANGED <<m_waitingCo, cur>> /\ pc[c] = "unborn"
      /\ pc' = [pc EXCEPT ![c] = "new"]
      /\ pending' = [pending EXCEPT ![Home[c]] = Append(pending[Home[c]], c)]
  BY DEF Go, mutexVars
<1> DEFINE h == Home[c]
           q == pending[h]
<1>2. h \in Processors /\ q \in Seq(Coroutines) /\ pending'[h] = Append(q, c)
  BY <1>1, HomeAssumption DEF HolderInv, TypeOK
<1>3. \A p \in Processors \ {h} : pending'[p] = pending[p]
  BY <1>1 DEF HolderInv, TypeOK
<1>4. \A d \in Coroutines : pc'[d] = IF d = c THEN "new" ELSE pc[d]
  BY <1>1 DEF HolderInv, TypeOK
<1> HIDE DEF h, q
<1>5. \A p \in Processors : \A i \in DOMAIN pending'[p] : Home[pending'[p][i]] = p
  <2> SUFFICES ASSUME NEW i \in DOMAIN pending'[h] PROVE Home[pending'[h][i]] = h
    BY <1>3 DEF WaitInv
  <2>1. pending'[h][i] = c \/ (i \in DOMAIN q /\ pending'[h][i] = q[i])
    BY <1>2
  <2> QED BY <1>2, <2>1 DEF WaitInv, h, q
<1>6. ASSUME NEW d \in Coroutines
      PROVE  Times(d, m_waitingCo') + Times(d, pending'[Home[d]]) = IF Waits(d)' THEN 1 ELSE 0
  <2>1. Times(d, m_waitingCo) + Times(d, pending[Home[d]]) = IF Waits(d) THEN 1 ELSE 0
    BY DEF WaitInv, WaitersKept, Waits
  <2>2. CASE Home[d] # h
    BY <1>1, <1>3, <1>4, <2>1, <2>2, HomeAssumption DEF h, Waits
  <2>3. CASE Home[d] = h
    <3>1. Times(d, Append(q, c)) = Times(d, q) + IF d = c THEN 1 ELSE 0
      BY <1>2, TimesAppend
    <3>2. Times(d, q) \in Nat /\ Times(d, m_waitingCo) \in Nat
      BY <1>2, PlacesFinite DEF HolderInv, TypeOK
    <3>3. Times(d, m_waitingCo) + Times(d, q) = IF Waits(d) THEN 1 ELSE 0
      BY <2>1, <2>3 DEF q
    <3>4. Waits(d)' <=> Waits(d) \/ d = c
      BY <1>4 DEF Waits
    <3>5. d = c => ~Waits(d)
      BY <1>1 DEF Waits
    <3>6. /\ Times(d, m_waitingCo') = Times(d, m_waitingCo)
          /\ Times(d, pending'[Home[d]]) = Times(d, Append(q, c))
      BY <1>1, <1>2, <2>3
    <3>7. CASE d = c
      BY <3>1, <3>2, <3>3, <3>4, <3>5, <3>6, <3>7
    <3>8. CASE d # c
      BY <3>1, <3>2, <3>3, <3>4, <3>6, <3>8
    <3> QED BY <3>7, <3>8
  <2> QED BY <2>2, <2>3
<1>7. \A d \in Coroutines : (pc[d] \in InOperation => Runs(d))'
  BY <1>1, <1>4 DEF WaitInv, InOperation, Runs
<1> QED BY <1>5, <1>6, <1>7 DEF WaitInv, WaitersKept, Waits

LEMMA EnqueueWait ==
    ASSUME HolderInv, WaitInv, NEW c \in Coroutines, Enqueue(c)
    PROVE  WaitInv'
<1>1. /\ UNCHANGED <<pending, cur>> /\ pc[c] = "locking"
      /\ \A d \in Coroutines : pc'[d] = IF d = c THEN "parking" ELSE pc[d]
      /\ m_waitingCo' = Append(m_waitingCo, c)
      /\ m_waitingCo \in Seq(Coroutines)
  BY DEF Enqueue, schedVars, HolderInv, TypeOK
<1>2. ASSUME NEW d \in Coroutines
      PROVE  Times(d, m_waitingCo') + Times(d, pending'[Home[d]]) = IF Waits(d)' THEN 1 ELSE 0
  <2>1. Times(d, m_waitingCo) + Times(d, pending[Home[d]]) = IF Waits(d) THEN 1 ELSE 0
    BY DEF WaitInv, WaitersKept, Waits
  <2>2. Times(d, m_waitingCo') = Times(d, m_waitingCo) + IF d = c THEN 1 ELSE 0
    BY <1>1, TimesAppend
  <2>3. Times(d, pending'[Home[d]]) = Times(d, pending[Home[d]])
    BY <1>1
  <2>4. Times(d, m_waitingCo) \in Nat /\ Times(d, pending[Home[d]]) \in Nat
    BY <1>1, PlacesFinite, HomeAssumption DEF HolderInv, TypeOK
  <2>5. Waits(d)' <=> Waits(d) \/ d = c
    BY <1>1 DEF Waits
  <2>6. CASE d = c
    <3>1. ~Waits(d)
      BY <1>1, <2>6 DEF Waits
    <3> QED BY <2>1, <2>2, <2>3, <2>4, <2>5, <2>6, <3>1
  <2>7. CASE d # c
    BY <2>1, <2>2, <2>3, <2>4, <2>5, <2>7
  <2> QED BY <2>6, <2>7
<1>3. \A d \in Coroutines : (pc[d] \in InOperation => Runs(d))'
  BY <1>1 DEF WaitInv, InOperation, Runs
<1>4. \A p \in Processors : \A i \in DOMAIN pending'[p] : Home[pending'[p][i]] = p
  BY <1>1 DEF WaitInv
<1> QED BY <1>2, <1>3, <1>4 DEF WaitInv, WaitersKept, Waits

LEMMA WakeFrontWait ==
    ASSUME HolderInv, WaitInv, NEW c \in Coroutines, WakeFront(c)
    PROVE  WaitInv'
<1>1. PICK w \in Coroutines : w = Head(m_waitingCo)
  BY DEF WakeFront, HolderInv, TypeOK
<1>2. /\ UNCHANGED <<pc, cur>> /\ m_waitingCo # <<>>
      /\ m_waitingCo \in Seq(Coroutines) /\ m_waitingCo' = Tail(m_waitingCo)
      /\ pending \in [Processors -> Seq(Coroutines)]
      /\ pending' = [pending EXCEPT ![Home[w]] = Append(pending[Home[w]], w)]
  BY <1>1 DEF WakeFront, HolderInv, TypeOK
<1>3. Home[w] \in Processors /\ pending'[Home[w]] = Append(pending[Home[w]], w)
  BY <1>2, HomeAssumption
<1>4. \A p \in Processors \ {Home[w]} : pending'[p] = pending[p]
  BY <1>2
<1>5. \A p \in Processors : \A i \in DOMAIN pending'[p] : Home[pending'[p][i]] = p
  <2> SUFFICES ASSUME NEW i \in DOMAIN pending'[Home[w]]
               PROVE  Home[pending'[Home[w]][i]] = Home[w]
    BY <1>4 DEF WaitInv
  <2>1. \/ pending'[Home[w]][i] = w
        \/ /\ i \in DOMAIN pending[Home[w]]
           /\ pending'[Home[w]][i] = pending[Home[w]][i]
    BY <1>2, <1>3
  <2> QED BY <1>3, <2>1 DEF WaitInv
<1>6. ASSUME NEW d \in Coroutines
      PROVE  Times(d, m_waitingCo') + Times(d, pending'[Home[d]]) =
                 Times(d, m_waitingCo) + Times(d, pending[Home[d]])
  <2>1. Times(d, m_waitingCo') = Times(d, m_waitingCo) - IF d = w THEN 1 ELSE 0
    BY <1>1, <1>2, TimesTail
  <2>2. Times(d, m_waitingCo) \in Nat /\ Times(d, pending[Home[d]]) \in Nat
    BY <1>2, PlacesFinite, HomeAssumption
  <2>3. Times(d, pending'[Home[d]]) =
            Times(d, pending[Home[d]]) + IF d = w THEN 1 ELSE 0
    <3>1. CASE Home[d] = Home[w]
      BY <1>2, <1>3, <3>1, TimesAppend
    <3>2. CASE Home[d] # Home[w]
      <4>1. d # w /\ pending'[Home[d]] = pending[Home[d]]
        BY <1>4, <3>2, HomeAssumption
      <4> QED BY <2>2, <4>1
    <3> QED BY <3>1, <3>2
  <2>4. CASE d = w
    BY <2>1, <2>2, <2>3, <2>4
  <2>5. CASE d # w
    BY <2>1, <2>2, <2>3, <2>5
  <2> QED BY <2>4, <2>5
<1>7. WaitersKept'
  BY <1>2, <1>6 DEF WaitInv, WaitersKept
<1> QED BY <1>2, <1>5, <1>7 DEF WaitInv, Runs

LEMMA ResumePendingWait ==
    ASSUME HolderInv, WaitInv, NEW p \in Processors, ResumePending(p)
    PROVE  WaitInv'
<1>1. PICK w \in Coroutines : w = Head(pending[p])
  BY DEF ResumePending, HolderInv, TypeOK
<1>2. /\ UNCHANGED m_waitingCo /\ cur[p] = None
      /\ pending[p] # <<>> /\ pending[p] \in Seq(Coroutines)
      /\ pending \in [Processors -> Seq(Coroutines)]
      /\ pending' = [pending EXCEPT ![p] = Tail(pending[p])]
  BY DEF ResumePending, mutexVars, HolderInv, TypeOK
<1>3. Home[w] = p
  <2>1. 1 \in DOMAIN pending[p] /\ pending[p][1] = w
    BY <1>1, <1>2
  <2> QED BY <2>1 DEF WaitInv
<1>4. pending'[p] = Tail(pending[p]) /\ \A q \in Processors \ {p} : pending'[q] = pending[q]
  BY <1>2
<1>5. Times(w, Tail(pending[p])) = Times(w, pending[p]) - 1
      /\ \A d \in Coroutines \ {w} : Times(d, Tail(pending[p])) = Times(d, pending[p]) - 0
  BY <1>1, <1>2, TimesTail
<1>6. Times(w, pending[p]) = 1 /\ Times(w, m_waitingCo) = 0 /\ Waits(w)
  <2>1. Times(w, pending[p]) \in Nat /\ Times(w, m_waitingCo) \in Nat
        /\ Times(w, Tail(pending[p])) \in Nat
    <3>1. Tail(pending[p]) \in Seq(Coroutines) /\ m_waitingCo \in Seq(Coroutines)
      BY <1>2 DEF HolderInv, TypeOK
    <3> QED BY <1>2, <3>1, PlacesFinite
  <2>2. Times(w, m_waitingCo) + Times(w, pending[p]) = IF Waits(w) THEN 1 ELSE 0
    BY <1>3 DEF WaitInv, WaitersKept, Waits
  <2> QED BY <1>5, <2>1, <2>2
<1>7. pc[w] \in {"new", "parked"}
  BY <1>2, <1>3, <1>6, NoneAssumption DEF Waits, WaitInv, InOperation, Runs
<1>8. /\ cur' = [cur EXCEPT ![p] = w]
      /\ \A d \in Coroutines \ {w} : pc'[d] = pc[d]
      /\ pc'[w] \in {"outside", "lock"}
  BY <1>1, <1>7 DEF ResumePending, HolderInv, TypeOK
<1>9. ASSUME NEW d \in Coroutines
      PROVE  Times(d, m_waitingCo') + Times(d, pending'[Home[d]]) = IF Waits(d)' THEN 1 ELSE 0
  <2>1. Times(d, m_waitingCo) + Times(d, pending[Home[d]]) = IF Waits(d) THEN 1 ELSE 0
    BY DEF WaitInv, WaitersKept, Waits
  <2>2. CASE d = w
    <3>1. ~Waits(d)'
      BY <1>8, <2>2 DEF Waits
    <3>2. Times(d, m_waitingCo') = 0 /\ Times(d, pending'[Home[d]]) = 1 - 1
      BY <1>2, <1>3, <1>4, <1>5, <1>6, <2>2
    <3> QED BY <3>1, <3>2
  <2>3. CASE d # w
    <3>1. Waits(d)' <=> Waits(d)
      BY <1>8, <2>3 DEF Waits
    <3>2. Times(d, pending[Home[d]]) \in Nat
      BY <1>2, PlacesFinite, HomeAssumption
    <3>3. Times(d, pending'[Home[d]]) = Times(d, pending[Home[d]])
      <4>1. CASE Home[d] = p
        BY <1>4, <1>5, <2>3, <3>2, <4>1
      <4>2. CASE Home[d] # p
        BY <1>4, <4>2, HomeAssumption
      <4> QED BY <4>1, <4>2
    <3>4. m_waitingCo' = m_waitingCo
      BY <1>2
    <3>5. Times(d, m_waitingCo') + Times(d, pending'[Home[d]]) = IF Waits(d) THEN 1 ELSE 0
      BY <2>1, <3>3, <3>4
    <3> QED BY <3>1, <3>5
  <2> QED BY <2>2, <2>3
<1>10. ASSUME NEW q \in Processors, NEW i \in DOMAIN pending'[q]
       PROVE  Home[pending'[q][i]] = q
  <2>1. CASE q = p
    <3>1. i + 1 \in DOMAIN pending[p] /\ pending'[p][i] = pending[p][i + 1]
      BY <1>2, <1>4, <1>10, <2>1
    <3> QED BY <2>1, <3>1 DEF WaitInv
  <2>2. CASE q # p
    BY <1>4, <1>10, <2>2 DEF WaitInv
  <2> QED BY <2>1, <2>2
<1>11. ASSUME NEW d \in Coroutines, pc'[d] \in InOperation PROVE cur'[Home[d]] = d
  <2>1. CASE d = w
    BY <1>3, <1>8, <2>1 DEF HolderInv, TypeOK
  <2>2. CASE d # w
    <3>1. cur[Home[d]] = d
      BY <1>8, <1>11, <2>2 DEF WaitInv, Runs
    <3>2. Home[d] # p
      BY <1>2, <3>1, NoneAssumption
    <3> QED BY <1>8, <3>1, <3>2, HomeAssumption DEF HolderInv, TypeOK
  <2> QED BY <2>1, <2>2
<1> QED BY <1>9, <1>10, <1>11 DEF WaitInv, WaitersKept, Waits, Runs

LEMMA WaitStep == HolderInv /\ WaitInv /\ [Next]_vars => WaitInv'
<1> SUFFICES ASSUME HolderInv, WaitInv, [Next]_vars PROVE WaitInv'
  OBVIOUS
<1>1. ASSUME Idling \/ UNCHANGED vars PROVE WaitInv'
  BY <1>1 DEF Idling, vars, mutexVars, schedVars, WaitInv, WaitersKept, Runs
<1> QED
  BY <1>1, OperationWait, YieldWait, SleeperWait, GoWait, EnqueueWait,
     WakeFrontWait, ResumePendingWait DEF Next, CoStep

(***************************************************************************)
(* A coroutine that waits is in exactly one queue, once, and one that does *)
(* not is in none: enqueueing before yield() and waking before the waiter  *)
(* has yielded lose nobody and wake nobody twice.                          *)
(***************************************************************************)
THEOREM NoWaiterLost == Safety => []WaitersKept
<1>1. WaitInv => WaitersKept
  BY DEF WaitInv
<1> QED BY <1>1, WaitInit, WaitStep, HolderInvariant, PTL DEF Safety
=============================================================================
