------------------------------ MODULE CoGoProofs ------------------------------
(***************************************************************************)
(* What co_go() rests on, for every number of threads, processors,         *)
(* coroutines and every capacity: the creation of the scheduler, and the   *)
(* hand-over of a coroutine through a processor's buffer.                  *)
(*                                                                         *)
(* With one producer the buffer is a bounded queue: RingInv is inductive,  *)
(* and under it every step of the buffer is a step of BoundedFIFO or       *)
(* leaves the queue alone.  The hand-over uses the buffer as its           *)
(* specification says, and the wake-up is never lost, even while several   *)
(* threads push at once.  Of the double-checked creation: one scheduler is *)
(* made, each processor is started once, and who took the mutex finds all  *)
(* of them looping.                                                        *)
(***************************************************************************)
EXTENDS TaskHandoff, Scheduler, SequenceTheorems, TLAPS

LEMMA IncrementPos ==
    ASSUME NEW pos \in Positions
    PROVE  /\ increment_pos(pos) \in Positions
           /\ increment_pos(pos) = IF pos + 1 = Capacity THEN 0 ELSE pos + 1
BY CapacityAssumption DEF increment_pos, Positions

LEMMA IncrementInjective ==
    ASSUME NEW pos1 \in Positions, NEW pos2 \in Positions, pos1 # pos2
    PROVE  increment_pos(pos1) # increment_pos(pos2)
<1>1. /\ increment_pos(pos1) = IF pos1 + 1 = Capacity THEN 0 ELSE pos1 + 1
      /\ increment_pos(pos2) = IF pos2 + 1 = Capacity THEN 0 ELSE pos2 + 1
  BY IncrementPos
<1> QED BY <1>1, CapacityAssumption DEF Positions

LEMMA RingInitInv == RingInit => RingInv
BY CapacityAssumption
   DEF RingInit, RingInv, RingTypeOK, ProducerView, ConsumerView, Positions

LEMMA PushStepInv ==
    ASSUME SingleProducer, RingInv, NEW p \in Producers,
           PushStep(p) \/ \E item \in Items : PushLoad(p, item)
    PROVE  RingInv'
<1> USE DEF RingInv, positions, popVars
<1>0. /\ increment_pos(m_write_pos) \in Positions
      /\ increment_pos(m_write_pos) # m_write_pos \/ Capacity = 1
  BY IncrementPos, CapacityAssumption DEF RingTypeOK, Positions
<1>1. ASSUME NEW item \in Items, PushLoad(p, item) PROVE RingInv'
  BY <1>1, SingleProducer
     DEF PushLoad, SingleProducer, RingTypeOK, ProducerView, ConsumerView
<1>2. CASE PushRefuse(p)
  BY <1>2 DEF PushRefuse, RingTypeOK, ProducerView, ConsumerView
<1>3. CASE PushCheck(p)
  BY <1>3, SingleProducer
     DEF PushCheck, FullSeen, SingleProducer, RingTypeOK, ProducerView,
         ConsumerView
<1>4. CASE PushWrite(p)
  <2>1. RingTypeOK'
    BY <1>4 DEF PushWrite, RingTypeOK, ProducerView
  <2>2. ProducerView'
    BY <1>4, SingleProducer
       DEF PushWrite, SingleProducer, RingTypeOK, ProducerView
  <2>3. ConsumerView'
    BY <1>4 DEF PushWrite, RingTypeOK, ProducerView, ConsumerView
  <2> QED BY <2>1, <2>2, <2>3
<1>5. CASE PushPublish(p)
  <2>1. RingTypeOK'
    BY <1>5, <1>0 DEF PushPublish, RingTypeOK, ProducerView
  <2>2. ProducerView'
    BY <1>5, SingleProducer
       DEF PushPublish, SingleProducer, RingTypeOK, ProducerView
  <2>3. ConsumerView'
    BY <1>5 DEF PushPublish, RingTypeOK, ProducerView, ConsumerView
  <2> QED BY <2>1, <2>2, <2>3
<1> QED BY <1>1, <1>2, <1>3, <1>4, <1>5 DEF PushStep

LEMMA PopStepInv ==
    ASSUME RingInv, PopLoad \/ PopStep
    PROVE  RingInv'
<1> USE DEF RingInv, positions, pushVars
<1>0. increment_pos(m_read_pos) \in Positions
  BY IncrementPos DEF RingTypeOK
<1>1. CASE PopLoad
  BY <1>1 DEF PopLoad, RingTypeOK, ProducerView, ConsumerView
<1>2. CASE PopNothing
  BY <1>2 DEF PopNothing, RingTypeOK, ProducerView, ConsumerView
<1>3. CASE PopCheck
  BY <1>3 DEF PopCheck, RingTypeOK, ProducerView, ConsumerView
<1>4. CASE PopRead
  BY <1>4 DEF PopRead, RingTypeOK, ProducerView, ConsumerView
<1>5. CASE PopRelease
  <2>1. RingTypeOK'
    BY <1>5, <1>0 DEF PopRelease, RingTypeOK, ConsumerView
  <2>2. increment_pos(m_write_pos) # increment_pos(m_read_pos)
    BY <1>5, IncrementInjective DEF PopRelease, RingTypeOK, ConsumerView
  <2>3. ProducerView'
    BY <1>5, <2>2 DEF PopRelease, RingTypeOK, ProducerView, ConsumerView
  <2>4. ConsumerView'
    BY <1>5 DEF PopRelease, ConsumerView
  <2> QED BY <2>1, <2>3, <2>4
<1> QED BY <1>1, <1>2, <1>3, <1>4, <1>5 DEF PopStep

LEMMA RingStutterInv ==
    ASSUME RingInv, UNCHANGED ringVars
    PROVE  RingInv'
BY DEF ringVars, positions, pushVars, popVars, RingInv, RingTypeOK,
       ProducerView, ConsumerView

(***************************************************************************)
(* RingInv holds of every state of the buffer with one producer.           *)
(***************************************************************************)
THEOREM RingInvariant == SingleProducer => (RingSpec => []RingInv)
<1> SUFFICES ASSUME SingleProducer PROVE RingSpec => []RingInv
  OBVIOUS
<1>1. RingInit => RingInv
  BY RingInitInv
<1>2. RingInv /\ [RingNext]_ringVars => RingInv'
  BY PushStepInv, PopStepInv, RingStutterInv, SingleProducer DEF RingNext
<1> QED BY <1>1, <1>2, PTL DEF RingSpec

(***************************************************************************)
(* push() never writes the slot pop() is reading (NoSlotRace), whatever    *)
(* the capacity.                                                           *)
(***************************************************************************)
THEOREM SlotsApart == SingleProducer => (RingSpec => []NoSlotRace)
<1> SUFFICES ASSUME SingleProducer PROVE RingSpec => []NoSlotRace
  OBVIOUS
<1>1. RingInv => NoSlotRace
  BY DEF RingInv, ProducerView, ConsumerView, NoSlotRace
<1> QED BY <1>1, RingInvariant, PTL

-----------------------------------------------------------------------------
(***************************************************************************)
(* The refinement: contents is a sequence of Count items.                  *)
(***************************************************************************)
LEMMA CountRange ==
    ASSUME RingTypeOK
    PROVE  /\ Count \in 0 .. Capacity - 1
           /\ Count = 0 <=> m_read_pos = m_write_pos
           /\ Count = Capacity - 1 <=> increment_pos(m_write_pos) = m_read_pos
<1>1. increment_pos(m_write_pos) =
        IF m_write_pos + 1 = Capacity THEN 0 ELSE m_write_pos + 1
  BY IncrementPos DEF RingTypeOK
<1> QED BY <1>1, CapacityAssumption DEF RingTypeOK, Positions, Count

LEMMA SlotRange ==
    ASSUME RingTypeOK, NEW k \in 1 .. Count
    PROVE  SlotOf(k) \in Positions /\ SlotOf(k) # m_write_pos
BY CapacityAssumption DEF RingTypeOK, Positions, Count, SlotOf

LEMMA ContentsSeq ==
    ASSUME RingTypeOK
    PROVE  contents \in Seq(Items \cup {NoItem}) /\ Len(contents) = Count
<1>1. Count \in Nat
  BY CountRange
<1>2. \A k \in 1 .. Count : m_buffer[SlotOf(k)] \in Items \cup {NoItem}
  BY SlotRange DEF RingTypeOK
<1> QED BY <1>1, <1>2 DEF contents

LEMMA ContentsSame ==
    ASSUME RingTypeOK, UNCHANGED positions,
           \A slot \in Positions \ {m_write_pos} : m_buffer'[slot] = m_buffer[slot]
    PROVE  contents' = contents
<1>1. Count' = Count /\ \A k : SlotOf(k)' = SlotOf(k)
  BY DEF positions, Count, SlotOf
<1>2. \A k \in 1 .. Count : m_buffer'[SlotOf(k)] = m_buffer[SlotOf(k)]
  BY SlotRange
<1> QED BY <1>1, <1>2 DEF contents

LEMMA ContentsPublish ==
    ASSUME RingInv, NEW p \in Producers, PushPublish(p)
    PROVE  /\ Len(contents) < Capacity - 1
           /\ contents' = Append(contents, push_item[p])
<1> USE DEF RingInv
<1>1. /\ current_write_pos[p] = m_write_pos
      /\ increment_pos(m_write_pos) # m_read_pos
      /\ m_buffer[m_write_pos] = push_item[p]
  BY DEF PushPublish, ProducerView
<1>2. Count \in Nat /\ Count < Capacity - 1
  BY <1>1, CountRange, CapacityAssumption
<1>3. m_write_pos' = IF m_write_pos + 1 = Capacity THEN 0 ELSE m_write_pos + 1
  BY <1>1, IncrementPos DEF PushPublish, RingTypeOK
<1>4. m_read_pos' = m_read_pos /\ m_buffer' = m_buffer
  BY DEF PushPublish
<1>5. Count' = Count + 1
  BY <1>2, <1>3, <1>4, CapacityAssumption DEF RingTypeOK, Positions, Count
<1>6. \A k : SlotOf(k)' = SlotOf(k)
  BY <1>4 DEF SlotOf
<1>7. SlotOf(Count + 1) = m_write_pos
  BY <1>2, CapacityAssumption DEF RingTypeOK, Positions, Count, SlotOf
<1>8. contents' = [k \in 1 .. Count + 1 |-> m_buffer[SlotOf(k)]]
  BY <1>4, <1>5, <1>6 DEF contents
<1>9. Append(contents, push_item[p])
        = [k \in 1 .. Count + 1 |->
             IF k = Count + 1 THEN push_item[p] ELSE contents[k]]
  BY <1>2, ContentsSeq
<1>10. \A k \in 1 .. Count + 1 :
         m_buffer[SlotOf(k)] =
           IF k = Count + 1 THEN push_item[p] ELSE contents[k]
  BY <1>1, <1>2, <1>7 DEF contents
<1>11. contents' = Append(contents, push_item[p])
  BY <1>8, <1>9, <1>10
<1> QED BY <1>2, <1>11, ContentsSeq

LEMMA ContentsRelease ==
    ASSUME RingInv, PopRelease
    PROVE  /\ contents # <<>>
           /\ Head(contents) = pop_item
           /\ contents' = Tail(contents)
<1> USE DEF RingInv
<1>1. /\ current_read_pos = m_read_pos
      /\ m_read_pos # m_write_pos
      /\ pop_item = m_buffer[m_read_pos]
  BY DEF PopRelease, ConsumerView
<1>2. Count \in Nat /\ Count > 0
  BY <1>1, CountRange
<1>3. m_read_pos' = IF m_read_pos + 1 = Capacity THEN 0 ELSE m_read_pos + 1
  BY <1>1, IncrementPos DEF PopRelease, RingTypeOK
<1>4. m_write_pos' = m_write_pos /\ m_buffer' = m_buffer
  BY DEF PopRelease
<1>5. Count' = Count - 1
  BY <1>1, <1>3, <1>4, CapacityAssumption DEF RingTypeOK, Positions, Count
<1>6. \A k \in 1 .. Count - 1 : SlotOf(k)' = SlotOf(k + 1)
  BY <1>2, <1>3, CapacityAssumption DEF RingTypeOK, Positions, Count, SlotOf
<1>7. SlotOf(1) = m_read_pos
  BY CapacityAssumption DEF RingTypeOK, Positions, SlotOf
<1>8. contents' = [k \in 1 .. Count - 1 |-> m_buffer[SlotOf(k + 1)]]
  BY <1>4, <1>5, <1>6 DEF contents
<1>9. contents # <<>> /\ Head(contents) = pop_item
  BY <1>1, <1>2, <1>7, ContentsSeq DEF contents
<1>10. Tail(contents) = [k \in 1 .. Count - 1 |-> contents[k + 1]]
  <2>1. Tail(contents) \in [1 .. Count - 1 -> Items \cup {NoItem}]
    BY <1>9, ContentsSeq, HeadTailProperties, LenProperties
  <2>2. \A k \in 1 .. Count - 1 : Tail(contents)[k] = contents[k + 1]
    BY <1>9, ContentsSeq, HeadTailProperties
  <2> QED BY <2>1, <2>2
<1>11. \A k \in 1 .. Count - 1 : contents[k + 1] = m_buffer[SlotOf(k + 1)]
  BY <1>2 DEF contents
<1> QED BY <1>8, <1>9, <1>10, <1>11

LEMMA RefineInit == RingInit => Queue!Init
<1> SUFFICES ASSUME RingInit PROVE Queue!Init
  OBVIOUS
<1>1. Count = 0
  BY DEF RingInit, Count
<1>2. RingTypeOK
  BY RingInitInv DEF RingInv
<1>3. contents = <<>>
  BY <1>1, <1>2, ContentsSeq, EmptySeq
<1> QED BY <1>3 DEF RingInit, Queue!Init

LEMMA RefinePush ==
    ASSUME RingInv, NEW p \in Producers,
           PushStep(p) \/ \E item \in Items : PushLoad(p, item)
    PROVE  [Queue!Next]_Queue!vars
<1> USE DEF RingInv
<1>1. ASSUME NEW item \in Items, PushLoad(p, item) PROVE UNCHANGED Queue!vars
  BY <1>1, ContentsSame DEF PushLoad, Queue!vars
<1>2. ASSUME PushRefuse(p) PROVE Queue!PushRefused(push_item[p])
  <2>1. contents' = contents
    BY <1>2, ContentsSame DEF PushRefuse
  <2>2. Len(contents) = Capacity - 1
    BY <1>2, CountRange, ContentsSeq DEF PushRefuse, FullSeen, ProducerView
  <2> QED BY <1>2, <2>1, <2>2 DEF PushRefuse, Queue!PushRefused
<1>3. ASSUME PushCheck(p) PROVE UNCHANGED Queue!vars
  BY <1>3, ContentsSame DEF PushCheck, Queue!vars
<1>4. ASSUME PushWrite(p) PROVE UNCHANGED Queue!vars
  <2>1. current_write_pos[p] = m_write_pos
    BY <1>4 DEF PushWrite, ProducerView
  <2> QED BY <1>4, <2>1, ContentsSame DEF PushWrite, RingTypeOK, Queue!vars
<1>5. ASSUME PushPublish(p) PROVE Queue!Push(push_item[p])
  BY <1>5, ContentsPublish DEF PushPublish, Queue!Push
<1>6. push_pc[p] # "idle" => push_item[p] \in Items
  BY DEF ProducerView
<1>7. PushRefuse(p) \/ PushPublish(p) => push_item[p] \in Items
  BY <1>6 DEF PushRefuse, PushPublish
<1> QED BY <1>1, <1>2, <1>3, <1>4, <1>5, <1>7 DEF PushStep, Queue!Next

LEMMA RefinePop ==
    ASSUME RingInv, PopLoad \/ PopStep
    PROVE  [Queue!Next]_Queue!vars
<1> USE DEF RingInv
<1>1. CASE PopLoad
  BY <1>1, ContentsSame DEF PopLoad, Queue!vars
<1>2. ASSUME PopNothing PROVE Queue!PopNothing
  <2>1. contents' = contents
    BY <1>2, ContentsSame DEF PopNothing
  <2>2. contents = <<>>
    BY <1>2, CountRange, ContentsSeq, EmptySeq DEF PopNothing, ConsumerView
  <2> QED BY <1>2, <2>1, <2>2 DEF PopNothing, Queue!PopNothing
<1>3. CASE PopCheck
  BY <1>3, ContentsSame DEF PopCheck, Queue!vars
<1>4. CASE PopRead
  BY <1>4, ContentsSame DEF PopRead, Queue!vars
<1>5. ASSUME PopRelease PROVE Queue!Pop
  BY <1>5, ContentsRelease DEF PopRelease, Queue!Pop
<1> QED BY <1>1, <1>2, <1>3, <1>4, <1>5 DEF PopStep, Queue!Next

(***************************************************************************)
(* The buffer implements the bounded queue when one thread pushes.         *)
(***************************************************************************)
THEOREM RingImplementsFIFO == SingleProducer => (RingSpec => ImplementsFIFO)
<1> SUFFICES ASSUME SingleProducer PROVE RingSpec => Queue!Spec
  BY DEF ImplementsFIFO
<1>1. RingInv /\ [RingNext]_ringVars => [Queue!Next]_Queue!vars
  <2>1. ASSUME RingInv, UNCHANGED ringVars PROVE UNCHANGED Queue!vars
    <3>1. contents' = contents
      BY <2>1, ContentsSame DEF RingInv, ringVars, positions
    <3> QED BY <2>1, <3>1 DEF ringVars, Queue!vars
  <2> QED BY <2>1, RefinePush, RefinePop DEF RingNext
<1> QED BY <1>1, RefineInit, RingInvariant, PTL DEF RingSpec, Queue!Spec

-----------------------------------------------------------------------------
(***************************************************************************)
(* Every step of the hand-over is a step of the buffer or leaves it alone. *)
(***************************************************************************)
LEMMA StepUsesRing == [Next]_vars => [RingNext]_ringVars
<1> SUFFICES ASSUME [Next]_vars PROVE [RingNext]_ringVars
  OBVIOUS
<1>1. ASSUME NEW p \in Producers, NEW co \in Items, HandOver(p, co)
      PROVE  RingNext
  BY <1>1 DEF HandOver, RingNext
<1>2. ASSUME NEW p \in Producers, CallerStep(p)
      PROVE  RingNext \/ UNCHANGED ringVars
  BY <1>2 DEF CallerStep, Pushing, Wakeup, RingNext
<1>3. LoopStep => RingNext \/ UNCHANGED ringVars
  BY DEF LoopStep, PollWoken, DrainRead, DrainAgain, EventsDone, Popping,
         RunDone, ActiveDone, RingNext
<1>4. PollOther \/ UNCHANGED vars => UNCHANGED ringVars
  BY DEF PollOther, vars
<1> QED BY <1>1, <1>2, <1>3, <1>4 DEF Next

THEOREM HandoffUsesRing == Safety => RingSpec
<1>1. Init => RingInit
  BY DEF Init
<1> QED BY <1>1, StepUsesRing, PTL DEF Safety, RingSpec

(***************************************************************************)
(* With one calling thread the pending tasks are the first-in first-out    *)
(* queue of BoundedFIFO.                                                   *)
(***************************************************************************)
THEOREM HandoffIsFIFO == SingleProducer => (Safety => ImplementsFIFO)
<1> SUFFICES ASSUME SingleProducer PROVE Safety => ImplementsFIFO
  OBVIOUS
<1> QED BY HandoffUsesRing, RingImplementsFIFO

-----------------------------------------------------------------------------
(***************************************************************************)
(* The invariant behind NoSleepWithWork.  pop() runs only in the pending   *)
(* phase and its copy of the read position is current; once it has found   *)
(* the buffer empty, the buffer stays so until a push, whose caller still  *)
(* owes a write to the eventfd, and only the events phase drains that.     *)
(***************************************************************************)
Owed == wake_fd \/ \E p \in Producers : caller[p] = "wakeup"

WakeInv ==
    /\ caller \in [Producers -> {"ready", "pushing", "wakeup"}]
    /\ pop_pc # "idle" => loop_pc = "pending" /\ current_read_pos = m_read_pos
    /\ loop_pc \in {"active", "poll"} /\ m_read_pos # m_write_pos => Owed

LEMMA WakeInit == Init => WakeInv
BY DEF Init, RingInit, WakeInv

LEMMA CallerWakeInv ==
    ASSUME WakeInv, NEW p \in Producers,
           CallerStep(p) \/ \E co \in Items : HandOver(p, co)
    PROVE  WakeInv'
<1> USE DEF WakeInv, Owed, loopVars, positions, popVars
<1>1. ASSUME NEW co \in Items, HandOver(p, co) PROVE WakeInv'
  BY <1>1 DEF HandOver, PushLoad
<1>2. ASSUME Pushing(p), ~PushPublish(p) PROVE WakeInv'
  BY <1>2 DEF Pushing, PushStep, PushRefuse, PushCheck, PushWrite
<1>3. ASSUME Pushing(p), PushPublish(p) PROVE WakeInv'
  <2>1. caller'[p] = "wakeup"
    BY <1>3 DEF Pushing
  <2> QED BY <1>3, <2>1 DEF Pushing, PushPublish
<1>4. CASE Wakeup(p)
  BY <1>4 DEF Wakeup, ringVars
<1> QED BY <1>1, <1>2, <1>3, <1>4 DEF CallerStep

LEMMA LoopWakeInv ==
    ASSUME WakeInv, LoopStep \/ PollOther \/ UNCHANGED vars
    PROVE  WakeInv'
<1> USE DEF WakeInv, Owed, ringVars, positions, popVars
<1>1. ASSUME Popping PROVE WakeInv'
  <2>1. CASE PopLoad
    BY <1>1, <2>1 DEF Popping, PopLoad, PopRelease, PopNothing
  <2>2. CASE PopNothing
    BY <1>1, <2>2 DEF Popping, PopNothing, PopRelease
  <2>3. CASE PopCheck \/ PopRead
    BY <1>1, <2>3 DEF Popping, PopCheck, PopRead, PopRelease, PopNothing
  <2>4. CASE PopRelease
    BY <1>1, <2>4 DEF Popping, PopRelease, PopNothing
  <2>5. PopLoad \/ PopNothing \/ PopCheck \/ PopRead \/ PopRelease
    BY <1>1 DEF Popping, PopStep
  <2> HIDE DEF WakeInv
  <2> QED BY <2>1, <2>2, <2>3, <2>4, <2>5
<1>2. ASSUME PollWoken \/ PollOther \/ DrainRead \/ DrainAgain \/ EventsDone
      PROVE  WakeInv'
  BY <1>2 DEF PollWoken, PollOther, DrainRead, DrainAgain, EventsDone
<1>3. ASSUME RunDone \/ ActiveDone PROVE WakeInv'
  BY <1>3 DEF RunDone, ActiveDone
<1>4. ASSUME UNCHANGED vars PROVE WakeInv'
  BY <1>4 DEF vars, loopVars
<1> QED BY <1>1, <1>2, <1>3, <1>4 DEF LoopStep

(***************************************************************************)
(* The loop never sleeps over a pending coroutine that no write to its     *)
(* eventfd announces, for any number of threads that push.                 *)
(***************************************************************************)
THEOREM WakeupNotLost == Safety => []NoSleepWithWork
<1>1. WakeInv /\ [Next]_vars => WakeInv'
  BY CallerWakeInv, LoopWakeInv DEF Next
<1>2. WakeInv => NoSleepWithWork
  BY DEF WakeInv, Owed, NoSleepWithWork
<1> QED BY WakeInit, <1>1, <1>2, PTL DEF Safety
-----------------------------------------------------------------------------
(***************************************************************************)
(* Types, which do not need a single producer either.                      *)
(***************************************************************************)
LEMMA TypeInit == Init => TypeOK
<1> SUFFICES ASSUME Init PROVE TypeOK
  OBVIOUS
<1>1. RingTypeOK
  BY RingInitInv DEF Init, RingInv
<1> QED BY <1>1 DEF Init, RingInit, TypeOK

LEMMA CallerTypes ==
    ASSUME TypeOK, NEW p \in Producers,
           CallerStep(p) \/ \E co \in Items : HandOver(p, co)
    PROVE  TypeOK'
<1> USE DEF TypeOK, RingTypeOK, loopVars, positions, popVars
<1>1. ASSUME NEW co \in Items, HandOver(p, co) PROVE TypeOK'
  BY <1>1 DEF HandOver, PushLoad
<1>2. CASE Pushing(p) /\ PushRefuse(p)
  BY <1>2 DEF Pushing, PushRefuse
<1>3. CASE Pushing(p) /\ PushCheck(p)
  BY <1>3 DEF Pushing, PushCheck, PushRefuse, PushPublish
<1>4. CASE Pushing(p) /\ PushWrite(p)
  BY <1>4 DEF Pushing, PushWrite, PushRefuse, PushPublish
<1>5. CASE Pushing(p) /\ PushPublish(p)
  <2>1. increment_pos(current_write_pos[p]) \in Positions
    BY IncrementPos
  <2> QED BY <1>5, <2>1 DEF Pushing, PushPublish
<1>6. CASE Wakeup(p)
  BY <1>6 DEF Wakeup, ringVars, pushVars
<1> QED BY <1>1, <1>2, <1>3, <1>4, <1>5, <1>6 DEF CallerStep, Pushing, PushStep

LEMMA LoopTypes ==
    ASSUME TypeOK, LoopStep \/ PollOther \/ UNCHANGED vars
    PROVE  TypeOK'
<1> USE DEF TypeOK, RingTypeOK, ringVars, positions, pushVars, popVars
<1>1. CASE Popping
  <2>1. CASE PopRelease
    <3>1. increment_pos(current_read_pos) \in Positions
      BY IncrementPos
    <3> QED BY <1>1, <2>1, <3>1 DEF Popping, PopRelease
  <2>2. CASE PopRead
    BY <1>1, <2>2 DEF Popping, PopRead, PopRelease, PopNothing
  <2>3. CASE PopLoad \/ PopNothing \/ PopCheck
    BY <1>1, <2>3 DEF Popping, PopLoad, PopNothing, PopCheck, PopRelease
  <2> QED BY <1>1, <2>1, <2>2, <2>3 DEF Popping, PopStep
<1>2. CASE PollWoken \/ PollOther \/ DrainRead \/ DrainAgain \/ EventsDone
  BY <1>2 DEF PollWoken, PollOther, DrainRead, DrainAgain, EventsDone
<1>3. CASE RunDone \/ ActiveDone
  BY <1>3 DEF RunDone, ActiveDone
<1>4. CASE UNCHANGED vars
  BY <1>4 DEF vars, loopVars
<1> QED BY <1>1, <1>2, <1>3, <1>4 DEF LoopStep

\* The positions stay in the buffer and a call of addCoroutine() is inside
\* push() or past it, also when several threads race in push().
THEOREM HandoffTypes == Safety => []TypeOK
<1>1. TypeOK /\ [Next]_vars => TypeOK'
  BY CallerTypes, LoopTypes DEF Next
<1> QED BY TypeInit, <1>1, PTL DEF Safety

-----------------------------------------------------------------------------
(***************************************************************************)
(* The creation of the scheduler.                                          *)
(***************************************************************************)
LEMMA StartInit == SchedInit => StartInv
<1> SUFFICES ASSUME SchedInit PROVE StartInv
  OBVIOUS
<1>1. <<>> \in Seq({"made", "looping"}) /\ <<>> \in Seq(Nat) /\ Len(<<>>) = 0
  OBVIOUS
<1>2. -1 \in -1 .. ProCnt - 1 /\ -1 \in Int
  BY ProCntAssumption
<1>3. SchedTypeOK
  BY <1>1, <1>2, CallsAssumption, NoThreadAssumption DEF SchedInit, SchedTypeOK, PCs
<1> QED
  BY <1>1, <1>3, ProCntAssumption
     DEF SchedInit, StartInv, SchedTypeOK, PCs, Starts, AllLooping

LEMMA StartTypes ==
    ASSUME StartInv, NEW t \in Threads, ThreadStep(t)
    PROVE  SchedTypeOK'
<1> USE ProCntAssumption, NoThreadAssumption
    DEF StartInv, SchedTypeOK, PCs, schedVars, localVars, Goes
<1>1. ASSUME NEW id \in -1 .. ProCnt - 1, Call(t, id) PROVE SchedTypeOK'
  <2>1. left[t] - 1 \in Nat
    BY <1>1 DEF Call
  <2> QED BY <1>1, <2>1 DEF Call
<1>2. CASE Lock(t)
  BY <1>2 DEF Lock
<1>3. CASE Found(t)
  BY <1>3 DEF Found
<1>4. CASE Create(t)
  BY <1>4 DEF Create
<1>5. CASE MakeProcessor(t)
  <2>1. Append(m_processors, "made") \in Seq({"made", "looping"})
    OBVIOUS
  <2> QED BY <1>5, <2>1 DEF MakeProcessor
<1>6. CASE StartLoop(t)
  BY <1>6 DEF StartLoop
<1>7. CASE Started(t)
  BY <1>7 DEF Started
<1>8. CASE Unlock(t)
  BY <1>8 DEF Unlock
<1>9. CASE GetById(t)
  <2>1. tid[t] \in Int
    OBVIOUS
  <2> QED BY <1>9, <2>1 DEF GetById
<1>10. CASE NoProcessors(t)
  <2>1. -1 \in Int
    OBVIOUS
  <2> QED BY <1>10, <2>1 DEF NoProcessors
<1>11. CASE Size(t)
  BY <1>11 DEF Size
<1>12. CASE Load(t)
  BY <1>12 DEF Load
<1>13. CASE Store(t)
  <2>1. loaded[t] + 1 \in Nat
    OBVIOUS
  <2> QED BY <1>13, <2>1 DEF Store
<1>14. CASE Test(t)
  BY <1>14 DEF Test
<1>15. CASE Wrap(t)
  BY <1>15 DEF Wrap
<1>16. CASE Index(t)
  <2>1. m_curpro_id \in Int
    OBVIOUS
  <2> QED BY <1>16, <2>1 DEF Index
<1>17. CASE Use(t)
  BY <1>17 DEF Use
<1> QED
  BY <1>1, <1>2, <1>3, <1>4, <1>5, <1>6, <1>7, <1>8, <1>9, <1>10, <1>11,
     <1>12, <1>13, <1>14, <1>15, <1>16, <1>17 DEF ThreadStep

(***************************************************************************)
(* A step that neither makes the scheduler nor starts a processor.         *)
(***************************************************************************)
LEMMA StartStays ==
    ASSUME StartInv, SchedTypeOK',
           UNCHANGED <<m_scheduler, m_processors, created>>,
           \A u \in Threads :
               \/ pc'[u] = pc[u]
               \/ /\ pc[u] \notin {"start", "loop"}
                  /\ pc'[u] \notin {"start", "loop"}
                  /\ pc'[u] = "unlock" => m_scheduler
    PROVE  StartInv'
<1>1. \A u \in Threads : Starts(u)' <=> Starts(u)
  BY DEF Starts
<1>2. /\ \A u \in Threads : pc'[u] = "start" => pc[u] = "start"
      /\ \A u \in Threads : pc'[u] = "loop" => pc[u] = "loop"
      /\ \A u \in Threads : pc'[u] = "unlock" => m_scheduler
  BY DEF StartInv
<1>3. AllLooping' <=> AllLooping
  BY DEF AllLooping
<1>4. m_scheduler' /\ (\A u \in Threads : ~Starts(u)') =>
          Len(m_processors') = ProCnt /\ AllLooping'
  BY <1>1, <1>3 DEF StartInv
<1>5. ~m_scheduler' =>
          m_processors' = <<>> /\ \A u \in Threads : ~Starts(u)'
  BY <1>1 DEF StartInv
<1> QED
  BY <1>2, <1>3, <1>4, <1>5 DEF StartInv

LEMMA StartStep ==
    ASSUME StartInv, [SchedNext]_coGoVars
    PROVE  StartInv'
<1> USE ProCntAssumption DEF schedVars, localVars, Goes
<1>1. CASE UNCHANGED coGoVars \/ Resting
  <2>1. SchedTypeOK'
    BY <1>1 DEF coGoVars, Resting, StartInv, SchedTypeOK
  <2>2. UNCHANGED <<m_scheduler, m_processors, created, pc>>
    BY <1>1 DEF coGoVars, Resting
  <2> QED BY <2>1, <2>2, StartStays
<1>2. ASSUME NEW t \in Threads, ThreadStep(t) PROVE StartInv'
  <2>1. SchedTypeOK'
    BY <1>2, StartTypes
  <2>2. \A u \in Threads : Starts(u) => m_sche_mutex = u
    BY DEF StartInv, SchedTypeOK, Starts
  <2>3. CASE Create(t)
    <3>1. m_processors' = <<>> /\ Len(<<>>) = 0
      BY <2>3 DEF Create, StartInv
    <3>2. pc'[t] = "start" /\ \A u \in Threads : pc'[u] # "loop"
      BY <2>3 DEF Create, StartInv, SchedTypeOK, Starts
    <3> QED
      BY <2>1, <2>3, <3>1, <3>2 DEF Create, StartInv, Starts, AllLooping
  <2>4. CASE MakeProcessor(t)
    <3>1. /\ m_scheduler /\ Len(m_processors) < ProCnt
          /\ \A i \in DOMAIN m_processors : m_processors[i] = "looping"
      BY <2>4 DEF MakeProcessor, StartInv, Starts, AllLooping
    <3>2. /\ Len(m_processors') = Len(m_processors) + 1
          /\ m_processors' # <<>>
          /\ \A i \in DOMAIN m_processors' :
                 m_processors'[i] = "made" <=> i = Len(m_processors')
      <4>1. m_processors \in Seq({"made", "looping"})
        BY DEF StartInv, SchedTypeOK
      <4>2. m_processors' = Append(m_processors, "made")
        BY <2>4 DEF MakeProcessor
      <4>3. /\ Len(m_processors') = Len(m_processors) + 1
            /\ DOMAIN m_processors' = 1 .. Len(m_processors) + 1
            /\ m_processors'[Len(m_processors) + 1] = "made"
            /\ \A i \in 1 .. Len(m_processors) :
                   m_processors'[i] = m_processors[i]
        BY <4>1, <4>2
      <4>4. DOMAIN m_processors = 1 .. Len(m_processors) /\ Len(m_processors) \in Nat
        BY <4>1
      <4>5. ASSUME NEW i \in DOMAIN m_processors'
            PROVE  m_processors'[i] = "made" <=> i = Len(m_processors')
        <5>1. CASE i = Len(m_processors) + 1
          BY <4>3, <5>1
        <5>2. CASE i \in 1 .. Len(m_processors)
          BY <3>1, <4>3, <4>4, <5>2
        <5> QED BY <4>3, <4>4, <5>1, <5>2
      <4>6. m_processors' # <<>>
        BY <4>3, <4>4
      <4> QED BY <4>3, <4>5, <4>6
    <3>3. /\ pc'[t] = "loop"
          /\ \A u \in Threads : pc'[u] \in {"start", "loop"} => u = t
      BY <2>2, <2>4 DEF MakeProcessor, StartInv, SchedTypeOK, Starts
    <3>4. m_scheduler' /\ created' = created /\ Len(m_processors') <= ProCnt
      <4>1. Len(m_processors) \in Nat
        BY DEF StartInv, SchedTypeOK
      <4> QED BY <2>4, <3>1, <3>2, <4>1 DEF MakeProcessor
    <3>5. \A u \in Threads : pc'[u] # "start"
      BY <3>3
    <3>6. \E u \in Threads : Starts(u)'
      BY <3>3 DEF Starts
    <3>7. \A u \in Threads : pc'[u] = "loop" =>
              /\ m_processors' # <<>>
              /\ \A i \in DOMAIN m_processors' :
                     m_processors'[i] = "made" <=> i = Len(m_processors')
      BY <3>2
    <3>8. created' = IF m_scheduler' THEN 1 ELSE 0
      BY <3>1, <3>4 DEF StartInv
    <3> QED
      BY <2>1, <3>4, <3>5, <3>6, <3>7, <3>8 DEF StartInv
  <2>5. CASE StartLoop(t)
    <3>1. m_scheduler /\ m_processors # <<>>
      BY <2>5 DEF StartLoop, StartInv, Starts
    <3>2. /\ Len(m_processors') = Len(m_processors)
          /\ \A i \in DOMAIN m_processors' : m_processors'[i] = "looping"
      BY <2>5, <3>1 DEF StartLoop, StartInv, SchedTypeOK
    <3>3. pc'[t] = "start" /\ \A u \in Threads : pc'[u] # "loop"
      BY <2>2, <2>5 DEF StartLoop, StartInv, SchedTypeOK, Starts
    <3> QED
      BY <2>1, <2>5, <3>1, <3>2, <3>3
         DEF StartLoop, StartInv, SchedTypeOK, Starts, AllLooping
  <2>6. CASE Started(t)
    <3>1. Len(m_processors) = ProCnt /\ AllLooping /\ m_scheduler
      BY <2>6 DEF Started, StartInv, SchedTypeOK, Starts
    <3>2. \A u \in Threads : pc'[u] \notin {"start", "loop"}
      BY <2>2, <2>6 DEF Started, StartInv, SchedTypeOK, Starts
    <3> QED
      BY <2>1, <2>6, <3>1, <3>2 DEF Started, StartInv, Starts, AllLooping
  <2>7. CASE ~(Create(t) \/ MakeProcessor(t) \/ StartLoop(t) \/ Started(t))
    <3>1. UNCHANGED <<m_scheduler, m_processors, created>>
      BY <1>2, <2>7
         DEF ThreadStep, Call, Lock, Found, Unlock, GetById, NoProcessors, Size,
             Load, Store, Test, Wrap, Index, Use
    <3>2. \A u \in Threads :
              \/ pc'[u] = pc[u]
              \/ /\ pc[u] \notin {"start", "loop"}
                 /\ pc'[u] \notin {"start", "loop"}
                 /\ pc'[u] = "unlock" => m_scheduler
      BY <1>2, <2>7
         DEF ThreadStep, Call, Lock, Found, Unlock, GetById, NoProcessors, Size,
             Load, Store, Test, Wrap, Index, Use, StartInv, SchedTypeOK
    <3> QED BY <2>1, <3>1, <3>2, StartStays
  <2> QED BY <2>3, <2>4, <2>5, <2>6, <2>7
<1> QED BY <1>1, <1>2 DEF SchedNext

\* The scheduler's creation is as StartInv says, types included.
THEOREM StartInvariant == SchedSpec => []StartInv
<1>1. SchedInit => StartInv
  BY StartInit
<1>2. StartInv /\ [SchedNext]_coGoVars => StartInv'
  BY StartStep
<1> QED BY <1>1, <1>2, PTL DEF SchedSpec

\* However many threads meet in getScheduler(), one scheduler is made and each
\* processor is started once.
THEOREM OneScheduler == SchedSpec => []StartedOnce
<1>1. StartInv => StartedOnce
  <2> SUFFICES ASSUME StartInv PROVE StartedOnce
    OBVIOUS
  <2>1. created <= 1 /\ Len(m_processors) <= ProCnt
    BY DEF StartInv
  <2>2. ASSUME NEW i \in DOMAIN m_processors, m_processors[i] = "made"
        PROVE  i = Len(m_processors) /\ \E t \in Threads : pc[t] = "loop"
    <3>1. ~AllLooping /\ m_scheduler
      BY <2>2 DEF AllLooping, StartInv
    <3>2. PICK t \in Threads : Starts(t)
      BY <3>1 DEF StartInv
    <3>3. pc[t] = "loop"
      BY <3>1, <3>2 DEF StartInv, Starts
    <3> QED BY <2>2, <3>3 DEF StartInv
  <2> QED BY <2>1, <2>2 DEF StartedOnce
<1> QED BY <1>1, StartInvariant, PTL

\* A thread that went through the mutex finds every processor looping.
THEOREM MutexWaitsForStart == SchedSpec => []MutexMeansStarted
<1>1. StartInv => MutexMeansStarted
  <2> SUFFICES ASSUME StartInv, NEW t \in Threads, pc[t] = "unlock"
               PROVE  Len(m_processors) = ProCnt /\ AllLooping
    BY DEF MutexMeansStarted, AllLooping, StartInv, SchedTypeOK
  <2>1. m_scheduler /\ m_sche_mutex = t
    BY DEF StartInv, SchedTypeOK
  <2>2. \A u \in Threads : ~Starts(u)
    BY <2>1 DEF StartInv, SchedTypeOK, Starts
  <2> QED BY <2>1, <2>2 DEF StartInv
<1> QED BY <1>1, StartInvariant, PTL

\* Types, and that the mutex has the one owner that is between its two ends.
THEOREM SchedulerTypes == SchedSpec => []SchedTypeOK
<1>1. StartInv => SchedTypeOK
  BY DEF StartInv
<1> QED BY <1>1, StartInvariant, PTL
=============================================================================
