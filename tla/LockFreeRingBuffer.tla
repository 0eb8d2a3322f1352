-------------------------- MODULE LockFreeRingBuffer --------------------------
(***************************************************************************)
(* LockFreeRingBuffer<T, Capacity>, the buffer of coroutines waiting to    *)
(* run on a processor, at the grain of its shared-memory accesses.         *)
(*                                                                         *)
(* push() is four steps of a producer (load m_write_pos, compare with      *)
(* m_read_pos, write the slot, store m_write_pos) and pop() four steps of  *)
(* the one consumer, the processor's loop thread.  Producers is the set of *)
(* threads that call push: the code is a correct queue for one of them,    *)
(* and the program calls it from every thread that hands a coroutine over. *)
(*                                                                         *)
(* Memory is sequentially consistent here: every access is one step and is *)
(* seen by all.  The release stores and acquire loads of the code order    *)
(* the slot's accesses with those of the positions, which is what the      *)
(* step order below relies on.                                             *)
(***************************************************************************)
EXTENDS Integers, Sequences

CONSTANTS Producers, Items, Capacity, NoItem

ASSUME CapacityAssumption == Capacity \in Nat \ {0}

VARIABLES m_read_pos, m_write_pos, m_buffer,
          push_pc,            \* producer -> where in push() it is
          push_item,          \* producer -> the argument of push()
          current_write_pos,  \* producer -> the local of that name
          pop_pc,             \* where in pop() the consumer is
          pop_item,           \* the out parameter of pop()
          current_read_pos,   \* the local of that name
          outcome             \* what the last call that returned did

positions == <<m_read_pos, m_write_pos>>
pushVars == <<push_pc, push_item, current_write_pos>>
popVars == <<pop_pc, pop_item, current_read_pos>>
ringVars == <<positions, m_buffer, pushVars, popVars, outcome>>

Positions == 0 .. Capacity - 1

(***************************************************************************)
(* What the two positions mean: the queue the buffer stands for.           *)
(***************************************************************************)
\* How many items lie between the two positions.
Count ==
    IF m_read_pos <= m_write_pos
      THEN m_write_pos - m_read_pos
      ELSE m_write_pos - m_read_pos + Capacity

\* The slot of the k-th oldest item.
SlotOf(k) ==
    IF m_read_pos + k - 1 < Capacity
      THEN m_read_pos + k - 1
      ELSE m_read_pos + k - 1 - Capacity

contents == [k \in 1 .. Count |-> m_buffer[SlotOf(k)]]

Queue == INSTANCE BoundedFIFO WITH queue <- contents, Limit <- Capacity - 1

-----------------------------------------------------------------------------
increment_posNoWrap(pos) == pos + 1
increment_pos(pos) == (pos + 1) % Capacity

RingInit ==
    /\ m_read_pos = 0
    /\ m_write_pos = 0
    /\ m_buffer = [slot \in Positions |-> NoItem]
    /\ push_pc = [p \in Producers |-> "idle"]
    /\ push_item = [p \in Producers |-> NoItem]
    /\ current_write_pos = [p \in Producers |-> 0]
    /\ pop_pc = "idle"
    /\ pop_item = NoItem
    /\ current_read_pos = 0
    /\ outcome = Queue!Idle

-----------------------------------------------------------------------------
(* bool push(const T &item) *)

PushLoad(p, item) ==
    /\ push_pc[p] = "idle"
    /\ push_item' = [push_item EXCEPT ![p] = item]
    /\ current_write_pos' = [current_write_pos EXCEPT ![p] = m_write_pos]
    /\ push_pc' = [push_pc EXCEPT ![p] = "check"]
    /\ UNCHANGED <<positions, m_buffer, popVars, outcome>>

FullSeenNever(p) == FALSE
FullSeen(p) == increment_pos(current_write_pos[p]) = m_read_pos

PushRefuse(p) ==
    /\ push_pc[p] = "check"
    /\ FullSeen(p)
    /\ push_pc' = [push_pc EXCEPT ![p] = "idle"]
    /\ outcome' = Queue!Refused(push_item[p])
    /\ UNCHANGED <<positions, m_buffer, push_item, current_write_pos, popVars>>

PushCheck(p) ==
    /\ push_pc[p] = "check"
    /\ ~FullSeen(p)
    /\ push_pc' = [push_pc EXCEPT ![p] = "write"]
    /\ UNCHANGED <<positions, m_buffer, push_item, current_write_pos, popVars,
                   outcome>>

PushWrite(p) ==
    /\ push_pc[p] = "write"
    /\ m_buffer' = [m_buffer EXCEPT ![current_write_pos[p]] = push_item[p]]
    /\ push_pc' = [push_pc EXCEPT ![p] = "publish"]
    /\ UNCHANGED <<positions, push_item, current_write_pos, popVars, outcome>>

PushPublish(p) ==
    /\ push_pc[p] = "publish"
    /\ m_write_pos' = increment_pos(current_write_pos[p])
    /\ push_pc' = [push_pc EXCEPT ![p] = "idle"]
    /\ outcome' = Queue!Pushed(push_item[p])
    /\ UNCHANGED <<m_read_pos, m_buffer, push_item, current_write_pos, popVars>>

\* The steps of a push() that has begun.
PushStep(p) == PushRefuse(p) \/ PushCheck(p) \/ PushWrite(p) \/ PushPublish(p)

-----------------------------------------------------------------------------
(* bool pop(T &item) *)

PopLoad ==
    /\ pop_pc = "idle"
    /\ current_read_pos' = m_read_pos
    /\ pop_pc' = "check"
    /\ UNCHANGED <<positions, m_buffer, pushVars, pop_item, outcome>>

PopNothing ==
    /\ pop_pc = "check"
    /\ current_read_pos = m_write_pos
    /\ pop_pc' = "idle"
    /\ outcome' = Queue!Nothing
    /\ UNCHANGED <<positions, m_buffer, pushVars, pop_item, current_read_pos>>

PopCheck ==
    /\ pop_pc = "check"
    /\ current_read_pos # m_write_pos
    /\ pop_pc' = "read"
    /\ UNCHANGED <<positions, m_buffer, pushVars, pop_item, current_read_pos,
                   outcome>>

PopReadNext ==
    /\ pop_pc = "read"
    /\ pop_item' = m_buffer[increment_pos(current_read_pos)]
    /\ pop_pc' = "release"
    /\ UNCHANGED <<positions, m_buffer, pushVars, current_read_pos, outcome>>

PopRead ==
    /\ pop_pc = "read"
    /\ pop_item' = m_buffer[current_read_pos]
    /\ pop_pc' = "release"
    /\ UNCHANGED <<positions, m_buffer, pushVars, current_read_pos, outcome>>

PopRelease ==
    /\ pop_pc = "release"
    /\ m_read_pos' = increment_pos(current_read_pos)
    /\ pop_pc' = "idle"
    /\ outcome' = Queue!Popped(pop_item)
    /\ UNCHANGED <<m_write_pos, m_buffer, pushVars, pop_item, current_read_pos>>

PopStep == PopNothing \/ PopCheck \/ PopRead \/ PopRelease

-----------------------------------------------------------------------------
RingNext ==
    \/ \E p \in Producers :
           PushStep(p) \/ \E item \in Items : PushLoad(p, item)
    \/ PopLoad
    \/ PopStep

RingSpec == RingInit /\ [][RingNext]_ringVars

-----------------------------------------------------------------------------
(* Properties *)

\* Types of the positions, the slots and the program counters.
RingTypeOK ==
    /\ m_read_pos \in Positions
    /\ m_write_pos \in Positions
    /\ m_buffer \in [Positions -> Items \cup {NoItem}]
    /\ push_pc \in [Producers -> {"idle", "check", "write", "publish"}]
    /\ push_item \in [Producers -> Items \cup {NoItem}]
    /\ current_write_pos \in [Producers -> Positions]
    /\ pop_pc \in {"idle", "check", "read", "release"}
    /\ pop_item \in Items \cup {NoItem}
    /\ current_read_pos \in Positions

\* A slot is never written by push() while pop() may be reading it: the slot
\* between the two positions that push() leaves unused keeps them apart.
NoSlotRace ==
    \A p \in Producers :
        push_pc[p] = "write" /\ pop_pc \in {"read", "release"}
            => current_write_pos[p] # current_read_pos

\* The strengthening of the invariants above that every step preserves when at
\* most one thread pushes: each side's copy of its own position is current, the
\* room a producer saw is still there, and so is the item the consumer saw.
SingleProducer == \A p, q \in Producers : p = q

ProducerView ==
    \A p \in Producers :
        /\ push_pc[p] # "idle" =>
               push_item[p] \in Items /\ current_write_pos[p] = m_write_pos
        /\ push_pc[p] \in {"write", "publish"} =>
               increment_pos(m_write_pos) # m_read_pos
        /\ push_pc[p] = "publish" => m_buffer[m_write_pos] = push_item[p]

ConsumerView ==
    /\ pop_pc # "idle" => current_read_pos = m_read_pos
    /\ pop_pc \in {"read", "release"} => m_read_pos # m_write_pos
    /\ pop_pc = "release" => pop_item = m_buffer[m_read_pos]

RingInv == RingTypeOK /\ ProducerView /\ ConsumerView

\* The buffer is the queue its users take it for: a push is refused only when
\* Capacity - 1 items wait, a pop finds nothing only when none waits, and
\* every accepted item comes out once, in order.  True with one producer.
ImplementsFIFO == Queue!Spec
=============================================================================
