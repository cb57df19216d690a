----------------------------- MODULE ShardLane -----------------------------
(***************************************************************************)
(* ShardBoundedLane (src/core/shard_lanes.h) on top of SpscRing            *)
(* (src/core/inbox_spsc.h): the only path by which a packet or an egress   *)
(* envelope moves from one shard thread to another.  One producer thread   *)
(* (the source shard) runs Push, one consumer thread (the target shard)    *)
(* runs Pop; every load, store and read-modify-write of a shared word is a *)
(* step of its own, and so is every access to a ring slot.                 *)
(*                                                                         *)
(* head_ and tail_ are size_t counters that are never masked: they wrap at *)
(* CounterModulus (2^64 in the program).  An envelope is its serial number *)
(* and its ByteSize().                                                     *)
(***************************************************************************)
EXTENDS Integers, Sequences, Functions

CONSTANTS MessageCapacity,  \* the constructor's message_capacity
          ByteCapacity,     \* byte_capacity_
          CounterModulus,   \* 2^64 for std::size_t
          Sizes,            \* the sizes an envelope may have
          MaxPush           \* bound: calls of Push in a behaviour

NoItem == [id |-> 0, bytes |-> 0]

VARIABLES slots,       \* SpscRing::slots_
          head, tail,  \* SpscRing::head_, tail_
          bytes,       \* ShardBoundedLane::bytes_
          high,        \* ShardBoundedLane::high_watermark_
          ppc, item, used,      \* producer: position in Push, its argument, the loaded bytes_
          cpc, out,             \* consumer: position in Pop, what it took
          calls,       \* calls of Push so far; names the envelopes
          accepted,    \* history: envelopes published, in order
          delivered    \* history: envelopes whose Pop has advanced tail_

vars == <<slots, head, tail, bytes, high, ppc, item, used, cpc, out, calls, accepted, delivered>>

(* The bit smearing of the code sets every bit below the highest bit of    *)
(* capacity - 1: the least 2^k - 1 that is not below it.                   *)
NextPow2Mask(capacity) ==
    IF capacity = 0 THEN 0
    ELSE LET masks == {2^k - 1 : k \in 0..capacity}
         IN  CHOOSE m \in masks : /\ m >= capacity - 1
                                  /\ \A n \in masks : n >= capacity - 1 => m <= n

mask == NextPow2Mask(MessageCapacity)
Capacity == mask + 1

ASSUME LaneAssumption ==
    /\ mask \in Nat
    /\ ByteCapacity \in Nat
    /\ Sizes \subseteq Nat
    /\ MaxPush \in Nat
    /\ CounterModulus \in Nat
    /\ CounterModulus > Capacity
    /\ CounterModulus % Capacity = 0

Slot(counter) == counter % Capacity
Ahead_Signed(h, t) == IF h >= t THEN h - t ELSE 0
Ahead(h, t) == (h - t) % CounterModulus      \* unsigned head - tail

Envelopes == [id : 1..MaxPush, bytes : Sizes]

Init == /\ slots = [i \in 0..mask |-> NoItem]
        /\ head = 0 /\ tail = 0 /\ bytes = 0 /\ high = 0
        /\ ppc = "idle" /\ item = NoItem /\ used = 0
        /\ cpc = "idle" /\ out = NoItem
        /\ calls = 0 /\ accepted = << >> /\ delivered = << >>

-----------------------------------------------------------------------------
(* The producer: ShardBoundedLane::Push with SpscRing::Push inside it.     *)

PushEnter(b) == /\ ppc = "idle" /\ calls < MaxPush
                /\ calls' = calls + 1
                /\ IF b > ByteCapacity
                   THEN UNCHANGED <<ppc, item, used>>
                   ELSE /\ ppc' = "reserve"
                        /\ item' = [id |-> calls + 1, bytes |-> b]
                        /\ used' = bytes
                /\ UNCHANGED <<slots, head, tail, bytes, high, cpc, out, accepted, delivered>>

PushReserve == /\ ppc = "reserve"
               /\ IF used > ByteCapacity - item.bytes
                  THEN ppc' = "idle" /\ UNCHANGED <<bytes, used>>
                  ELSE IF bytes = used
                  THEN ppc' = "load" /\ bytes' = bytes + item.bytes /\ UNCHANGED used
                  ELSE used' = bytes /\ UNCHANGED <<ppc, bytes>>
               /\ UNCHANGED <<slots, head, tail, high, item, cpc, out, calls, accepted, delivered>>

PushLoad_OffByOne ==
            /\ ppc = "load"
            /\ ppc' = IF Ahead(head, tail) > mask + 1 THEN "undo" ELSE "write"
            /\ UNCHANGED <<slots, head, tail, bytes, high, item, used, cpc, out, calls, accepted, delivered>>

PushLoad == /\ ppc = "load"
            /\ ppc' = IF Ahead(head, tail) > mask THEN "undo" ELSE "write"
            /\ UNCHANGED <<slots, head, tail, bytes, high, item, used, cpc, out, calls, accepted, delivered>>

PushWrite == /\ ppc = "write"
             /\ slots' = [slots EXCEPT ![Slot(head)] = item]
             /\ ppc' = "publish"
             /\ UNCHANGED <<head, tail, bytes, high, item, used, cpc, out, calls, accepted, delivered>>

PushPublish == /\ ppc = "publish"
               /\ head' = (head + 1) % CounterModulus
               /\ accepted' = Append(accepted, item)
               /\ ppc' = "mark"
               /\ UNCHANGED <<slots, tail, bytes, high, item, used, cpc, out, calls, delivered>>

PushMark == /\ ppc = "mark"
            /\ high' = IF used + item.bytes > high THEN used + item.bytes ELSE high
            /\ ppc' = "idle"
            /\ UNCHANGED <<slots, head, tail, bytes, item, used, cpc, out, calls, accepted, delivered>>

PushUndo_KeepsBytes ==
            /\ ppc = "undo"
            /\ ppc' = "idle"
            /\ UNCHANGED <<slots, head, tail, bytes, high, item, used, cpc, out, calls, accepted, delivered>>

PushUndo == /\ ppc = "undo"
            /\ bytes' = bytes - item.bytes
            /\ ppc' = "idle"
            /\ UNCHANGED <<slots, head, tail, high, item, used, cpc, out, calls, accepted, delivered>>

-----------------------------------------------------------------------------
(* The consumer: ShardBoundedLane::Pop with SpscRing::Pop inside it.       *)

PopLoad == /\ cpc = "idle" /\ tail # head
           /\ cpc' = "take"
           /\ UNCHANGED <<slots, head, tail, bytes, high, ppc, item, used, out, calls, accepted, delivered>>

PopTake == /\ cpc = "take"
           /\ out' = slots[Slot(tail)]
           /\ slots' = [slots EXCEPT ![Slot(tail)] = NoItem]
           /\ cpc' = "advance"
           /\ UNCHANGED <<head, tail, bytes, high, ppc, item, used, calls, accepted, delivered>>

PopAdvance == /\ cpc = "advance"
              /\ tail' = (tail + 1) % CounterModulus
              /\ delivered' = Append(delivered, out)
              /\ cpc' = "release"
              /\ UNCHANGED <<slots, head, bytes, high, ppc, item, used, out, calls, accepted>>

PopRelease == /\ cpc = "release"
              /\ bytes' = bytes - out.bytes
              /\ out' = NoItem
              /\ cpc' = "idle"
              /\ UNCHANGED <<slots, head, tail, high, ppc, item, used, calls, accepted, delivered>>

Producer == \/ PushReserve \/ PushLoad \/ PushWrite \/ PushPublish \/ PushMark \/ PushUndo
            \/ \E b \in Sizes : PushEnter(b)
Consumer == PopLoad \/ PopTake \/ PopAdvance \/ PopRelease

Next == Producer \/ Consumer

(* The target shard polls its inbound lanes on every iteration of its loop. *)
Spec == Init /\ [][Next]_vars /\ WF_vars(Consumer)

-----------------------------------------------------------------------------
(* The free-running counters stay below the modulus, and bytes_, used and    *)
(* the high watermark never pass byte_capacity_.                             *)
TypeOK == /\ slots \in [0..mask -> Envelopes \cup {NoItem}]
          /\ head \in 0..CounterModulus-1 /\ tail \in 0..CounterModulus-1
          /\ bytes \in 0..ByteCapacity /\ high \in 0..ByteCapacity
          /\ ppc \in {"idle", "reserve", "load", "write", "publish", "mark", "undo"}
          /\ item \in Envelopes \cup {NoItem} /\ used \in 0..ByteCapacity
          /\ cpc \in {"idle", "take", "advance", "release"}
          /\ out \in Envelopes \cup {NoItem}
          /\ calls \in 0..MaxPush
          /\ accepted \in Seq(Envelopes) /\ delivered \in Seq(Envelopes)

(* The envelopes in the ring, oldest first; while the consumer is between   *)
(* moving an envelope out of its slot and storing tail_, that one is in out. *)
Contents == [i \in 1..Ahead(head, tail) |->
                IF i = 1 /\ cpc = "advance" THEN out ELSE slots[Slot(tail + i - 1)]]

(* What was published is, in this order, what the consumer has taken and    *)
(* what is still in the ring: no Push is lost, duplicated or overwritten,   *)
(* also when head_ and tail_ have wrapped around.                           *)
FifoDelivery == accepted = delivered \o Contents

(* The plain (non-atomic) slot accesses of the two threads never meet: the  *)
(* slot Push is about to assign is not the one Pop is about to move from.   *)
NoSlotRace == ppc = "write" /\ cpc \in {"take", "advance"} => Slot(head) # Slot(tail)

(* bytes_ is at every moment the size of what the ring holds plus what Push *)
(* has reserved and not yet published and what Pop has taken and not yet    *)
(* given back; it never exceeds byte_capacity_ and never goes below zero.   *)
ByteAccounting ==
    /\ TypeOK
    /\ bytes = SumFunction([i \in DOMAIN Contents |-> Contents[i].bytes])
               + (IF ppc \in {"load", "write", "publish", "undo"} THEN item.bytes ELSE 0)
               + (IF cpc = "release" THEN out.bytes ELSE 0)
    /\ bytes <= ByteCapacity

(* Every envelope that Push accepted is eventually popped by the polling    *)
(* target shard.                                                            *)
EventuallyDelivered == \A n \in 1..MaxPush : Len(accepted) >= n ~> Len(delivered) >= n

(* The lane implements the bounded queue its two shards rely on, and gives  *)
(* a target that keeps polling everything it has accepted.                  *)
Fifo == INSTANCE BoundedFifo WITH q <- Contents
ImplementsFifo == Fifo!Spec /\ EventuallyDelivered
=============================================================================
