------------------------- MODULE ShardLane_proofs -------------------------
(***************************************************************************)
(* Proofs about the lane between two shards for every capacity, byte       *)
(* capacity and number of calls, and for head_ and tail_ wrapping at any   *)
(* multiple of the capacity.                                               *)
(***************************************************************************)
EXTENDS ShardLane, ArithmeticLemmas, TLAPS

-----------------------------------------------------------------------------
(* The ring: the counters are the lengths of the histories, wrapped, and a   *)
(* slot between them holds the envelope published under its number.          *)

a == Len(accepted)
d == Len(delivered)

LaneType ==
    /\ slots \in [0..mask -> Envelopes \cup {NoItem}]
    /\ ppc \in {"idle", "reserve", "load", "write", "publish", "mark", "undo"}
    /\ cpc \in {"idle", "take", "advance", "release"}
    /\ calls \in Nat
    /\ accepted \in Seq(Envelopes) /\ delivered \in Seq(Envelopes)
    /\ ppc # "idle" => item \in Envelopes

Counters ==
    /\ head = a % CounterModulus /\ tail = d % CounterModulus
    /\ d <= a /\ a - d <= Capacity
    /\ ppc \in {"write", "publish"} => a - d < Capacity
    /\ cpc \in {"take", "advance"} => d < a

Published ==
    /\ \A j \in 1..d : delivered[j] = accepted[j]
    /\ \A j \in (d + 1)..a :
          IF j = d + 1 /\ cpc = "advance" THEN out = accepted[j]
                                          ELSE slots[(j - 1) % Capacity] = accepted[j]
    /\ ppc = "publish" => slots[a % Capacity] = item

IInv == LaneType /\ Counters /\ Published

(* What the constructor guarantees of capacity, mask and counter range.      *)
LEMMA ConstantFacts ==
    /\ Capacity \in Nat \ {0} /\ Capacity = mask + 1 /\ mask \in Nat
    /\ CounterModulus \in Nat \ {0} /\ Capacity < CounterModulus /\ CounterModulus % Capacity = 0
BY LaneAssumption DEF Capacity

(* The numbers of accepted and delivered envelopes are naturals.             *)
LEMMA LengthFacts ==
  ASSUME LaneType
  PROVE  /\ a \in Nat /\ d \in Nat
         /\ DOMAIN accepted = 1..a /\ DOMAIN delivered = 1..d
         /\ \A j \in 1..a : accepted[j] \in Envelopes
BY DEF LaneType, a, d

(* What the code computes from the wrapped counters.                         *)
LEMMA CounterFacts ==
  ASSUME IInv
  PROVE  /\ Ahead(head, tail) = a - d
         /\ Slot(head) = a % Capacity
         /\ \A i \in Nat : Slot(tail + i) = (d + i) % Capacity
         /\ Slot(tail) = d % Capacity
         /\ (head = tail => a = d)
<1>1. a \in Nat /\ d \in Nat /\ d <= a /\ a - d < CounterModulus
  BY LengthFacts, ConstantFacts DEF IInv, Counters
<1>2. Ahead(head, tail) = a - d
  <2>1. ((a % CounterModulus) - (d % CounterModulus)) % CounterModulus = a - d
    <3>1. CounterModulus \in Nat \ {0} /\ a \in Int /\ d \in Int
      BY <1>1, ConstantFacts
    <3> QED BY ZenonT(60), <1>1, <3>1, Distance
  <2> QED BY ZenonT(60), <2>1 DEF IInv, Counters, Ahead
<1>3. \A n, i \in Nat : Slot((n % CounterModulus) + i) = (n + i) % Capacity
  <2> SUFFICES ASSUME NEW n \in Nat, NEW i \in Nat
               PROVE  ((n % CounterModulus) + i) % Capacity = (n + i) % Capacity
    BY ZenonT(60) DEF Slot
  <2>1. n \in Int /\ i \in Int
    OBVIOUS
  <2> QED BY ZenonT(60), <2>1, ConstantFacts, WrapSlot
<1>4. \A n \in Nat : (n % CounterModulus) \in Nat
  BY ConstantFacts, DivMod
<1>5. Slot(head) = a % Capacity /\ Slot(tail) = d % Capacity
  <2>1. \A n \in Nat : (n % CounterModulus) + 0 = n % CounterModulus /\ n + 0 = n
    BY <1>4
  <2>2. \A n \in Nat : Slot(n % CounterModulus) = n % Capacity
    BY ZenonT(60), <1>3, <2>1
  <2> QED BY ZenonT(60), <1>1, <2>2 DEF IInv, Counters
<1>6. \A i \in Nat : Slot(tail + i) = (d + i) % Capacity
  BY ZenonT(60), <1>1, <1>3 DEF IInv, Counters
<1>7. head = tail => a = d
  <2>1. d < a => d % CounterModulus # a % CounterModulus
    <3>1. CounterModulus \in Nat \ {0} /\ a \in Int /\ d \in Int
      BY <1>1, ConstantFacts
    <3> QED BY ZenonT(60), <1>1, <3>1, SlotsDiffer
  <2> QED BY <1>1, <2>1 DEF IInv, Counters
<1> QED BY ZenonT(60), <1>2, <1>5, <1>6, <1>7

(* Different numbers less than a capacity apart have different slots.        *)
LEMMA SlotNumbers ==
  ASSUME NEW m \in Nat, NEW n \in Nat, m # n, m - n < Capacity, n - m < Capacity
  PROVE  m % Capacity # n % Capacity
<1>1. m \in Int /\ n \in Int
  OBVIOUS
<1>2. CASE m < n
  BY ZenonT(60), <1>1, <1>2, ConstantFacts, SlotsDiffer
<1>3. CASE n < m
  BY ZenonT(60), <1>1, <1>3, ConstantFacts, SlotsDiffer
<1> QED BY <1>2, <1>3

(* Every counter selects a slot of the ring.                                 *)
LEMMA SlotRange == \A n \in Nat : n % Capacity \in 0..mask
<1>1. \A n \in Nat : n % Capacity \in 0..(Capacity - 1)
  BY ConstantFacts, DivMod
<1>2. Capacity - 1 = mask
  BY ConstantFacts
<1> QED BY ZenonT(60), <1>1, <1>2

-----------------------------------------------------------------------------
(* The steps of Push and Pop preserve the invariant.                         *)

(* An empty lane satisfies the invariant.                                    *)
LEMMA InitIInv == Init => IInv
<1> SUFFICES ASSUME Init PROVE IInv
  BY ZenonT(60)
<1>1. LaneType
  BY DEF Init, LaneType
<1>2. a = 0 /\ d = 0
  BY ZenonT(60) DEF Init, a, d
<1>3. Counters
  <2>1. CounterModulus \in Nat \ {0} /\ Capacity \in Nat \ {0}
    BY ZenonT(60), ConstantFacts
  <2>2. 0 % CounterModulus = 0
    BY <2>1
  <2> QED BY <1>2, <2>1, <2>2 DEF Init, Counters
<1>4. Published
  BY <1>2 DEF Init, Published
<1> QED BY ZenonT(60), <1>1, <1>3, <1>4 DEF IInv

(* A step of the producer that touches neither the ring nor its counters.    *)
LEMMA ProducerQuiet ==
  ASSUME IInv,
         UNCHANGED <<slots, head, tail, cpc, out, accepted, delivered>>,
         ppc' \in {"idle", "reserve", "load", "write", "mark", "undo"},
         ppc' = "write" => a - d < Capacity,
         ppc' # "idle" => item' \in Envelopes,
         calls' \in Nat
  PROVE  IInv'
<1>1. a' = a /\ d' = d
  BY ZenonT(60) DEF a, d
<1>2. LaneType'
  BY ZenonT(60) DEF IInv, LaneType
<1>3. Counters'
  BY ZenonT(60), <1>1 DEF IInv, Counters
<1>4. Published'
  BY ZenonT(60), <1>1 DEF IInv, Published
<1> QED BY ZenonT(60), <1>2, <1>3, <1>4 DEF IInv

(* Entering Push.                                                            *)
LEMMA PushEnterStep ==
  ASSUME IInv, NEW b \in Sizes, PushEnter(b)
  PROVE  IInv'
<1>1. calls \in Nat /\ calls' = calls + 1 /\ calls + 1 \in 1..MaxPush
  BY LaneAssumption DEF IInv, LaneType, PushEnter
<1>2. [id |-> calls + 1, bytes |-> b] \in Envelopes
  BY ZenonT(60), <1>1 DEF Envelopes
<1>3. /\ UNCHANGED <<slots, head, tail, cpc, out, accepted, delivered>>
      /\ ppc' \in {"idle", "reserve"}
      /\ ppc' # "idle" => item' \in Envelopes
  BY ZenonT(60), <1>2 DEF PushEnter
<1> QED BY <1>1, <1>3, ProducerQuiet

(* The steps of Push that move only its own program counter and the byte     *)
(* counter.                                                                  *)
LEMMA PushQuietSteps ==
  ASSUME IInv, PushReserve \/ PushLoad \/ PushMark \/ PushUndo
  PROVE  IInv'
<1>1. Ahead(head, tail) = a - d /\ a \in Nat /\ d \in Nat
  BY ZenonT(60), CounterFacts, LengthFacts DEF IInv
<1>2. PushLoad /\ ppc' = "write" => a - d < Capacity
  BY <1>1, ConstantFacts DEF PushLoad
<1>3. ppc # "idle" /\ item \in Envelopes /\ calls \in Nat
  BY ZenonT(60) DEF IInv, LaneType, PushReserve, PushLoad, PushMark, PushUndo
<1>4. CASE PushReserve
  BY ZenonT(60), <1>3, <1>4, ProducerQuiet DEF PushReserve
<1>5. CASE PushLoad
  BY ZenonT(60), <1>2, <1>3, <1>5, ProducerQuiet DEF PushLoad
<1>6. CASE PushMark
  BY ZenonT(60), <1>3, <1>6, ProducerQuiet DEF PushMark
<1>7. CASE PushUndo
  BY ZenonT(60), <1>3, <1>7, ProducerQuiet DEF PushUndo
<1> QED BY ZenonT(60), <1>4, <1>5, <1>6, <1>7

(* The slot that Push assigns holds nothing that is still to be popped.      *)
LEMMA PushWriteStep ==
  ASSUME IInv, PushWrite
  PROVE  IInv'
<1>1. /\ ppc = "write" /\ ppc' = "publish" /\ slots' = [slots EXCEPT ![a % Capacity] = item]
      /\ UNCHANGED <<head, tail, item, cpc, out, calls, accepted, delivered>>
  BY ZenonT(60), CounterFacts DEF PushWrite
<1>2. a' = a /\ d' = d
  BY ZenonT(60), <1>1 DEF a, d
<1>3. a \in Nat /\ d \in Nat /\ d <= a /\ a - d < Capacity /\ Capacity \in Nat
  BY ZenonT(60), <1>1, LengthFacts, ConstantFacts DEF IInv, Counters
<1>4. a % Capacity \in 0..mask /\ item \in Envelopes
  BY ZenonT(60), <1>1, <1>3, SlotRange DEF IInv, LaneType
<1>5. LaneType'
  BY ZenonT(60), <1>1, <1>4 DEF IInv, LaneType
<1>6. Counters'
  BY ZenonT(60), <1>1, <1>2 DEF IInv, Counters
<1>7. Published'
  <2>1. slots'[a % Capacity] = item
    BY ZenonT(60), <1>1, <1>4 DEF IInv, LaneType
  <2>2. ASSUME NEW j \in (d + 1)..a PROVE slots'[(j - 1) % Capacity] = slots[(j - 1) % Capacity]
    <3>1. j - 1 \in Nat /\ j - 1 # a /\ a - (j - 1) < Capacity /\ (j - 1) - a < Capacity
      BY <1>3
    <3>2. (j - 1) % Capacity # a % Capacity
      BY ZenonT(60), <1>3, <3>1, SlotNumbers
    <3>3. (j - 1) % Capacity \in 0..mask
      BY ZenonT(60), <3>1, SlotRange
    <3> QED BY ZenonT(60), <1>1, <1>4, <3>2, <3>3 DEF IInv, LaneType
  <2> QED BY ZenonT(60), <1>1, <1>2, <2>1, <2>2 DEF IInv, Published
<1> QED BY ZenonT(60), <1>5, <1>6, <1>7 DEF IInv

(* The release store of head makes the written slot visible.                 *)
LEMMA PushPublishStep ==
  ASSUME IInv, PushPublish
  PROVE  IInv'
<1>1. /\ ppc = "publish" /\ ppc' = "mark"
      /\ head' = (head + 1) % CounterModulus /\ accepted' = Append(accepted, item)
      /\ UNCHANGED <<slots, tail, item, cpc, out, calls, delivered>>
  BY ZenonT(60) DEF PushPublish
<1>2. a \in Nat /\ d \in Nat /\ d <= a /\ a - d < Capacity /\ Capacity \in Nat /\ item \in Envelopes
  BY ZenonT(60), <1>1, LengthFacts, ConstantFacts DEF IInv, Counters, LaneType
<1>3. /\ accepted \in Seq(Envelopes) /\ accepted' \in Seq(Envelopes) /\ a' = a + 1 /\ d' = d
      /\ accepted'[a + 1] = item /\ \A j \in 1..a : accepted'[j] = accepted[j]
  BY <1>1, <1>2 DEF IInv, LaneType, a, d
<1>4. LaneType'
  BY ZenonT(60), <1>1, <1>2, <1>3 DEF IInv, LaneType
<1>5. Counters'
  <2>1. (head + 1) % CounterModulus = (a + 1) % CounterModulus
    <3>1. CounterModulus \in Nat \ {0} /\ a \in Int /\ 1 \in Int
      BY <1>2, ConstantFacts
    <3>2. ((a % CounterModulus) + 1) % CounterModulus = (a + 1) % CounterModulus
      BY ZenonT(60), <3>1, WrapAdd
    <3> QED BY ZenonT(60), <3>2 DEF IInv, Counters
  <2>2. d' <= a' /\ a' - d' <= Capacity /\ (d < a => d' < a')
    BY <1>2, <1>3
  <2> QED BY ZenonT(60), <1>1, <1>3, <2>1, <2>2 DEF IInv, Counters
<1>6. Published'
  <2>1. \A j \in 1..d' : delivered'[j] = accepted'[j]
    <3>1. \A j \in 1..d : j \in 1..a
      BY <1>2
    <3>2. \A j \in 1..d : delivered[j] = accepted[j]
      BY ZenonT(60) DEF IInv, Published
    <3> QED BY ZenonT(60), <1>1, <1>3, <3>1, <3>2
  <2>2. ASSUME NEW j \in (d' + 1)..a'
        PROVE  IF j = d' + 1 /\ cpc' = "advance" THEN out' = accepted'[j]
                                                 ELSE slots'[(j - 1) % Capacity] = accepted'[j]
    <3>1. CASE j \in (d + 1)..a
      <4>1. accepted'[j] = accepted[j]
        BY <1>2, <1>3, <3>1
      <4> QED BY ZenonT(60), <1>1, <1>3, <3>1, <4>1 DEF IInv, Published
    <3>2. CASE j = a + 1
      <4>0. cpc' = "advance" => d < a
        BY ZenonT(60), <1>1 DEF IInv, Counters
      <4>1. j - 1 = a /\ ~(j = d' + 1 /\ cpc' = "advance")
        BY SMTT(60), <1>2, <1>3, <3>2, <4>0
      <4> QED BY ZenonT(60), <1>1, <1>3, <3>2, <4>1 DEF IInv, Published
    <3> QED BY SMTT(60), <1>2, <1>3, <3>1, <3>2
  <2> QED BY ZenonT(60), <1>1, <2>1, <2>2 DEF Published
<1> QED BY ZenonT(60), <1>4, <1>5, <1>6 DEF IInv

(* Pop finds head and tail different.                                        *)
LEMMA PopLoadStep ==
  ASSUME IInv, PopLoad
  PROVE  IInv'
<1>1. /\ cpc = "idle" /\ cpc' = "take" /\ tail # head
      /\ UNCHANGED <<slots, head, tail, ppc, item, out, calls, accepted, delivered>>
  BY ZenonT(60) DEF PopLoad
<1>2. a' = a /\ d' = d /\ a \in Nat /\ d \in Nat /\ d <= a
  BY ZenonT(60), <1>1, LengthFacts DEF IInv, Counters, a, d
<1>3. d < a
  BY <1>1, <1>2 DEF IInv, Counters
<1>4. LaneType' /\ Counters' /\ Published'
  BY ZenonT(60), <1>1, <1>2, <1>3 DEF IInv, LaneType, Counters, Published
<1> QED BY ZenonT(60), <1>4 DEF IInv

(* Moving out of the slot at tail leaves the other published slots alone.    *)
LEMMA PopTakeStep ==
  ASSUME IInv, PopTake
  PROVE  IInv'
<1>1. /\ cpc = "take" /\ cpc' = "advance"
      /\ out' = slots[d % Capacity] /\ slots' = [slots EXCEPT ![d % Capacity] = NoItem]
      /\ UNCHANGED <<head, tail, ppc, item, calls, accepted, delivered>>
  BY ZenonT(60), CounterFacts DEF PopTake
<1>2. a' = a /\ d' = d
  BY ZenonT(60), <1>1 DEF a, d
<1>3. a \in Nat /\ d \in Nat /\ d < a /\ a - d <= Capacity /\ Capacity \in Nat
  BY ZenonT(60), <1>1, LengthFacts, ConstantFacts DEF IInv, Counters
<1>4. d % Capacity \in 0..mask
  BY ZenonT(60), <1>3, SlotRange
<1>5. LaneType'
  BY ZenonT(60), <1>1, <1>4 DEF IInv, LaneType
<1>6. Counters'
  BY ZenonT(60), <1>1, <1>2, <1>3 DEF IInv, Counters
<1>7. Published'
  <2>1. out' = accepted[d + 1]
    <3>1. d + 1 \in (d + 1)..a /\ (d + 1) - 1 = d
      BY <1>3
    <3> QED BY ZenonT(60), <1>1, <3>1 DEF IInv, Published
  <2>2. \A n \in Nat : n # d /\ d - n < Capacity /\ n - d < Capacity
                         => slots'[n % Capacity] = slots[n % Capacity]
    <3> SUFFICES ASSUME NEW n \in Nat, n # d, d - n < Capacity, n - d < Capacity
                 PROVE  slots'[n % Capacity] = slots[n % Capacity]
      BY ZenonT(60)
    <3>1. n % Capacity # d % Capacity /\ n % Capacity \in 0..mask
      BY ZenonT(60), <1>3, SlotNumbers, SlotRange
    <3> QED BY ZenonT(60), <1>1, <1>4, <3>1 DEF IInv, LaneType
  <2>3. ASSUME NEW j \in (d + 1)..a, j # d + 1 PROVE slots'[(j - 1) % Capacity] = accepted[j]
    <3>1. j - 1 \in Nat /\ j - 1 # d /\ d - (j - 1) < Capacity /\ (j - 1) - d < Capacity
      BY <1>3, <2>3
    <3>2. slots'[(j - 1) % Capacity] = slots[(j - 1) % Capacity]
      BY ZenonT(60), <2>2, <3>1
    <3> QED BY ZenonT(60), <2>3, <3>2 DEF IInv, Published
  <2>4. ppc = "publish" => slots'[a % Capacity] = item
    <3>1. ppc = "publish" => a - d < Capacity /\ d - a < Capacity /\ a # d
      BY <1>3 DEF IInv, Counters
    <3> QED BY ZenonT(60), <1>3, <2>2, <3>1 DEF IInv, Published
  <2> QED BY ZenonT(60), <1>1, <1>2, <2>1, <2>3, <2>4 DEF IInv, Published
<1> QED BY ZenonT(60), <1>5, <1>6, <1>7 DEF IInv

(* The release store of tail gives the slot back.                            *)
LEMMA PopAdvanceStep ==
  ASSUME IInv, PopAdvance
  PROVE  IInv'
<1>1. /\ cpc = "advance" /\ cpc' = "release"
      /\ tail' = (tail + 1) % CounterModulus /\ delivered' = Append(delivered, out)
      /\ UNCHANGED <<slots, head, ppc, item, out, calls, accepted>>
  BY ZenonT(60) DEF PopAdvance
<1>2. a \in Nat /\ d \in Nat /\ d < a /\ a - d <= Capacity /\ Capacity \in Nat
  BY ZenonT(60), <1>1, LengthFacts, ConstantFacts DEF IInv, Counters
<1>3. out = accepted[d + 1] /\ out \in Envelopes
  <2>1. d + 1 \in (d + 1)..a /\ d + 1 \in 1..a
    BY <1>2
  <2> QED BY ZenonT(60), <1>1, <2>1, LengthFacts DEF IInv, Published
<1>4. /\ delivered \in Seq(Envelopes) /\ delivered' \in Seq(Envelopes) /\ d' = d + 1 /\ a' = a
      /\ delivered'[d + 1] = out /\ \A j \in 1..d : delivered'[j] = delivered[j]
  BY <1>1, <1>3 DEF IInv, LaneType, a, d
<1>5. LaneType'
  BY ZenonT(60), <1>1, <1>4 DEF IInv, LaneType
<1>6. Counters'
  <2>1. (tail + 1) % CounterModulus = (d + 1) % CounterModulus
    <3>1. CounterModulus \in Nat \ {0} /\ d \in Int /\ 1 \in Int
      BY <1>2, ConstantFacts
    <3>2. ((d % CounterModulus) + 1) % CounterModulus = (d + 1) % CounterModulus
      BY ZenonT(60), <3>1, WrapAdd
    <3> QED BY ZenonT(60), <3>2 DEF IInv, Counters
  <2>2. d' <= a' /\ a' - d' <= Capacity /\ (a - d < Capacity => a' - d' < Capacity)
    BY <1>2, <1>4
  <2> QED BY ZenonT(60), <1>1, <1>4, <2>1, <2>2 DEF IInv, Counters
<1>7. Published'
  <2>1. \A j \in 1..d' : delivered'[j] = accepted'[j]
    <3>1. \A j \in 1..d' : j \in 1..d \/ j = d + 1
      BY <1>2, <1>4
    <3>2. \A j \in 1..d : delivered[j] = accepted[j]
      BY ZenonT(60) DEF IInv, Published
    <3> QED BY ZenonT(60), <1>1, <1>3, <1>4, <3>1, <3>2
  <2>2. \A j \in (d' + 1)..a' : j \in (d + 1)..a /\ j # d + 1
    BY <1>2, <1>4
  <2> QED BY ZenonT(60), <1>1, <1>4, <2>1, <2>2 DEF IInv, Published
<1> QED BY ZenonT(60), <1>5, <1>6, <1>7 DEF IInv

(* Giving back the bytes.                                                    *)
LEMMA PopReleaseStep ==
  ASSUME IInv, PopRelease
  PROVE  IInv'
<1>1. /\ cpc = "release" /\ cpc' = "idle"
      /\ UNCHANGED <<slots, head, tail, ppc, item, calls, accepted, delivered>>
  BY ZenonT(60) DEF PopRelease
<1>2. a' = a /\ d' = d
  BY ZenonT(60), <1>1 DEF a, d
<1>3. LaneType' /\ Counters' /\ Published'
  BY ZenonT(60), <1>1, <1>2 DEF IInv, LaneType, Counters, Published
<1> QED BY ZenonT(60), <1>3 DEF IInv

(* Every step preserves the invariant.                                       *)
LEMMA NextIInv == IInv /\ [Next]_vars => IInv'
<1> SUFFICES ASSUME IInv, [Next]_vars PROVE IInv'
  BY ZenonT(60)
<1>1. CASE UNCHANGED vars
  <2>1. a' = a /\ d' = d
    BY ZenonT(60), <1>1 DEF vars, a, d
  <2> QED BY ZenonT(60), <1>1, <2>1 DEF vars, IInv, LaneType, Counters, Published
<1>2. CASE Producer
  BY ZenonT(60), <1>2, PushEnterStep, PushQuietSteps, PushWriteStep, PushPublishStep DEF Producer
<1>3. CASE Consumer
  BY ZenonT(60), <1>3, PopLoadStep, PopTakeStep, PopAdvanceStep, PopReleaseStep DEF Consumer
<1> QED BY ZenonT(60), <1>1, <1>2, <1>3 DEF Next

(* The inductive invariant of the lane: head and tail are the wrapped        *)
(* numbers of published and popped envelopes, at most Capacity apart, and    *)
(* the slots between them hold what Push published.                          *)
THEOREM Invariance == Spec => []IInv
<1> QED BY InitIInv, NextIInv, PTL DEF Spec

(* The non-atomic slot accesses of Push and Pop never meet, for every        *)
(* capacity and however often the counters have wrapped.                     *)
THEOREM SlotsNeverRace == Spec => []NoSlotRace
<1>1. IInv => NoSlotRace
  <2> SUFFICES ASSUME IInv, ppc = "write", cpc \in {"take", "advance"}
               PROVE  Slot(head) # Slot(tail)
    BY ZenonT(60) DEF NoSlotRace
  <2>1. a \in Nat /\ d \in Nat /\ a # d /\ a - d < Capacity /\ d - a < Capacity
    BY LengthFacts, ConstantFacts DEF IInv, Counters
  <2>2. a % Capacity # d % Capacity
    BY ZenonT(60), <2>1, SlotNumbers
  <2> QED BY ZenonT(60), <2>2, CounterFacts
<1> QED BY <1>1, Invariance, PTL

(* What the ring holds, by the numbers under which it was published.         *)
Window == [i \in 1..(a - d) |-> accepted[d + i]]

LEMMA ContentsAre == IInv => Contents = Window
<1> SUFFICES ASSUME IInv PROVE Contents = Window
  BY ZenonT(60)
<1>1. a \in Nat /\ d \in Nat /\ d <= a
  BY ZenonT(60), LengthFacts DEF IInv, Counters
<1>2. Contents = [i \in 1..(a - d) |->
                    IF i = 1 /\ cpc = "advance" THEN out ELSE slots[Slot(tail + i - 1)]]
  BY ZenonT(60), CounterFacts DEF Contents
<1>3. ASSUME NEW i \in 1..(a - d) PROVE Contents[i] = accepted[d + i]
  <2>1. d + i \in (d + 1)..a /\ (d + i) - 1 = d + (i - 1) /\ i - 1 \in Nat
    BY <1>1
  <2>2. Slot(tail + (i - 1)) = (d + (i - 1)) % Capacity
    BY ZenonT(60), <2>1, CounterFacts
  <2>3. tail + i - 1 = tail + (i - 1)
    <3>1. tail \in Int
      <4>1. CounterModulus \in Nat \ {0} /\ d \in Int
        BY <1>1, ConstantFacts
      <4> QED BY <4>1, DivMod DEF IInv, Counters
    <3> QED BY ZenonT(60), <3>1, <2>1
  <2>4. IF i = 1 /\ cpc = "advance" THEN out = accepted[d + i]
                                    ELSE slots[(d + (i - 1)) % Capacity] = accepted[d + i]
    BY <1>1, <2>1 DEF IInv, Published
  <2> QED BY ZenonT(60), <1>2, <2>2, <2>3, <2>4
<1>4. Contents = [i \in 1..(a - d) |-> Contents[i]]
  BY ZenonT(60), <1>2
<1> HIDE DEF Contents
<1> QED BY ZenonT(60), <1>3, <1>4 DEF Window

(* ... which is a sequence of envelopes.                                     *)
LEMMA WindowType ==
  ASSUME IInv
  PROVE  Window \in Seq(Envelopes) /\ Len(Window) = a - d
<1>1. /\ a \in Nat /\ d \in Nat /\ d <= a
      /\ \A j \in 1..a : accepted[j] \in Envelopes
  BY ZenonT(60), LengthFacts DEF IInv, Counters
<1>2. a - d \in Nat /\ \A i \in 1..(a - d) : d + i \in 1..a
  BY <1>1
<1>3. Window \in [1..(a - d) -> Envelopes]
  BY ZenonT(60), <1>1, <1>2 DEF Window
<1> QED BY <1>2, <1>3

(* The envelopes popped and those in the ring are, in order, exactly those   *)
(* that Push published.                                                      *)
THEOREM LaneIsFifo == Spec => []FifoDelivery
<1>1. IInv => FifoDelivery
  <2> SUFFICES ASSUME IInv PROVE accepted = delivered \o Window
    BY ZenonT(60), ContentsAre DEF FifoDelivery
  <2>1. /\ a \in Nat /\ d \in Nat /\ d <= a /\ accepted \in Seq(Envelopes)
        /\ delivered \in Seq(Envelopes)
    BY ZenonT(60), LengthFacts DEF IInv, Counters, LaneType
  <2>2. Window \in Seq(Envelopes) /\ Len(Window) = a - d
    BY ZenonT(60), WindowType
  <2>5. \A j \in 1..a : (delivered \o Window)[j] = accepted[j]
    <3> SUFFICES ASSUME NEW j \in 1..a PROVE (delivered \o Window)[j] = accepted[j]
      BY ZenonT(60)
    <3>1. CASE j <= d
      BY <2>1, <2>2, <3>1 DEF IInv, Published, d
    <3>2. CASE j > d
      <4>1. j - d \in 1..(a - d) /\ d + (j - d) = j
        BY <2>1, <3>2
      <4>2. Window[j - d] = accepted[j]
        BY ZenonT(60), <4>1 DEF Window
      <4>3. (delivered \o Window)[j] = Window[j - d]
        BY <2>1, <2>2, <3>2, <4>1 DEF d
      <4> QED BY ZenonT(60), <4>2, <4>3
    <3>3. j <= d \/ j > d
      BY <2>1
    <3> QED BY ZenonT(60), <3>1, <3>2, <3>3
  <2>6. delivered \o Window \in Seq(Envelopes) /\ Len(delivered \o Window) = a
    BY <2>1, <2>2 DEF d
  <2>7. \A s \in Seq(Envelopes) : s = [j \in 1..Len(s) |-> s[j]]
    OBVIOUS
  <2>8. Len(accepted) = a
    BY ZenonT(60) DEF a
  <2> QED BY ZenonT(60), <2>1, <2>5, <2>6, <2>7, <2>8
<1> QED BY <1>1, Invariance, PTL

-----------------------------------------------------------------------------
(* The byte budget.                                                          *)

Octets(s) == SumFunction([i \in DOMAIN s |-> s[i].bytes])
Reserved == IF ppc \in {"load", "write", "publish", "undo"} THEN item.bytes ELSE 0
Taken == IF cpc = "release" THEN out.bytes ELSE 0

(* An envelope has a size.                                                   *)
LEMMA EnvelopeBytes == \A e \in Envelopes \cup {NoItem} : e.bytes \in Nat /\ e.bytes \in Int
<1>1. \A e \in Envelopes : e.bytes \in Sizes
  BY SMT DEF Envelopes
<1>2. NoItem.bytes = 0
  BY SMT DEF NoItem
<1>3. \A n \in Sizes : n \in Nat /\ n \in Int
  BY LaneAssumption
<1>4. 0 \in Nat /\ 0 \in Int
  BY SMT
<1> QED BY ZenonT(60), <1>1, <1>2, <1>3, <1>4

(* A sequence is determined by its length and its elements.                  *)
LEMMA SequenceIs ==
  ASSUME NEW s \in Seq(Envelopes)
  PROVE  s = [j \in 1..Len(s) |-> s[j]]
OBVIOUS

(* The sum over a sequence, by its length.                                   *)
LEMMA OctetsAre ==
  ASSUME NEW s \in Seq(Envelopes)
  PROVE  /\ Octets(s) = SumFunctionOnSet([i \in 1..Len(s) |-> s[i].bytes], 1..Len(s))
         /\ \A i \in 1..Len(s) : [j \in 1..Len(s) |-> s[j].bytes][i] = s[i].bytes
         /\ \A i \in 1..Len(s) : s[i].bytes \in Nat /\ s[i].bytes \in Int
<1>1. DOMAIN s = 1..Len(s)
  OBVIOUS
<1>2. DOMAIN [i \in 1..Len(s) |-> s[i].bytes] = 1..Len(s)
  BY ZenonT(60)
<1>3. \A i \in 1..Len(s) : s[i] \in Envelopes
  OBVIOUS
<1>4. \A e \in Envelopes : e.bytes \in Nat /\ e.bytes \in Int
  BY EnvelopeBytes
<1> QED BY ZenonT(60), <1>1, <1>2, <1>3, <1>4 DEF Octets, SumFunction

LEMMA OctetsType ==
  ASSUME NEW s \in Seq(Envelopes)
  PROVE  Octets(s) \in Nat
<1> DEFINE f == [i \in 1..Len(s) |-> s[i].bytes]
           S == 1..Len(s)
<1>1. IsFiniteSet(S)
  BY FS_Interval
<1>2. \A i \in S : f[i] \in Nat
  BY ZenonT(60), OctetsAre
<1>3. Octets(s) = SumFunctionOnSet(f, S)
  BY ZenonT(60), OctetsAre
<1> HIDE DEF f, S
<1> QED BY ZenonT(60), <1>1, <1>2, <1>3, SumNat

LEMMA OctetsEmpty == Octets(<< >>) = 0
<1>1. << >> \in Seq(Envelopes) /\ 1..Len(<< >>) = {}
  OBVIOUS
<1> QED BY ZenonT(60), <1>1, OctetsAre, SumEmpty

(* A published envelope adds its bytes ...                                   *)
LEMMA OctetsAppend ==
  ASSUME NEW s \in Seq(Envelopes), NEW e \in Envelopes
  PROVE  Octets(Append(s, e)) = e.bytes + Octets(s)
<1> DEFINE t == Append(s, e)
           f == [i \in 1..Len(t) |-> t[i].bytes]
           g == [i \in 1..Len(s) |-> s[i].bytes]
<1>1. PICK n \in Nat : n = Len(s)
  OBVIOUS
<1>2. t \in Seq(Envelopes) /\ Len(t) = n + 1 /\ t[n + 1] = e /\ \A i \in 1..n : t[i] = s[i]
  BY <1>1
<1>3. n + 1 \in 1..(n + 1) /\ \A i \in 1..n : i \in 1..(n + 1)
  BY SMT
<1> HIDE DEF t
<1>4. /\ Octets(t) = SumFunctionOnSet(f, 1..(n + 1)) /\ f[n + 1] = e.bytes
      /\ \A i \in 1..(n + 1) : f[i] \in Int
  BY ZenonT(60), <1>2, <1>3, OctetsAre
<1>5. Octets(s) = SumFunctionOnSet(g, 1..n) /\ \A i \in 1..n : g[i] \in Int /\ g[i] = s[i].bytes
  BY ZenonT(60), <1>1, OctetsAre
<1>6. \A i \in 1..n : f[i] = g[i]
  BY ZenonT(60), <1>2, <1>3, <1>5
<1>7. IsFiniteSet(1..n)
  BY FS_Interval
<1> HIDE DEF f, g
<1>8. SumFunctionOnSet(f, 1..(n + 1)) = f[n + 1] + SumFunctionOnSet(f, 1..n)
  BY ZenonT(60), <1>4, SumLast
<1>9. SumFunctionOnSet(f, 1..n) = SumFunctionOnSet(g, 1..n)
  BY ZenonT(60), <1>5, <1>6, <1>7, SumCongruent
<1> QED BY ZenonT(60), <1>4, <1>5, <1>8, <1>9 DEF t

(* ... and a popped one takes its bytes away.                                *)
LEMMA OctetsTail ==
  ASSUME NEW s \in Seq(Envelopes), s # << >>
  PROVE  Octets(s) = s[1].bytes + Octets(Tail(s))
<1> DEFINE t == Tail(s)
           f == [i \in 1..Len(s) |-> s[i].bytes]
           g == [i \in 1..Len(t) |-> t[i].bytes]
<1>1. PICK n \in Nat : n + 1 = Len(s)
  <2>1. Len(s) - 1 \in Nat /\ (Len(s) - 1) + 1 = Len(s)
    OBVIOUS
  <2> QED BY ZenonT(60), <2>1
<1>2. t \in Seq(Envelopes) /\ Len(t) = n /\ \A i \in 1..n : t[i] = s[i + 1]
  BY <1>1
<1>3. 1 \in 1..(n + 1) /\ \A i \in 1..n : i + 1 \in 1..(n + 1)
  BY SMT
<1> HIDE DEF t
<1>4. /\ Octets(s) = SumFunctionOnSet(f, 1..(n + 1))
      /\ \A i \in 1..(n + 1) : f[i] \in Int /\ f[i] = s[i].bytes
  BY ZenonT(60), <1>1, OctetsAre
<1>5. Octets(t) = SumFunctionOnSet(g, 1..n) /\ \A i \in 1..n : g[i] = t[i].bytes
  BY ZenonT(60), <1>2, OctetsAre
<1>6. \A i \in 1..n : g[i] = f[i + 1]
  BY ZenonT(60), <1>2, <1>3, <1>4, <1>5
<1> HIDE DEF f, g
<1>7. SumFunctionOnSet(f, 1..(n + 1)) = f[1] + SumFunctionOnSet(g, 1..n)
  BY ZenonT(60), <1>4, <1>6, SumFirst
<1> QED BY ZenonT(60), <1>3, <1>4, <1>5, <1>7 DEF t

(* The two steps that change what the ring holds.                            *)
LEMMA WindowPublish ==
  ASSUME IInv, PushPublish
  PROVE  Window' = Append(Window, item) /\ item \in Envelopes /\ a - d < Capacity
<1>1. ppc = "publish" /\ accepted' = Append(accepted, item) /\ delivered' = delivered
  BY ZenonT(60) DEF PushPublish
<1>2. a \in Nat /\ d \in Nat /\ d <= a /\ a - d < Capacity /\ item \in Envelopes
  BY ZenonT(60), <1>1, LengthFacts DEF IInv, Counters, LaneType
<1>3. a' = a + 1 /\ d' = d /\ accepted'[a + 1] = item /\ \A j \in 1..a : accepted'[j] = accepted[j]
  BY <1>1, <1>2 DEF IInv, LaneType, a, d
<1>4. Window' = [i \in 1..(a' - d') |-> accepted'[d' + i]]
  BY ZenonT(60) DEF Window
<1>5. PICK n \in Nat : n = a - d
  BY <1>2
<1>6. \A i \in 1..n : d + i \in 1..a /\ accepted'[d + i] = Window[i]
  <2>1. \A i \in 1..n : d + i \in 1..a
    BY <1>2, <1>5
  <2> QED BY ZenonT(60), <1>3, <1>5, <2>1 DEF Window
<1>7. a' - d' = n + 1 /\ d + (n + 1) = a + 1
  BY <1>2, <1>3, <1>5
<1>8. Window \in Seq(Envelopes) /\ Len(Window) = n
  BY ZenonT(60), <1>5, WindowType
<1>9. Append(Window, item) = [i \in 1..(n + 1) |-> IF i = n + 1 THEN item ELSE Window[i]]
  <2> HIDE DEF Window
  <2> DEFINE t == Append(Window, item)
  <2>1. /\ t \in Seq(Envelopes) /\ Len(t) = n + 1
        /\ \A i \in 1..(n + 1) : t[i] = IF i = n + 1 THEN item ELSE Window[i]
    BY <1>2, <1>8
  <2> HIDE DEF t
  <2> QED BY ZenonT(60), <2>1, SequenceIs DEF t
<1>10. \A i \in 1..(n + 1) : i \in 1..n \/ i = n + 1
  BY SMT
<1>11. \A i \in 1..(n + 1) : accepted'[d' + i] = IF i = n + 1 THEN item ELSE Window[i]
  BY ZenonT(60), <1>3, <1>6, <1>7, <1>10
<1> QED BY ZenonT(60), <1>2, <1>4, <1>7, <1>9, <1>11

LEMMA WindowAdvance ==
  ASSUME IInv, PopAdvance
  PROVE  Window # << >> /\ Window' = Tail(Window) /\ out = Window[1]
<1>1. cpc = "advance" /\ delivered' = Append(delivered, out) /\ accepted' = accepted
  BY ZenonT(60) DEF PopAdvance
<1>2. a \in Nat /\ d \in Nat /\ d < a
  BY ZenonT(60), <1>1, LengthFacts DEF IInv, Counters
<1>3. a' = a /\ d' = d + 1
  BY <1>1 DEF IInv, LaneType, a, d
<1>4. Window' = [i \in 1..(a - (d + 1)) |-> accepted[(d + 1) + i]]
  BY ZenonT(60), <1>1, <1>3 DEF Window
<1>5. PICK n \in Nat : a - d = n + 1 /\ a - (d + 1) = n
  <2>1. a - (d + 1) \in Nat /\ a - d = (a - (d + 1)) + 1
    BY <1>2
  <2> QED BY ZenonT(60), <2>1
<1>6. Window \in Seq(Envelopes) /\ Len(Window) = n + 1
  BY ZenonT(60), <1>5, WindowType
<1>7. \A i \in 1..n : i + 1 \in 1..(n + 1) /\ (d + 1) + i = d + (i + 1)
  BY <1>2
<1>8. \A i \in 1..n : accepted[(d + 1) + i] = Window[i + 1]
  BY ZenonT(60), <1>5, <1>7 DEF Window
<1>9. 1 \in 1..(n + 1) /\ Window[1] = accepted[d + 1]
  <2>1. 1 \in 1..(n + 1)
    BY SMT
  <2> QED BY ZenonT(60), <1>5, <2>1 DEF Window
<1>10. out = accepted[d + 1]
  <2>1. d + 1 \in (d + 1)..a
    BY <1>2
  <2> QED BY ZenonT(60), <1>1, <2>1 DEF IInv, Published
<1>11. Tail(Window) = [i \in 1..n |-> Window[i + 1]] /\ Window # << >>
  <2> HIDE DEF Window
  <2> DEFINE t == Tail(Window)
  <2>1. /\ t \in Seq(Envelopes) /\ Len(t) = n /\ Window # << >>
        /\ \A i \in 1..n : t[i] = Window[i + 1]
    BY <1>6
  <2> HIDE DEF t
  <2> QED BY ZenonT(60), <2>1, SequenceIs DEF t
<1> QED BY ZenonT(60), <1>4, <1>5, <1>8, <1>9, <1>10, <1>11

(* bytes_ is what the ring holds, what Push has reserved and what Pop has     *)
(* taken; a reservation was made against a value of bytes_ that left room.   *)
Budget ==
    /\ bytes = Octets(Window) + Reserved + Taken /\ bytes <= ByteCapacity
    /\ used \in 0..ByteCapacity /\ high \in 0..ByteCapacity
    /\ ppc \in {"load", "write", "publish", "undo", "mark"} => used + item.bytes <= ByteCapacity
    /\ item \in Envelopes \cup {NoItem} /\ out \in Envelopes \cup {NoItem}
    /\ calls <= MaxPush

(* The terms of the budget are numbers.                                      *)
LEMMA BudgetTypes ==
  ASSUME IInv, Budget
  PROVE  /\ Octets(Window) \in Nat /\ Reserved \in Nat /\ Taken \in Nat /\ bytes \in Nat
         /\ item.bytes \in Nat /\ out.bytes \in Nat /\ ByteCapacity \in Nat
         /\ used \in Nat /\ high \in Nat
<1>1. Octets(Window) \in Nat
  BY ZenonT(60), WindowType, OctetsType
<1>2. item.bytes \in Nat /\ out.bytes \in Nat
  BY ZenonT(60), EnvelopeBytes DEF Budget
<1>3. Reserved \in Nat /\ Taken \in Nat
  BY <1>2 DEF Reserved, Taken
<1>4. bytes \in Nat
  BY <1>1, <1>3 DEF Budget
<1> QED BY <1>1, <1>2, <1>3, <1>4, LaneAssumption DEF Budget

(* Steps that neither publish nor advance leave the ring's contents alone.   *)
LEMMA WindowSame ==
  ASSUME UNCHANGED <<accepted, delivered>>
  PROVE  Window' = Window
BY ZenonT(60) DEF Window, a, d

LEMMA InitBudget == Init => Budget
<1> SUFFICES ASSUME Init PROVE Budget
  BY ZenonT(60)
<1>1. Window = << >>
  BY DEF Init, Window, a, d
<1>2. Octets(Window) = 0 /\ Reserved = 0 /\ Taken = 0
  BY ZenonT(60), <1>1, OctetsEmpty DEF Init, Reserved, Taken
<1> QED BY <1>2, LaneAssumption DEF Init, Budget

(* Push reserves the bytes before it looks at the ring, and gives them back  *)
(* if the ring is full.                                                      *)
LEMMA PushBudget ==
  ASSUME IInv, Budget, Producer
  PROVE  Budget'
<1>0. /\ Octets(Window) \in Nat /\ Reserved \in Nat /\ Taken \in Nat /\ bytes \in Nat
      /\ item.bytes \in Nat /\ ByteCapacity \in Nat /\ used \in Nat /\ high \in Nat
  BY ZenonT(60), BudgetTypes
<1>1. /\ UNCHANGED <<cpc, out, delivered>> /\ Taken' = Taken
  BY ZenonT(60) DEF Producer, PushEnter, PushReserve, PushLoad, PushWrite, PushPublish, PushMark,
     PushUndo, Taken
<1>2. CASE \E b \in Sizes : PushEnter(b)
  <2>1. PICK b \in Sizes : PushEnter(b)
    BY ZenonT(60), <1>2
  <2>2. Window' = Window
    BY ZenonT(60), <2>1, WindowSame DEF PushEnter
  <2>3. ppc = "idle" /\ ppc' \in {"idle", "reserve"} /\ bytes' = bytes /\ high' = high
    BY ZenonT(60), <2>1 DEF PushEnter
  <2>4. Reserved' = Reserved
    BY ZenonT(60), <2>3 DEF Reserved
  <2>5. calls' \in Nat /\ calls' <= MaxPush /\ calls + 1 \in 1..MaxPush
    BY <2>1, LaneAssumption DEF PushEnter, IInv, LaneType
  <2>6. [id |-> calls + 1, bytes |-> b] \in Envelopes
    BY ZenonT(60), <2>5 DEF Envelopes
  <2>7. item' \in Envelopes \cup {NoItem} /\ (used' = used \/ used' = bytes)
    BY ZenonT(60), <2>1, <2>6 DEF PushEnter, Budget
  <2>8. used' \in 0..ByteCapacity
    BY <1>0, <2>7 DEF Budget
  <2>9. ppc' \notin {"load", "write", "publish", "undo", "mark"}
    BY ZenonT(60), <2>3
  <2> QED BY ZenonT(60), <1>1, <2>2, <2>3, <2>4, <2>5, <2>7, <2>8, <2>9 DEF Budget
<1>3. CASE PushReserve
  <2>1. ppc = "reserve" /\ Window' = Window /\ UNCHANGED <<high, item, calls>>
    BY ZenonT(60), <1>3, WindowSame DEF PushReserve
  <2>2. Reserved = 0
    BY ZenonT(60), <2>1 DEF Reserved
  <2>3. CASE used > ByteCapacity - item.bytes
    <3>1. ppc' = "idle" /\ UNCHANGED <<bytes, used>>
      BY ZenonT(60), <1>3, <2>3 DEF PushReserve
    <3>2. Reserved' = 0
      BY ZenonT(60), <3>1 DEF Reserved
    <3> QED BY ZenonT(60), <1>1, <2>1, <2>2, <3>1, <3>2 DEF Budget
  <2>4. CASE ~(used > ByteCapacity - item.bytes) /\ bytes = used
    <3>1. ppc' = "load" /\ bytes' = bytes + item.bytes /\ UNCHANGED used
      BY ZenonT(60), <1>3, <2>4 DEF PushReserve
    <3>2. Reserved' = item.bytes
      BY ZenonT(60), <2>1, <3>1 DEF Reserved
    <3>3. bytes' = Octets(Window) + Reserved' + Taken /\ bytes' <= ByteCapacity
          /\ used' + item'.bytes <= ByteCapacity
      BY <1>0, <2>1, <2>2, <2>4, <3>1, <3>2 DEF Budget
    <3> QED BY ZenonT(60), <1>1, <2>1, <3>1, <3>3 DEF Budget
  <2>5. CASE ~(used > ByteCapacity - item.bytes) /\ bytes # used
    <3>1. used' = bytes /\ UNCHANGED <<ppc, bytes>>
      BY ZenonT(60), <1>3, <2>5 DEF PushReserve
    <3>2. Reserved' = Reserved /\ ppc' = "reserve"
      BY ZenonT(60), <2>1, <3>1 DEF Reserved
    <3>3. used' \in 0..ByteCapacity
      BY <1>0, <3>1 DEF Budget
    <3> QED BY ZenonT(60), <1>1, <2>1, <3>1, <3>2, <3>3 DEF Budget
  <2> QED BY ZenonT(60), <2>3, <2>4, <2>5
<1>4. CASE PushLoad \/ PushWrite
  <2>1. /\ ppc \in {"load", "write"} /\ ppc' \in {"write", "undo", "publish"}
        /\ UNCHANGED <<bytes, high, item, used, calls, accepted>>
    BY ZenonT(60), <1>4 DEF PushLoad, PushWrite
  <2>2. Window' = Window /\ Reserved' = Reserved
    BY ZenonT(60), <1>1, <2>1, WindowSame DEF Reserved
  <2> QED BY ZenonT(60), <1>1, <2>1, <2>2 DEF Budget
<1>5. CASE PushPublish
  <2>1. ppc = "publish" /\ ppc' = "mark" /\ UNCHANGED <<bytes, high, item, used, calls>>
    BY ZenonT(60), <1>5 DEF PushPublish
  <2>2. Reserved = item.bytes /\ Reserved' = 0
    BY ZenonT(60), <2>1 DEF Reserved
  <2>3. Octets(Window') = item.bytes + Octets(Window)
    BY ZenonT(60), <1>5, WindowPublish, WindowType, OctetsAppend
  <2>4. bytes = Octets(Window') + Reserved' + Taken
    BY <1>0, <2>2, <2>3 DEF Budget
  <2> QED BY ZenonT(60), <1>1, <2>1, <2>4 DEF Budget
<1>6. CASE PushMark
  <2>1. /\ ppc = "mark" /\ ppc' = "idle" /\ UNCHANGED <<bytes, item, used, calls>> /\ Window' = Window
        /\ high' = IF used + item.bytes > high THEN used + item.bytes ELSE high
    BY ZenonT(60), <1>6, WindowSame DEF PushMark
  <2>2. Reserved' = Reserved
    BY ZenonT(60), <2>1 DEF Reserved
  <2>3. high' \in 0..ByteCapacity
    BY <1>0, <2>1 DEF Budget
  <2> QED BY ZenonT(60), <1>1, <2>1, <2>2, <2>3 DEF Budget
<1>7. CASE PushUndo
  <2>1. /\ ppc = "undo" /\ ppc' = "idle" /\ UNCHANGED <<high, item, used, calls>> /\ Window' = Window
        /\ bytes' = bytes - item.bytes
    BY ZenonT(60), <1>7, WindowSame DEF PushUndo
  <2>2. Reserved = item.bytes /\ Reserved' = 0
    BY ZenonT(60), <2>1 DEF Reserved
  <2>3. bytes' = Octets(Window) + Reserved' + Taken /\ bytes' <= ByteCapacity
    BY <1>0, <2>1, <2>2 DEF Budget
  <2> QED BY ZenonT(60), <1>1, <2>1, <2>3 DEF Budget
<1> QED BY ZenonT(60), <1>2, <1>3, <1>4, <1>5, <1>6, <1>7 DEF Producer

(* Pop gives the bytes back after the slot.                                  *)
LEMMA PopBudget ==
  ASSUME IInv, Budget, Consumer
  PROVE  Budget'
<1>0. /\ Octets(Window) \in Nat /\ Reserved \in Nat /\ Taken \in Nat /\ bytes \in Nat
      /\ out.bytes \in Nat /\ ByteCapacity \in Nat
  BY ZenonT(60), BudgetTypes
<1>1. UNCHANGED <<ppc, item, used, high, calls, accepted>> /\ Reserved' = Reserved
  BY ZenonT(60) DEF Consumer, PopLoad, PopTake, PopAdvance, PopRelease, Reserved
<1>2. CASE PopLoad \/ PopTake
  <2>1. cpc \in {"idle", "take"} /\ cpc' \in {"take", "advance"} /\ UNCHANGED <<bytes, delivered>>
    BY ZenonT(60), <1>2 DEF PopLoad, PopTake
  <2>2. Taken = 0 /\ Taken' = 0 /\ Window' = Window
    BY ZenonT(60), <1>1, <2>1, WindowSame DEF Taken
  <2>3. out' \in Envelopes \cup {NoItem}
    <3>1. CASE PopLoad
      BY ZenonT(60), <3>1 DEF PopLoad, Budget
    <3>2. CASE PopTake
      <4>1. Slot(tail) \in 0..mask
        BY ZenonT(60), CounterFacts, LengthFacts, SlotRange DEF IInv
      <4> QED BY ZenonT(60), <3>2, <4>1 DEF PopTake, IInv, LaneType
    <3> QED BY ZenonT(60), <1>2, <3>1, <3>2
  <2> QED BY ZenonT(60), <1>1, <2>1, <2>2, <2>3 DEF Budget
<1>3. CASE PopAdvance
  <2>1. cpc = "advance" /\ cpc' = "release" /\ UNCHANGED <<bytes, out>>
    BY ZenonT(60), <1>3 DEF PopAdvance
  <2>2. Taken = 0 /\ Taken' = out.bytes
    BY ZenonT(60), <2>1 DEF Taken
  <2>3. Octets(Window) = out.bytes + Octets(Window') /\ Octets(Window') \in Nat
    <3>1. Window \in Seq(Envelopes) /\ Window # << >> /\ Window' = Tail(Window) /\ out = Window[1]
      BY ZenonT(60), <1>3, WindowAdvance, WindowType
    <3>2. \A s \in Seq(Envelopes) : s # << >> => Tail(s) \in Seq(Envelopes)
      OBVIOUS
    <3>3. Window' \in Seq(Envelopes)
      BY ZenonT(60), <3>1, <3>2
    <3> QED BY ZenonT(60), <3>1, <3>3, OctetsTail, OctetsType
  <2>4. bytes = Octets(Window') + Reserved + Taken'
    BY <1>0, <2>2, <2>3 DEF Budget
  <2> QED BY ZenonT(60), <1>1, <2>1, <2>4 DEF Budget
<1>4. CASE PopRelease
  <2>1. cpc = "release" /\ cpc' = "idle" /\ delivered' = delivered /\ bytes' = bytes - out.bytes
        /\ out' = NoItem
    BY ZenonT(60), <1>4 DEF PopRelease
  <2>2. Taken = out.bytes /\ Taken' = 0 /\ Window' = Window
    BY ZenonT(60), <1>1, <2>1, WindowSame DEF Taken
  <2>3. bytes' = Octets(Window) + Reserved + Taken' /\ bytes' <= ByteCapacity
    BY <1>0, <2>1, <2>2 DEF Budget
  <2> QED BY ZenonT(60), <1>1, <2>1, <2>2, <2>3 DEF Budget
<1> QED BY ZenonT(60), <1>2, <1>3, <1>4 DEF Consumer

LEMMA NextBudget == IInv /\ Budget /\ [Next]_vars => Budget'
<1> SUFFICES ASSUME IInv, Budget, [Next]_vars PROVE Budget'
  BY ZenonT(60)
<1>1. CASE UNCHANGED vars
  <2>1. Window' = Window
    BY ZenonT(60), <1>1, WindowSame DEF vars
  <2> QED BY ZenonT(60), <1>1, <2>1 DEF vars, Budget, Reserved, Taken
<1> QED BY ZenonT(60), <1>1, PushBudget, PopBudget DEF Next

LEMMA BudgetInvariance == Spec => [](IInv /\ Budget)
<1>1. Init => IInv /\ Budget
  BY ZenonT(60), InitIInv, InitBudget
<1>2. (IInv /\ Budget) /\ [Next]_vars => (IInv /\ Budget)'
  BY ZenonT(60), NextIInv, NextBudget
<1> QED BY <1>1, <1>2, PTL DEF Spec

(* bytes_ is at every step the size of what the ring holds plus what Push    *)
(* has reserved and Pop has not yet given back: it never passes               *)
(* byte_capacity_ and fetch_sub never takes it below zero, for every         *)
(* capacity, whatever the interleaving of the two threads.                   *)
THEOREM BytesAreAccounted == Spec => []ByteAccounting
<1>1. IInv /\ Budget => ByteAccounting
  <2> SUFFICES ASSUME IInv, Budget PROVE ByteAccounting
    BY ZenonT(60)
  <2>1. bytes \in Nat /\ ByteCapacity \in Nat
    BY ZenonT(60), BudgetTypes
  <2>2. head \in 0..CounterModulus-1 /\ tail \in 0..CounterModulus-1
    <3>1. a \in Int /\ d \in Int /\ CounterModulus \in Nat \ {0}
      BY LengthFacts, ConstantFacts DEF IInv
    <3> QED BY ZenonT(60), <3>1, DivMod DEF IInv, Counters
  <2>3. bytes \in 0..ByteCapacity /\ calls \in 0..MaxPush
    BY <2>1, LaneAssumption DEF Budget, IInv, LaneType
  <2>4. TypeOK
    BY ZenonT(60), <2>2, <2>3 DEF TypeOK, IInv, LaneType, Budget
  <2>5. SumFunction([i \in DOMAIN Contents |-> Contents[i].bytes]) = Octets(Window)
    BY ZenonT(60), ContentsAre DEF Octets
  <2> QED BY ZenonT(60), <2>4, <2>5 DEF ByteAccounting, Budget, Reserved, Taken
<1> QED BY <1>1, BudgetInvariance, PTL

-----------------------------------------------------------------------------
(* The lane implements the bounded queue.                                    *)

(* The queue counts bytes as the lane does.                                  *)
LEMMA BytesOfIs == \A s : Fifo!BytesOf(s) = Octets(s)
BY ZenonT(60) DEF Fifo!BytesOf, Octets, Fifo!SumFunction, SumFunction, Fifo!SumFunctionOnSet,
   SumFunctionOnSet, Fifo!FoldFunctionOnSet, FoldFunctionOnSet, Fifo!MapThenFoldSet, MapThenFoldSet

(* Of all steps only the store of head_ puts an envelope in, and only the    *)
(* store of tail_ takes one out.                                             *)
LEMMA FifoStep == IInv /\ Budget /\ (Contents = Window)' /\ [Next]_vars => [Fifo!Next]_Contents
<1> SUFFICES ASSUME IInv, Budget, Contents' = Window', [Next]_vars
             PROVE  Fifo!Next \/ Contents' = Contents
  BY ZenonT(60)
<1>1. Contents = Window
  BY ZenonT(60), ContentsAre
<1>2. CASE PushPublish
  <2>1. Window' = Append(Window, item) /\ item \in Envelopes /\ a - d < Capacity
    BY ZenonT(60), <1>2, WindowPublish
  <2>2. Len(Window) = a - d
    BY ZenonT(60), WindowType
  <2>3. Octets(Window) + item.bytes <= ByteCapacity
    <3>1. ppc = "publish"
      BY ZenonT(60), <1>2 DEF PushPublish
    <3>2. Reserved = item.bytes
      BY ZenonT(60), <3>1 DEF Reserved
    <3> QED BY <3>2, BudgetTypes DEF Budget
  <2>4. Fifo!Put(item)
    BY ZenonT(60), <1>1, <2>1, <2>2, <2>3, BytesOfIs DEF Fifo!Put
  <2> QED BY ZenonT(60), <2>1, <2>4 DEF Fifo!Next
<1>3. CASE PopAdvance
  <2>1. Window # << >> /\ Window' = Tail(Window)
    BY ZenonT(60), <1>3, WindowAdvance
  <2> QED BY ZenonT(60), <1>1, <2>1 DEF Fifo!Next, Fifo!Get
<1>4. CASE ~PushPublish /\ ~PopAdvance
  <2>1. UNCHANGED <<accepted, delivered>>
    BY ZenonT(60), <1>4 DEF Next, Producer, Consumer, PushEnter, PushReserve, PushLoad, PushWrite,
       PushMark, PushUndo, PopLoad, PopTake, PopRelease, vars
  <2> QED BY ZenonT(60), <1>1, <2>1, WindowSame
<1> QED BY ZenonT(60), <1>2, <1>3, <1>4

(* Whatever the interleaving of the atomic steps of Push and Pop, and        *)
(* however often the counters wrapped, the two shards see a first-in         *)
(* first-out queue bounded in envelopes and in bytes.                        *)
THEOREM LaneImplementsFifo == Spec => Fifo!Spec
<1>1. Init => Fifo!Init
  <2> SUFFICES ASSUME Init PROVE Contents = << >>
    BY ZenonT(60) DEF Fifo!Init
  <2>1. Window = << >>
    BY DEF Init, Window, a, d
  <2> QED BY ZenonT(60), <2>1, InitIInv, ContentsAre
<1>2. IInv => Contents = Window
  BY ContentsAre
<1> QED BY <1>1, <1>2, BudgetInvariance, FifoStep, PTL DEF Spec, Fifo!Spec
=============================================================================
