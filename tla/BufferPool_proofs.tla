------------------------- MODULE BufferPool_proofs --------------------------
(***************************************************************************)
(* Proofs about PktBufferPool for any number of slots, threads, calls and  *)
(* references: no interleaving of the lock-free list with the mutex path   *)
(* hands a slot out twice, breaks the list, aborts, or makes outstanding_  *)
(* wrong.  First the inductive invariant, the facts about sequences it     *)
(* rests on, and the steps that move no slot; then the two                 *)
(* compare-and-swaps on free_head_ and the reference count, the leases,    *)
(* the steps under the mutex, and the theorems.                            *)
(***************************************************************************)
EXTENDS BufferPool, FiniteSetTheorems, TLAPS

(* What a thread holds between two of its steps.  A head that was loaded    *)
(* earlier never has a later tag, so while it still equals free_head_ the   *)
(* list has not changed since: that is what the tag is for.  PopFree's      *)
(* successor and PushFree's link are then still the right ones.             *)
Snapshots ==
    \A t \in Threads :
        /\ h[t].tag <= free_head.tag
        /\ pc[t] = "popCas" => /\ h[t].idx < slot_count
                               /\ h[t] = free_head => nx[t] = free_next[h[t].idx]
        /\ pc[t] = "pushCas" => free_next[cur[t]] = h[t].idx

FreeInHand == {"popCount", "take", "pushNext", "pushCas"}

(* The state word of a slot says where the slot is.                         *)
StateLinked ==
    /\ \A s \in Slots : /\ OnStack(s) => states[s] = "Free"
                        /\ InQueue(s) => states[s] = "Queued"
    /\ \A t \in Threads :
          /\ \A s \in lease[t] : states[s] = "Leased"
          /\ \A s \in refs[t] : states[s] = "Retained"
          /\ cur[t] \notin refs[t]
          /\ pc[t] \in FreeInHand => cur[t] \in Slots /\ states[cur[t]] = "Free"
          /\ pc[t] = "lastRef" => cur[t] \in Slots /\ states[cur[t]] = "Retained"
          /\ pc[t] \notin FreeInHand \cup {"lastRef"} => cur[t] = slot_count

IInv == /\ TypeOK
        /\ NoAbort
        /\ SoleOwnership
        /\ FreeListLinked
        /\ Snapshots
        /\ StateLinked

-----------------------------------------------------------------------------
(* Sequences without repetition: the free list and the return queue.       *)

Distinct(q) == \A i, j \in DOMAIN q : q[i] = q[j] => i = j
Has(q, x) == \E i \in DOMAIN q : q[i] = x

(* Taking the first element (DrainLocked, a successful PopFree).            *)
LEMMA TailDistinct ==
  ASSUME NEW S, NEW q \in Seq(S), q # << >>, Distinct(q)
  PROVE  /\ Tail(q) \in Seq(S) /\ Distinct(Tail(q))
         /\ q[1] \in S /\ Head(q) = q[1]
         /\ Len(Tail(q)) = Len(q) - 1
         /\ \A i \in 1..(Len(q) - 1) : Tail(q)[i] = q[i + 1]
         /\ Has(q, q[1]) /\ ~Has(Tail(q), q[1])
         /\ \A x : x # q[1] => (Has(Tail(q), x) <=> Has(q, x))
<1>1. /\ Len(q) \in Nat \ {0} /\ DOMAIN q = 1..Len(q) /\ Head(q) = q[1] /\ q[1] \in S
  OBVIOUS
<1>2. /\ Tail(q) \in Seq(S) /\ Len(Tail(q)) = Len(q) - 1
      /\ DOMAIN Tail(q) = 1..(Len(q) - 1)
      /\ \A i \in 1..(Len(q) - 1) : Tail(q)[i] = q[i + 1]
  BY <1>1
<1>3. Distinct(Tail(q))
  BY <1>1, <1>2 DEF Distinct
<1>4. Has(q, q[1]) /\ ~Has(Tail(q), q[1])
  BY <1>1, <1>2 DEF Distinct, Has
<1>5. ASSUME NEW x, x # q[1] PROVE Has(Tail(q), x) <=> Has(q, x)
  <2>1. ASSUME NEW i \in DOMAIN q, q[i] = x PROVE Has(Tail(q), x)
    <3>1. i - 1 \in DOMAIN Tail(q) /\ Tail(q)[i - 1] = x
      BY <1>1, <1>2, <1>5, <2>1
    <3> QED BY ZenonT(60), <3>1 DEF Has
  <2>2. ASSUME NEW i \in DOMAIN Tail(q), Tail(q)[i] = x PROVE Has(q, x)
    <3>1. i + 1 \in DOMAIN q /\ q[i + 1] = x
      BY <1>1, <1>2, <2>2
    <3> QED BY ZenonT(60), <3>1 DEF Has
  <2> QED BY ZenonT(60), <2>1, <2>2 DEF Has
<1> QED BY ZenonT(60), <1>1, <1>2, <1>3, <1>4, <1>5

(* Adding an element in front (PushFree).                                   *)
LEMMA ConsDistinct ==
  ASSUME NEW S, NEW q \in Seq(S), NEW e \in S, Distinct(q), ~Has(q, e)
  PROVE  LET c == <<e>> \o q
         IN  /\ c \in Seq(S) /\ Distinct(c) /\ c # << >>
             /\ Len(c) = Len(q) + 1 /\ c[1] = e
             /\ \A i \in 1..Len(q) : c[i + 1] = q[i]
             /\ \A x : Has(c, x) <=> x = e \/ Has(q, x)
<1> DEFINE c == <<e>> \o q
<1>1. /\ c \in Seq(S) /\ Len(c) = Len(q) + 1 /\ Len(q) \in Nat
      /\ DOMAIN c = 1..(Len(q) + 1) /\ DOMAIN q = 1..Len(q)
      /\ c[1] = e /\ \A i \in 1..Len(q) : c[i + 1] = q[i]
  OBVIOUS
<1> HIDE DEF c
<1>2. \A j \in 2..(Len(q) + 1) : j - 1 \in 1..Len(q) /\ c[j] = q[j - 1]
  BY <1>1
<1>3. Distinct(c)
  <2> SUFFICES ASSUME NEW i \in DOMAIN c, NEW j \in DOMAIN c, c[i] = c[j]
               PROVE  i = j
    BY ZenonT(60) DEF Distinct
  <2>1. CASE i = 1 /\ j # 1
    <3>1. j - 1 \in DOMAIN q /\ q[j - 1] = e
      BY <1>1, <1>2, <2>1
    <3> QED BY ZenonT(60), <3>1 DEF Has
  <2>2. CASE i # 1 /\ j = 1
    <3>1. i - 1 \in DOMAIN q /\ q[i - 1] = e
      BY <1>1, <1>2, <2>2
    <3> QED BY ZenonT(60), <3>1 DEF Has
  <2>3. CASE i # 1 /\ j # 1
    <3>1. q[i - 1] = q[j - 1] /\ i - 1 \in DOMAIN q /\ j - 1 \in DOMAIN q
      BY <1>1, <1>2, <2>3
    <3> QED BY <1>1, <3>1 DEF Distinct
  <2> QED BY ZenonT(60), <2>1, <2>2, <2>3
<1>4. ASSUME NEW x PROVE Has(c, x) <=> x = e \/ Has(q, x)
  <2>1. ASSUME NEW i \in DOMAIN c, c[i] = x PROVE x = e \/ Has(q, x)
    <3>1. i # 1 => i - 1 \in DOMAIN q /\ q[i - 1] = x
      BY <1>1, <1>2, <2>1
    <3> QED BY ZenonT(60), <1>1, <2>1, <3>1 DEF Has
  <2>2. ASSUME NEW i \in DOMAIN q, q[i] = x PROVE Has(c, x)
    <3>1. i + 1 \in DOMAIN c /\ c[i + 1] = x
      BY <1>1, <2>2
    <3> QED BY ZenonT(60), <3>1 DEF Has
  <2>3. x = e => Has(c, x)
    BY <1>1 DEF Has
  <2> QED BY ZenonT(60), <2>1, <2>2, <2>3 DEF Has
<1>5. c # << >>
  BY <1>1
<1> QED BY ZenonT(60), <1>1, <1>3, <1>4, <1>5 DEF c

(* Adding an element at the end (a foreign return).                         *)
LEMMA AppendDistinct ==
  ASSUME NEW S, NEW q \in Seq(S), NEW e \in S, Distinct(q), ~Has(q, e)
  PROVE  /\ Append(q, e) \in Seq(S) /\ Distinct(Append(q, e))
         /\ \A x : Has(Append(q, e), x) <=> x = e \/ Has(q, x)
<1> DEFINE c == Append(q, e)
<1>1. /\ c \in Seq(S) /\ Len(q) \in Nat
      /\ DOMAIN c = 1..(Len(q) + 1) /\ DOMAIN q = 1..Len(q)
      /\ c[Len(q) + 1] = e /\ \A i \in 1..Len(q) : c[i] = q[i]
  OBVIOUS
<1> HIDE DEF c
<1>2. Distinct(c)
  BY <1>1 DEF Distinct, Has
<1>3. ASSUME NEW x PROVE Has(c, x) <=> x = e \/ Has(q, x)
  BY <1>1 DEF Has
<1> QED BY ZenonT(60), <1>1, <1>2, <1>3 DEF c

-----------------------------------------------------------------------------
(* The inductive invariant holds initially.                                *)

(* The constructor establishes the invariant.                                *)
LEMMA InitIInv == Init => IInv
<1> SUFFICES ASSUME Init PROVE IInv
  BY ZenonT(60)
<1> USE PoolAssumption
<1>1. stack \in Seq(Slots) /\ Len(stack) = slot_count /\ DOMAIN stack = 1..slot_count
      /\ \A i \in 1..slot_count : stack[i] = i - 1
  BY DEF Init, Slots
<1>2. TypeOK
  BY <1>1 DEF Init, TypeOK, Heads, Labels, Slots
<1>3. \A s \in Slots : OnStack(s) /\ ~InQueue(s) /\ \A t \in Threads : ~Owns(t, s)
  <2> SUFFICES ASSUME NEW s \in Slots
               PROVE  OnStack(s) /\ ~InQueue(s) /\ \A t \in Threads : ~Owns(t, s)
    BY ZenonT(60)
  <2>1. s + 1 \in DOMAIN stack /\ stack[s + 1] = s
    BY <1>1 DEF Slots
  <2>2. OnStack(s)
    BY ZenonT(60), <2>1 DEF OnStack
  <2>3. ~InQueue(s)
    BY DEF Init, InQueue
  <2>4. \A t \in Threads : ~Owns(t, s)
    BY PoolAssumption DEF Init, Owns, InHand, Slots
  <2> QED BY ZenonT(60), <2>2, <2>3, <2>4
<1>4. SoleOwnership
  BY <1>1, <1>3 DEF Init, SoleOwnership
<1>5. FreeListLinked
  <2>1. free_head.idx = (IF stack = << >> THEN slot_count ELSE stack[1])
    <3>1. stack # << >> => Len(stack) # 0
      BY <1>1
    <3>2. stack = << >> => Len(stack) = 0
      OBVIOUS
    <3>3. free_head.idx = 0
      BY ZenonT(60) DEF Init
    <3> QED BY <1>1, <3>1, <3>2, <3>3
  <2>2. \A i \in DOMAIN stack :
          free_next[stack[i]] = (IF i = Len(stack) THEN slot_count ELSE stack[i + 1])
    BY <1>1 DEF Init
  <2> QED BY ZenonT(60), <2>1, <2>2 DEF FreeListLinked
<1>6. NoAbort /\ Snapshots
  BY DEF Init, NoAbort, Snapshots
<1>7. StateLinked
  BY ZenonT(60), <1>3 DEF Init, StateLinked, FreeInHand, Slots
<1> QED BY ZenonT(60), <1>2, <1>4, <1>5, <1>6, <1>7 DEF IInv

(* A step that moves no slot between the list, the queue and the threads    *)
(* keeps the ownership of every slot.                                       *)
LEMMA OwnershipKept ==
  ASSUME SoleOwnership, UNCHANGED <<stack, return_queue>>,
         \A u \in Threads, s \in Slots : Owns(u, s)' <=> Owns(u, s)
  PROVE  SoleOwnership'
BY ZenonT(60) DEF SoleOwnership, OnStack, InQueue

(* What the invariant says of a slot in a thread's hand.                    *)
LEMMA InHandFacts ==
  ASSUME IInv, NEW t \in Threads, pc[t] \in FreeInHand \cup {"lastRef"}
  PROVE  /\ cur[t] \in Slots /\ ~OnStack(cur[t]) /\ ~InQueue(cur[t])
         /\ \A u \in Threads : cur[t] \notin lease[u] /\ cur[t] \notin refs[u]
         /\ \A u \in Threads \ {t} : cur[u] # cur[t]
<1>1. cur[t] \in Slots /\ Owns(t, cur[t])
  BY ZenonT(60) DEF IInv, StateLinked, Owns, InHand
<1>2. \A u \in Threads \ {t} : ~Owns(u, cur[t])
  BY ZenonT(60), <1>1 DEF IInv, SoleOwnership
<1>3. ~OnStack(cur[t]) /\ ~InQueue(cur[t])
  BY ZenonT(60), <1>1 DEF IInv, SoleOwnership
<1>4. cur[t] \notin lease[t] /\ cur[t] \notin refs[t]
  BY ZenonT(60), <1>1 DEF IInv, StateLinked, FreeInHand
<1> QED BY ZenonT(60), <1>1, <1>2, <1>3, <1>4 DEF Owns, InHand

-----------------------------------------------------------------------------
(* The steps that move no slot: calls that begin or end, and the reads of   *)
(* the list.                                                                *)

(* The null index slot_count is not a slot.                                  *)
LEMMA SlotFacts == Slots \subseteq 0..slot_count /\ slot_count \in 0..slot_count /\ slot_count \notin Slots
BY PoolAssumption DEF Slots

(* The head of a linked, non-empty free list is the top of the stack.        *)
LEMMA HeadOnStack ==
  ASSUME IInv, free_head.idx < slot_count
  PROVE  stack # << >> /\ stack[1] = free_head.idx /\ 1 \in DOMAIN stack /\ OnStack(free_head.idx)
<1>1. stack # << >> /\ stack[1] = free_head.idx
  BY PoolAssumption DEF IInv, FreeListLinked
<1>2. 1 \in DOMAIN stack
  BY <1>1 DEF IInv, TypeOK
<1> QED BY ZenonT(60), <1>1, <1>2 DEF OnStack

(* Entering Allocate.                                                        *)
LEMMA AllocateStep ==
  ASSUME IInv, NEW t \in Threads, Allocate(t)
  PROVE  IInv'
<1>1. TypeOK'
  <2>1. allocs' \in Nat
    BY PoolAssumption DEF IInv, TypeOK, Allocate
  <2>2. op' \in [Threads -> {"none", "alloc", "retry", "return", "release", "drain"}]
    BY ZenonT(60), PoolAssumption DEF IInv, TypeOK, Allocate
  <2>3. h' \in [Threads -> Heads]
    BY ZenonT(60), PoolAssumption DEF IInv, TypeOK, Allocate, LoadHead
  <2>4. pc' \in [Threads -> Labels]
    BY ZenonT(60), PoolAssumption DEF IInv, TypeOK, Allocate, Labels, Goto
  <2> QED BY ZenonT(60), <2>1, <2>2, <2>3, <2>4 DEF IInv, TypeOK, Allocate
<1>2. NoAbort'
  BY ZenonT(60) DEF IInv, TypeOK, NoAbort, Allocate, Goto
<1>3. SoleOwnership'
  BY ZenonT(60), OwnershipKept DEF IInv, Allocate, Owns, InHand
<1>4. FreeListLinked'
  BY ZenonT(60) DEF IInv, Allocate, FreeListLinked
<1>5. Snapshots'
  BY SMTT(60) DEF IInv, TypeOK, Snapshots, Allocate, At, Goto, LoadHead, Heads
<1>6. StateLinked'
  BY SMTT(60) DEF IInv, TypeOK, StateLinked, Allocate, At, Goto, FreeInHand, OnStack, InQueue
<1> QED BY ZenonT(60), <1>1, <1>2, <1>3, <1>4, <1>5, <1>6 DEF IInv

(* Reading next_free[head] before the CAS of Allocate.                       *)
LEMMA PopReadStep ==
  ASSUME IInv, NEW t \in Threads, PopRead(t)
  PROVE  IInv'
<1>1. TypeOK'
  <2>1. nx' \in [Threads -> 0..slot_count]
    <3>1. h[t].idx \in 0..slot_count /\ free_next \in [0..slot_count -> 0..slot_count]
          /\ nx \in [Threads -> 0..slot_count]
      BY ZenonT(60) DEF IInv, TypeOK, Heads
    <3>2. nx' = nx \/ nx' = [nx EXCEPT ![t] = free_next[h[t].idx]]
      BY ZenonT(60) DEF PopRead
    <3> QED BY ZenonT(60), <3>1, <3>2
  <2>2. pc' \in [Threads -> Labels]
    BY ZenonT(60), PoolAssumption DEF IInv, TypeOK, PopRead, Labels, Goto
  <2>3. op' \in [Threads -> {"none", "alloc", "retry", "return", "release", "drain"}]
    BY ZenonT(60), PoolAssumption DEF IInv, TypeOK, PopRead
  <2>4. mutex' \in Threads \cup {NoThread}
    BY ZenonT(60), PoolAssumption DEF IInv, TypeOK, PopRead
  <2> QED BY ZenonT(60), <2>1, <2>2, <2>3, <2>4 DEF IInv, TypeOK, PopRead
<1>2. NoAbort'
  BY ZenonT(60) DEF IInv, TypeOK, NoAbort, PopRead, Goto
<1>3. SoleOwnership'
  BY ZenonT(60), OwnershipKept DEF IInv, PopRead, Owns, InHand
<1>4. FreeListLinked'
  BY ZenonT(60) DEF IInv, PopRead, FreeListLinked
<1>5. Snapshots'
  BY SMTT(60) DEF IInv, TypeOK, Snapshots, PopRead, At, Goto, LoadHead, Heads
<1>6. StateLinked'
  <2>1. /\ pc[t] \notin FreeInHand \cup {"lastRef"} /\ pc'[t] \notin FreeInHand \cup {"lastRef"}
        /\ \A u \in Threads \ {t} : pc'[u] = pc[u]
    BY ZenonT(60) DEF IInv, TypeOK, PopRead, At, Goto, FreeInHand
  <2> QED BY <2>1 DEF IInv, StateLinked, PopRead, OnStack, InQueue
<1> QED BY ZenonT(60), <1>1, <1>2, <1>3, <1>4, <1>5, <1>6 DEF IInv

(* The count of Allocate after its CAS.                                      *)
LEMMA PopCountStep ==
  ASSUME IInv, NEW t \in Threads, PopCount(t)
  PROVE  IInv'
<1>1. TypeOK'
  <2>1. free_count' \in Int
    BY PoolAssumption DEF IInv, TypeOK, PopCount
  <2>2. mutex' \in Threads \cup {NoThread}
    BY ZenonT(60), PoolAssumption DEF IInv, TypeOK, PopCount
  <2>3. pc' \in [Threads -> Labels]
    BY ZenonT(60), PoolAssumption DEF IInv, TypeOK, PopCount, Labels, Goto
  <2> QED BY ZenonT(60), <2>1, <2>2, <2>3 DEF IInv, TypeOK, PopCount
<1>2. NoAbort'
  BY ZenonT(60) DEF IInv, TypeOK, NoAbort, PopCount, Goto
<1>3. SoleOwnership'
  BY ZenonT(60), OwnershipKept DEF IInv, PopCount, Owns, InHand
<1>4. FreeListLinked'
  BY ZenonT(60) DEF IInv, PopCount, FreeListLinked
<1>5. Snapshots'
  BY ZenonT(60) DEF IInv, TypeOK, Snapshots, PopCount, At, Goto, LoadHead, Heads
<1>6. StateLinked'
  BY DEF IInv, TypeOK, StateLinked, PopCount, At, Goto, FreeInHand, OnStack, InQueue
<1> QED BY ZenonT(60), <1>1, <1>2, <1>3, <1>4, <1>5, <1>6 DEF IInv

(* The count of PushFree after its CAS.                                      *)
LEMMA PushCountStep ==
  ASSUME IInv, NEW t \in Threads, PushCount(t)
  PROVE  IInv'
<1>1. TypeOK'
  <2>1. free_count' \in Int
    BY PoolAssumption DEF IInv, TypeOK, PushCount
  <2>2. pc' \in [Threads -> Labels]
    BY ZenonT(60), PoolAssumption DEF IInv, TypeOK, PushCount, Labels, Goto
  <2>3. op' \in [Threads -> {"none", "alloc", "retry", "return", "release", "drain"}]
    BY ZenonT(60), PoolAssumption DEF IInv, TypeOK, PushCount
  <2>4. mutex' \in Threads \cup {NoThread}
    BY ZenonT(60), PoolAssumption DEF IInv, TypeOK, PushCount
  <2> QED BY ZenonT(60), <2>1, <2>2, <2>3, <2>4 DEF IInv, TypeOK, PushCount
<1>2. NoAbort'
  BY ZenonT(60) DEF IInv, TypeOK, NoAbort, PushCount, Goto
<1>3. SoleOwnership'
  BY ZenonT(60), OwnershipKept DEF IInv, PushCount, Owns, InHand
<1>4. FreeListLinked'
  BY ZenonT(60) DEF IInv, PushCount, FreeListLinked
<1>5. Snapshots'
  BY SMTT(60) DEF IInv, TypeOK, Snapshots, PushCount, At, Goto, LoadHead, Heads
<1>6. StateLinked'
  <2>1. /\ pc[t] \notin FreeInHand \cup {"lastRef"} /\ pc'[t] \notin FreeInHand \cup {"lastRef"}
        /\ \A u \in Threads \ {t} : pc'[u] = pc[u]
    BY SMTT(60) DEF IInv, TypeOK, PushCount, At, Goto, FreeInHand
  <2> QED BY <2>1 DEF IInv, StateLinked, PushCount, OnStack, InQueue
<1> QED BY ZenonT(60), <1>1, <1>2, <1>3, <1>4, <1>5, <1>6 DEF IInv

(* Starting to drain the foreign return queue.                               *)
LEMMA DrainReturnQueueStep ==
  ASSUME IInv, NEW t \in Threads, DrainReturnQueue(t)
  PROVE  IInv'
<1>1. TypeOK'
  <2>1. op' \in [Threads -> {"none", "alloc", "retry", "return", "release", "drain"}]
    BY ZenonT(60), PoolAssumption DEF IInv, TypeOK, DrainReturnQueue
  <2>2. pc' \in [Threads -> Labels]
    BY ZenonT(60), PoolAssumption DEF IInv, TypeOK, DrainReturnQueue, Labels, Goto
  <2> QED BY ZenonT(60), <2>1, <2>2 DEF IInv, TypeOK, DrainReturnQueue
<1>2. NoAbort'
  BY ZenonT(60) DEF IInv, TypeOK, NoAbort, DrainReturnQueue, Goto
<1>3. SoleOwnership'
  BY ZenonT(60), OwnershipKept DEF IInv, DrainReturnQueue, Owns, InHand
<1>4. FreeListLinked'
  BY ZenonT(60) DEF IInv, DrainReturnQueue, FreeListLinked
<1>5. Snapshots'
  BY ZenonT(60) DEF IInv, TypeOK, Snapshots, DrainReturnQueue, At, Goto, LoadHead, Heads
<1>6. StateLinked'
  BY DEF IInv, TypeOK, StateLinked, DrainReturnQueue, At, Goto, FreeInHand, OnStack, InQueue
<1> QED BY ZenonT(60), <1>1, <1>2, <1>3, <1>4, <1>5, <1>6 DEF IInv

(* Taking the return queue mutex.                                            *)
LEMMA LockStep ==
  ASSUME IInv, NEW t \in Threads, Lock(t)
  PROVE  IInv'
<1>1. TypeOK'
  <2>1. mutex' \in Threads \cup {NoThread}
    BY ZenonT(60), PoolAssumption DEF IInv, TypeOK, Lock
  <2>2. pc' \in [Threads -> Labels]
    BY ZenonT(60), PoolAssumption DEF IInv, TypeOK, Lock, Labels, Goto
  <2> QED BY ZenonT(60), <2>1, <2>2 DEF IInv, TypeOK, Lock
<1>2. NoAbort'
  BY ZenonT(60) DEF IInv, TypeOK, NoAbort, Lock, Goto
<1>3. SoleOwnership'
  BY ZenonT(60), OwnershipKept DEF IInv, Lock, Owns, InHand
<1>4. FreeListLinked'
  BY ZenonT(60) DEF IInv, Lock, FreeListLinked
<1>5. Snapshots'
  BY ZenonT(60) DEF IInv, TypeOK, Snapshots, Lock, At, Goto, LoadHead, Heads
<1>6. StateLinked'
  BY SMTT(60) DEF IInv, TypeOK, StateLinked, Lock, At, Goto, FreeInHand, OnStack, InQueue
<1> QED BY ZenonT(60), <1>1, <1>2, <1>3, <1>4, <1>5, <1>6 DEF IInv

(* Writing next_free of a slot that its thread alone owns, before the CAS of *)
(* PushFree.                                                                 *)
LEMMA PushNextStep ==
  ASSUME IInv, NEW t \in Threads, PushNext(t)
  PROVE  IInv'
<1>1. TypeOK'
  <2>1. free_next' \in [0..slot_count -> 0..slot_count]
    BY ZenonT(60), PoolAssumption DEF IInv, TypeOK, PushNext, Heads
  <2>2. pc' \in [Threads -> Labels]
    BY ZenonT(60), PoolAssumption DEF IInv, TypeOK, PushNext, Labels, Goto
  <2> QED BY ZenonT(60), <2>1, <2>2 DEF IInv, TypeOK, PushNext
<1>2. NoAbort'
  BY ZenonT(60) DEF IInv, TypeOK, NoAbort, PushNext, Goto
<1>3. SoleOwnership'
  BY ZenonT(60), OwnershipKept DEF IInv, PushNext, Owns, InHand
<1>4. FreeListLinked'
  <2>1. cur[t] \in Slots /\ ~OnStack(cur[t])
    BY ZenonT(60), InHandFacts DEF PushNext, At, FreeInHand
  <2>2. \A i \in DOMAIN stack : stack[i] \in 0..slot_count /\ free_next'[stack[i]] = free_next[stack[i]]
    <3>1. \A i \in DOMAIN stack : stack[i] \in Slots /\ stack[i] # cur[t]
      BY <2>1 DEF IInv, TypeOK, OnStack
    <3>2. free_next \in [0..slot_count -> 0..slot_count] /\ free_next' = [free_next EXCEPT ![cur[t]] = h[t].idx]
      BY ZenonT(60) DEF IInv, TypeOK, PushNext
    <3>3. Slots \subseteq 0..slot_count
      BY PoolAssumption DEF Slots
    <3> QED BY ZenonT(60), <3>1, <3>2, <3>3
  <2> QED BY ZenonT(60), <2>2 DEF IInv, PushNext, FreeListLinked
<1>5. Snapshots'
  <2>1. cur[t] \in Slots /\ ~OnStack(cur[t]) /\ \A u \in Threads \ {t} : cur[u] # cur[t]
    BY ZenonT(60), InHandFacts DEF PushNext, At, FreeInHand
  <2>2. free_head.idx < slot_count => OnStack(free_head.idx)
    BY ZenonT(60), HeadOnStack
  <2> QED BY ZenonT(60), <2>1, <2>2, PoolAssumption DEF IInv, TypeOK, PushNext, Snapshots, At,
             Goto, Heads, Slots
<1>6. StateLinked'
  BY SMTT(60) DEF IInv, TypeOK, StateLinked, PushNext, At, Goto, FreeInHand, OnStack, InQueue
<1> QED BY ZenonT(60), <1>1, <1>2, <1>3, <1>4, <1>5, <1>6 DEF IInv

(* A step that leaves the list alone keeps it linked and the snapshots valid. *)
LEMMA ListKept ==
  ASSUME IInv, NEW t \in Threads,
         UNCHANGED <<free_head, free_next, stack, nx>>,
         UNCHANGED h \/ h' = [h EXCEPT ![t] = free_head],
         pc'[t] \notin {"popCas", "pushCas"},
         \A u \in Threads \ {t} : pc'[u] = pc[u] /\ cur'[u] = cur[u]
  PROVE  FreeListLinked' /\ Snapshots'
<1>1. FreeListLinked'
  BY ZenonT(60) DEF IInv, FreeListLinked
<1>2. \A u \in Threads \ {t} : h'[u] = h[u]
  BY ZenonT(60) DEF IInv, TypeOK
<1>3. h'[t] = h[t] \/ h'[t] = free_head
  BY ZenonT(60) DEF IInv, TypeOK
<1>4. free_head.tag <= free_head.tag
  BY DEF IInv, TypeOK, Heads
<1> QED BY <1>1, <1>2, <1>3, <1>4 DEF IInv, Snapshots

-----------------------------------------------------------------------------
(* A compare-and-swap that fails only loads the head again.                 *)
LEMMA CasFails ==
  ASSUME IInv, NEW t \in Threads,
         \/ PopCas(t) /\ free_head # h[t]
         \/ PushCas(t) /\ free_head # h[t]
  PROVE  IInv'
<1>1. /\ h' = [h EXCEPT ![t] = free_head]
      /\ \/ pc[t] = "popCas" /\ pc' = [pc EXCEPT ![t] = "popRead"]
         \/ pc[t] = "pushCas" /\ pc' = [pc EXCEPT ![t] = "pushNext"]
      /\ UNCHANGED <<free_head, free_next, stack, free_count, outstanding, retained, states,
                     return_queue, ref_count, mutex, lease, refs, op, nx, cur, allocs>>
  BY ZenonT(60) DEF PopCas, PushCas, LoadHead, Goto, At
<1>2. TypeOK'
  <2>1. pc' \in [Threads -> Labels] /\ h' \in [Threads -> Heads]
    BY ZenonT(60), <1>1 DEF IInv, TypeOK, Labels
  <2> QED BY ZenonT(60), <1>1, <2>1 DEF IInv, TypeOK
<1>3. NoAbort'
  BY ZenonT(60), <1>1 DEF IInv, TypeOK, NoAbort
<1>4. SoleOwnership'
  BY ZenonT(60), <1>1, OwnershipKept DEF IInv, Owns, InHand
<1>5. FreeListLinked'
  BY ZenonT(60), <1>1 DEF IInv, FreeListLinked
<1>6. Snapshots'
  <2>1. pc'[t] \notin {"popCas",
  "pushCas"} /\ \A u \in Threads \ {t} : pc'[u] = pc[u] /\ h'[u] = h[u]
    BY ZenonT(60), <1>1 DEF IInv, TypeOK
  <2>2. h'[t] = free_head /\ free_head.tag \in Nat
    BY ZenonT(60), <1>1 DEF IInv, TypeOK, Heads
  <2> QED BY <1>1, <2>1, <2>2 DEF IInv, Snapshots
<1>7. StateLinked'
  <2>1. \A u \in Threads : /\ pc'[u] \in FreeInHand => pc[u] \in FreeInHand
                           /\ pc'[u] = "lastRef" => pc[u] = "lastRef"
                           /\ pc'[u] \notin FreeInHand \cup {"lastRef"} => u = t \/ pc'[u] = pc[u]
    BY ZenonT(60), <1>1 DEF IInv, TypeOK, FreeInHand
  <2>2. pc'[t] \notin FreeInHand \cup {"lastRef"} => pc[t] = "popCas"
    BY ZenonT(60), <1>1 DEF IInv, TypeOK, FreeInHand
  <2>3. "popCas" \notin FreeInHand \cup {"lastRef"}
    BY ZenonT(60) DEF FreeInHand
  <2> QED BY SMTT(60), <1>1, <2>1, <2>2, <2>3 DEF IInv, StateLinked, OnStack, InQueue
<1> QED BY ZenonT(60), <1>2, <1>3, <1>4, <1>5, <1>6, <1>7 DEF IInv

(* A successful pop takes the first slot of the list, and the successor it   *)
(* read earlier is still that slot's successor.                              *)
LEMMA PopCasStep ==
  ASSUME IInv, NEW t \in Threads, PopCas(t)
  PROVE  IInv'
<1>1. CASE free_head # h[t]
  BY ZenonT(60), <1>1, CasFails
<1>2. CASE free_head = h[t]
  <2> DEFINE x == free_head.idx
  <2>1. /\ free_head' = [tag |-> free_head.tag + 1, idx |-> nx[t]]
        /\ stack' = Tail(stack)
        /\ cur' = [cur EXCEPT ![t] = x]
        /\ pc[t] = "popCas" /\ pc' = [pc EXCEPT ![t] = "popCount"]
        /\ UNCHANGED <<free_next, free_count, outstanding, retained, states, return_queue,
                       ref_count, mutex, lease, refs, op, h, nx, allocs>>
    BY ZenonT(60), <1>2 DEF PopCas, Goto, At
  <2>2. x \in Nat /\ x < slot_count /\ nx[t] = free_next[x]
    BY SMTT(60), <1>2, <2>1 DEF IInv, TypeOK, Heads, Snapshots
  <2>3. x \in Slots
    BY <2>2, PoolAssumption DEF Slots
  <2>4. stack # << >> /\ stack[1] = x /\ 1 \in DOMAIN stack /\ OnStack(x)
    BY ZenonT(60), <2>2, HeadOnStack
  <2>5. stack \in Seq(Slots) /\ Distinct(stack)
    BY ZenonT(60) DEF IInv, TypeOK, SoleOwnership, Distinct
  <2>6. /\ stack' \in Seq(Slots) /\ Distinct(stack')
        /\ Len(stack') = Len(stack) - 1
        /\ \A i \in 1..(Len(stack) - 1) : stack'[i] = stack[i + 1]
        /\ ~Has(stack', x)
        /\ \A y : y # x => (Has(stack', y) <=> Has(stack, y))
    BY ZenonT(60), <2>1, <2>4, <2>5, TailDistinct
  <2>7. \A s \in Slots : OnStack(s)' <=> OnStack(s) /\ s # x
    BY ZenonT(60), <2>4, <2>6 DEF OnStack, Has
  <2>8. pc[t] \notin FreeInHand \cup {"lastRef"} /\ cur[t] = slot_count
    BY ZenonT(60), <2>1 DEF IInv, StateLinked, FreeInHand
  <2>9. \A u \in Threads, s \in Slots : Owns(u, s)' <=> Owns(u, s) \/ (u = t /\ s = x)
    BY ZenonT(60), <2>1, <2>8, SlotFacts DEF IInv, TypeOK, Owns, InHand
  <2>10. TypeOK'
    <3>1. nx[t] \in 0..slot_count /\ free_head.tag + 1 \in Nat
      BY SMTT(60) DEF IInv, TypeOK, Heads
    <3>2. free_head' \in Heads
      BY ZenonT(60), <2>1, <3>1 DEF Heads
    <3>3. pc' \in [Threads -> Labels]
      BY ZenonT(60), <2>1 DEF IInv, TypeOK, Labels
    <3>4. cur' \in [Threads -> 0..slot_count]
      BY ZenonT(60), <2>1, <2>3, SlotFacts DEF IInv, TypeOK
    <3> QED BY ZenonT(60), <2>1, <2>6, <3>2, <3>3, <3>4 DEF IInv, TypeOK
  <2>11. NoAbort'
    BY ZenonT(60), <2>1 DEF IInv, TypeOK, NoAbort
  <2>12. SoleOwnership'
    <3>1. \A s \in Slots : InQueue(s)' <=> InQueue(s)
      BY ZenonT(60), <2>1 DEF InQueue
    <3>2. ~InQueue(x) /\ \A u \in Threads : ~Owns(u, x)
      BY ZenonT(60), <2>3, <2>4 DEF IInv, SoleOwnership
    <3> QED BY SMTT(60), <2>1, <2>3, <2>6, <2>7, <2>9, <3>1, <3>2 DEF IInv, SoleOwnership, Distinct
  <2>13. FreeListLinked'
    <3>1. Len(stack) \in Nat \ {0} /\ DOMAIN stack = 1..Len(stack) /\ DOMAIN stack' = 1..(Len(stack) - 1)
      BY <2>4, <2>5, <2>6
    <3>2. stack' = << >> <=> Len(stack) = 1
      BY <2>6, <3>1
    <3>3. \A i \in DOMAIN stack : free_next[stack[i]] = (IF i = Len(stack) THEN slot_count ELSE stack[i + 1])
      BY ZenonT(60) DEF IInv, FreeListLinked
    <3>4. nx[t] = (IF Len(stack) = 1 THEN slot_count ELSE stack[2])
      BY SMTT(60), <2>2, <2>4, <3>1, <3>3
    <3>5. free_head'.idx = (IF stack' = << >> THEN slot_count ELSE stack'[1])
      BY SMTT(60), <2>1, <2>6, <3>1, <3>2, <3>4
    <3>6. \A i \in DOMAIN stack' :
            free_next'[stack'[i]] = (IF i = Len(stack') THEN slot_count ELSE stack'[i + 1])
      BY SMTT(60), <2>1, <2>6, <3>1, <3>3
    <3> QED BY ZenonT(60), <3>5, <3>6 DEF FreeListLinked
  <2>14. Snapshots'
    <3>1. /\ free_head'.tag = free_head.tag + 1 /\ free_head.tag \in Nat
          /\ \A u \in Threads : h[u].tag \in Nat
      BY ZenonT(60), <2>1 DEF IInv, TypeOK, Heads
    <3>2. \A u \in Threads : h[u].tag <= free_head'.tag /\ h[u] # free_head'
      BY SMTT(60), <3>1 DEF IInv, Snapshots
    <3>3. pc'[t] = "popCount" /\ \A u \in Threads \ {t} : pc'[u] = pc[u] /\ cur'[u] = cur[u]
      BY ZenonT(60), <2>1 DEF IInv, TypeOK
    <3> QED BY ZenonT(60), <2>1, <3>2, <3>3 DEF IInv, Snapshots
  <2>15. StateLinked'
    <3>1. states[x] = "Free"
      BY ZenonT(60), <2>3, <2>4 DEF IInv, StateLinked
    <3>2. /\ pc'[t] = "popCount" /\ "popCount" \in FreeInHand /\ "popCount" # "lastRef" /\ cur'[t] = x
          /\ \A u \in Threads \ {t} : pc'[u] = pc[u] /\ cur'[u] = cur[u]
      BY ZenonT(60), <2>1 DEF IInv, TypeOK, FreeInHand
    <3>3. x \notin refs[t]
      BY ZenonT(60), <3>1 DEF IInv, StateLinked
    <3>4. \A s \in Slots : (OnStack(s)' => states'[s] = "Free") /\ (InQueue(s)' => states'[s] = "Queued")
      BY <2>1, <2>7 DEF IInv, StateLinked, InQueue
    <3> QED BY SMTT(60), <2>1, <2>3, <3>1, <3>2, <3>3, <3>4 DEF IInv, StateLinked
  <2> QED BY ZenonT(60), <2>10, <2>11, <2>12, <2>13, <2>14, <2>15 DEF IInv
<1> QED BY ZenonT(60), <1>1, <1>2

(* A successful push puts the slot in hand in front of the list it was       *)
(* linked to.                                                                *)
LEMMA PushCasStep ==
  ASSUME IInv, NEW t \in Threads, PushCas(t)
  PROVE  IInv'
<1>1. CASE free_head # h[t]
  BY ZenonT(60), <1>1, CasFails
<1>2. CASE free_head = h[t]
  <2> DEFINE x == cur[t]
  <2>1. /\ free_head' = [tag |-> free_head.tag + 1, idx |-> x]
        /\ stack' = <<x>> \o stack
        /\ cur' = [cur EXCEPT ![t] = slot_count]
        /\ pc[t] = "pushCas" /\ pc' = [pc EXCEPT ![t] = "pushCount"]
        /\ UNCHANGED <<free_next, free_count, outstanding, retained, states, return_queue,
                       ref_count, mutex, lease, refs, op, h, nx, allocs>>
    BY ZenonT(60), <1>2 DEF PushCas, Goto, At
  <2>2. /\ x \in Slots /\ ~OnStack(x) /\ ~InQueue(x)
        /\ \A u \in Threads : x \notin lease[u] /\ x \notin refs[u]
        /\ \A u \in Threads \ {t} : cur[u] # x
    BY ZenonT(60), <2>1, InHandFacts DEF FreeInHand
  <2>3. free_next[x] = free_head.idx /\ states[x] = "Free"
    BY ZenonT(60), <1>2, <2>1 DEF IInv, Snapshots, StateLinked, FreeInHand
  <2>4. stack \in Seq(Slots) /\ Distinct(stack) /\ ~Has(stack, x)
    BY ZenonT(60), <2>2 DEF IInv, TypeOK, SoleOwnership, Distinct, OnStack, Has
  <2>5. /\ stack' \in Seq(Slots) /\ Distinct(stack') /\ stack' # << >>
        /\ Len(stack') = Len(stack) + 1 /\ stack'[1] = x
        /\ \A i \in 1..Len(stack) : stack'[i + 1] = stack[i]
        /\ \A y : Has(stack', y) <=> y = x \/ Has(stack, y)
    BY SMTT(60), <2>1, <2>2, <2>4, ConsDistinct
  <2>6. \A s \in Slots : OnStack(s)' <=> OnStack(s) \/ s = x
    BY ZenonT(60), <2>5 DEF OnStack, Has
  <2>7. \A u \in Threads, s \in Slots : Owns(u, s)' <=> Owns(u, s) /\ s # x
    BY ZenonT(60), <2>1, <2>2, SlotFacts DEF IInv, TypeOK, Owns, InHand
  <2>8. TypeOK'
    <3>1. free_head' \in Heads
      BY SMTT(60), <2>1, <2>2, SlotFacts DEF IInv, TypeOK, Heads
    <3>2. pc' \in [Threads -> Labels]
      BY ZenonT(60), <2>1 DEF IInv, TypeOK, Labels
    <3>3. cur' \in [Threads -> 0..slot_count]
      BY SMTT(60), <2>1, PoolAssumption DEF IInv, TypeOK
    <3> QED BY ZenonT(60), <2>1, <2>5, <3>1, <3>2, <3>3 DEF IInv, TypeOK
  <2>9. NoAbort'
    BY ZenonT(60), <2>1 DEF IInv, TypeOK, NoAbort
  <2>10. SoleOwnership'
    <3>1. \A s \in Slots : InQueue(s)' <=> InQueue(s)
      BY ZenonT(60), <2>1 DEF InQueue
    <3> QED BY ZenonT(60), <2>1, <2>2, <2>5, <2>6, <2>7, <3>1 DEF IInv, SoleOwnership, Distinct
  <2>11. FreeListLinked'
    <3>1. Len(stack) \in Nat /\ DOMAIN stack = 1..Len(stack) /\ DOMAIN stack' = 1..(Len(stack) + 1)
      BY <2>4, <2>5
    <3>2. stack = << >> <=> Len(stack) = 0
      BY SMTT(60), <2>4
    <3>3. /\ \A i \in DOMAIN stack : free_next[stack[i]] = (IF i = Len(stack) THEN slot_count ELSE stack[i + 1])
          /\ free_head.idx = (IF stack = << >> THEN slot_count ELSE stack[1])
      BY ZenonT(60) DEF IInv, FreeListLinked
    <3>4. ASSUME NEW i \in DOMAIN stack'
          PROVE  free_next'[stack'[i]] = (IF i = Len(stack') THEN slot_count ELSE stack'[i + 1])
      <4>1. CASE i = 1
        <5>1. free_next'[stack'[i]] = free_head.idx
          BY ZenonT(60), <2>1, <2>3, <2>5, <4>1
        <5>2. Len(stack) = 0 => free_head.idx = slot_count /\ i = Len(stack')
          BY <2>5, <3>2, <3>3, <4>1
        <5>3. Len(stack) # 0 => free_head.idx = stack'[i + 1] /\ i # Len(stack')
          BY <2>5, <3>1, <3>2, <3>3, <4>1
        <5> QED BY ZenonT(60), <5>1, <5>2, <5>3
      <4>2. CASE i # 1
        <5>1. i - 1 \in 1..Len(stack) /\ stack'[i] = stack[i - 1]
          BY SMTT(60), <2>5, <3>1, <4>2
        <5>2. i # Len(stack') => stack'[i + 1] = stack[i]
          BY SMTT(60), <2>5, <3>1, <4>2
        <5> QED BY SMTT(60), <2>1, <2>5, <3>1, <3>3, <5>1, <5>2
      <4> QED BY ZenonT(60), <4>1, <4>2
    <3> QED BY ZenonT(60), <2>1, <2>5, <3>4 DEF FreeListLinked
  <2>12. Snapshots'
    <3>1. /\ free_head'.tag = free_head.tag + 1 /\ free_head.tag \in Nat
          /\ \A u \in Threads : h[u].tag \in Nat
      BY ZenonT(60), <2>1 DEF IInv, TypeOK, Heads
    <3>2. \A u \in Threads : h[u].tag <= free_head'.tag /\ h[u] # free_head'
      BY SMTT(60), <3>1 DEF IInv, Snapshots
    <3>3. pc'[t] = "pushCount" /\ \A u \in Threads \ {t} : pc'[u] = pc[u] /\ cur'[u] = cur[u]
      BY ZenonT(60), <2>1 DEF IInv, TypeOK
    <3> QED BY ZenonT(60), <2>1, <3>2, <3>3 DEF IInv, Snapshots
  <2>13. StateLinked'
    <3>1. /\ pc'[t] = "pushCount" /\ "pushCount" \notin FreeInHand \cup {"lastRef"} /\ cur'[t] = slot_count
          /\ \A u \in Threads \ {t} : pc'[u] = pc[u] /\ cur'[u] = cur[u]
      BY ZenonT(60), <2>1 DEF IInv, TypeOK, FreeInHand
    <3>2. slot_count \notin refs[t]
      BY SMTT(60), PoolAssumption DEF IInv, TypeOK, Slots
    <3>3. \A s \in Slots : (OnStack(s)' => states'[s] = "Free") /\ (InQueue(s)' => states'[s] = "Queued")
      BY ZenonT(60), <2>1, <2>3, <2>6 DEF IInv, StateLinked, InQueue
    <3> QED BY SMTT(60), <2>1, <3>1, <3>2, <3>3 DEF IInv, StateLinked
  <2> QED BY ZenonT(60), <2>8, <2>9, <2>10, <2>11, <2>12, <2>13 DEF IInv
<1> QED BY ZenonT(60), <1>1, <1>2

-----------------------------------------------------------------------------
(* Retain turns a lease into the first reference.                            *)
LEMMA RetainStep ==
  ASSUME IInv, NEW t \in Threads, NEW x \in Slots, Retain(t, x)
  PROVE  IInv'
<1>1. pc[t] = "idle" /\ x \in lease[t] /\ states[x] = "Leased"
  BY ZenonT(60) DEF Retain, At, IInv, StateLinked
<1>2. /\ ~OnStack(x) /\ ~InQueue(x) /\ x \notin refs[t]
      /\ \A u \in Threads \ {t} : ~Owns(u, x)
  BY ZenonT(60), <1>1 DEF IInv, SoleOwnership, StateLinked, Owns
<1>3. cur[t] = slot_count
  BY ZenonT(60), <1>1 DEF IInv, StateLinked, FreeInHand
<1>4. /\ states' = [states EXCEPT ![x] = "Retained"]
      /\ retained' = retained + 1
      /\ ref_count' = [ref_count EXCEPT ![x] = 1]
      /\ lease' = [lease EXCEPT ![t] = @ \ {x}]
      /\ refs' = [refs EXCEPT ![t] = @ \cup {x}]
      /\ UNCHANGED <<free_head, free_next, stack, free_count, outstanding, return_queue, mutex,
                     pc, op, h, nx, cur, allocs>>
  BY ZenonT(60), <1>1 DEF Retain
<1>5. TypeOK'
  <2>1. states' \in [Slots -> {"Free", "Leased", "Retained", "Queued"}]
    BY ZenonT(60), <1>4 DEF IInv, TypeOK
  <2>2. lease' \in [Threads -> SUBSET Slots] /\ refs' \in [Threads -> SUBSET Slots]
    BY ZenonT(60), <1>4 DEF IInv, TypeOK
  <2>3. retained' \in Int /\ ref_count' \in [Slots -> Int]
    BY SMTT(60), <1>4 DEF IInv, TypeOK
  <2> QED BY ZenonT(60), <1>4, <2>1, <2>2, <2>3 DEF IInv, TypeOK
<1>6. /\ lease'[t] = lease[t] \ {x} /\ refs'[t] = refs[t] \cup {x}
      /\ \A u \in Threads \ {t} : lease'[u] = lease[u] /\ refs'[u] = refs[u]
      /\ states'[x] = "Retained" /\ \A s \in Slots \ {x} : states'[s] = states[s]
  BY ZenonT(60), <1>4 DEF IInv, TypeOK
<1>7. NoAbort' /\ FreeListLinked' /\ Snapshots'
  BY ZenonT(60), <1>4 DEF IInv, NoAbort, FreeListLinked, Snapshots
<1>8. SoleOwnership'
  <2>1. \A u \in Threads, s \in Slots : Owns(u, s)' <=> Owns(u, s)
    BY ZenonT(60), <1>1, <1>4, <1>6 DEF Owns, InHand
  <2> QED BY ZenonT(60), <1>4, <2>1, OwnershipKept DEF IInv
<1>9. StateLinked'
  <2>1. \A u \in Threads : lease[u] \subseteq Slots /\ refs[u] \subseteq Slots
    BY ZenonT(60) DEF IInv, TypeOK
  <2>2. \A u \in Threads : x \notin lease'[u] /\ cur'[u] # x
    BY ZenonT(60), <1>2, <1>3, <1>4, <1>6, SlotFacts DEF Owns, InHand
  <2>3. \A s \in Slots : (OnStack(s)' => states'[s] = "Free") /\ (InQueue(s)' => states'[s] = "Queued")
    BY SMTT(60), <1>2, <1>4, <1>6 DEF IInv, StateLinked, OnStack, InQueue
  <2>4. \A u \in Threads : (\A s \in lease'[u] : states'[s] = "Leased") /\ (\A s \in refs'[u] : states'[s] = "Retained")
    BY SMTT(60), <1>6, <2>1, <2>2 DEF IInv, StateLinked
  <2> QED BY SMTT(60), <1>4, <1>6, <2>2, <2>3, <2>4 DEF IInv, StateLinked
<1> QED BY ZenonT(60), <1>5, <1>7, <1>8, <1>9 DEF IInv

(* AddRef on a lease that the thread holds.                                  *)
LEMMA CopyRefStep ==
  ASSUME IInv, NEW t \in Threads, NEW x \in Slots, CopyRef(t, x)
  PROVE  IInv'
<1>1. /\ ref_count' = [ref_count EXCEPT ![x] = @ + 1]
      /\ UNCHANGED <<free_head, free_next, stack, free_count, outstanding, retained, states,
                     return_queue, mutex, lease, refs, pc, op, h, nx, cur, allocs>>
  BY ZenonT(60) DEF CopyRef
<1>2. TypeOK'
  <2>1. ref_count' \in [Slots -> Int]
    BY SMTT(60), <1>1 DEF IInv, TypeOK
  <2> QED BY ZenonT(60), <1>1, <2>1 DEF IInv, TypeOK
<1>3. NoAbort' /\ FreeListLinked' /\ Snapshots'
  BY ZenonT(60), <1>1 DEF IInv, NoAbort, FreeListLinked, Snapshots
<1>4. SoleOwnership'
  BY ZenonT(60), <1>1, OwnershipKept DEF IInv, Owns, InHand
<1>5. StateLinked'
  BY ZenonT(60), <1>1 DEF IInv, StateLinked, OnStack, InQueue
<1> QED BY ZenonT(60), <1>2, <1>3, <1>4, <1>5 DEF IInv

(* The last reference is gone: the slot is in the hand of the thread that    *)
(* dropped it.                                                               *)
LEMMA DropRefStep ==
  ASSUME IInv, NEW t \in Threads, NEW x \in Slots, DropRef(t, x)
  PROVE  IInv'
<1>1. pc[t] = "idle" /\ x \in refs[t] /\ states[x] = "Retained"
  BY ZenonT(60) DEF DropRef, At, IInv, StateLinked
<1>2. /\ x \notin lease[t]
      /\ \A u \in Threads \ {t} : ~Owns(u, x)
  BY ZenonT(60), <1>1 DEF IInv, SoleOwnership, StateLinked, Owns
<1>3. cur[t] = slot_count
  BY ZenonT(60), <1>1 DEF IInv, StateLinked, FreeInHand
<1>4. /\ ref_count' = [ref_count EXCEPT ![x] = @ - 1]
      /\ UNCHANGED <<free_head, free_next, stack, free_count, outstanding, retained, states,
                     return_queue, mutex, lease, op, h, nx, allocs>>
  BY ZenonT(60) DEF DropRef
<1>5. ref_count' \in [Slots -> Int]
  BY SMTT(60), <1>4 DEF IInv, TypeOK
<1>6. CASE ref_count[x] # 1
  <2>1. UNCHANGED <<refs, cur, pc>>
    BY ZenonT(60), <1>6 DEF DropRef
  <2>2. TypeOK'
    BY ZenonT(60), <1>4, <1>5, <2>1 DEF IInv, TypeOK
  <2>3. NoAbort' /\ FreeListLinked' /\ Snapshots'
    BY ZenonT(60), <1>4, <2>1 DEF IInv, NoAbort, FreeListLinked, Snapshots
  <2>4. SoleOwnership'
    BY ZenonT(60), <1>4, <2>1, OwnershipKept DEF IInv, Owns, InHand
  <2>5. StateLinked'
    BY ZenonT(60), <1>4, <2>1 DEF IInv, StateLinked, OnStack, InQueue
  <2> QED BY ZenonT(60), <2>2, <2>3, <2>4, <2>5 DEF IInv
<1>7. CASE ref_count[x] = 1
  <2>1. /\ refs' = [refs EXCEPT ![t] = @ \ {x}]
        /\ cur' = [cur EXCEPT ![t] = x]
        /\ pc' = [pc EXCEPT ![t] = "lastRef"]
    BY ZenonT(60), <1>7 DEF DropRef, Goto
  <2>2. TypeOK'
    <3>1. refs' \in [Threads -> SUBSET Slots]
      BY ZenonT(60), <2>1 DEF IInv, TypeOK
    <3>2. cur' \in [Threads -> 0..slot_count]
      BY ZenonT(60), <2>1, SlotFacts DEF IInv, TypeOK
    <3>3. pc' \in [Threads -> Labels]
      BY ZenonT(60), <2>1 DEF IInv, TypeOK, Labels
    <3> QED BY ZenonT(60), <1>4, <1>5, <3>1, <3>2, <3>3 DEF IInv, TypeOK
  <2>3. /\ pc'[t] = "lastRef" /\ cur'[t] = x /\ refs'[t] = refs[t] \ {x}
        /\ \A u \in Threads \ {t} : pc'[u] = pc[u] /\ cur'[u] = cur[u] /\ refs'[u] = refs[u]
    BY ZenonT(60), <2>1 DEF IInv, TypeOK
  <2>4. NoAbort'
    BY ZenonT(60), <2>3 DEF IInv, NoAbort
  <2>5. FreeListLinked' /\ Snapshots'
    BY ZenonT(60), <1>4, <2>3, ListKept
  <2>6. SoleOwnership'
    <3>1. \A u \in Threads, s \in Slots : Owns(u, s)' <=> Owns(u, s)
      BY ZenonT(60), <1>1, <1>3, <1>4, <2>3, SlotFacts DEF Owns, InHand
    <3> QED BY ZenonT(60), <1>4, <3>1, OwnershipKept DEF IInv
  <2>7. StateLinked'
    <3>1. "lastRef" \notin FreeInHand
      BY ZenonT(60) DEF FreeInHand
    <3> QED BY SMTT(60), <1>1, <1>4, <2>3, <3>1 DEF IInv, StateLinked, OnStack, InQueue
  <2> QED BY ZenonT(60), <2>2, <2>4, <2>5, <2>6, <2>7 DEF IInv
<1> QED BY ZenonT(60), <1>6, <1>7

(* Allocate hands the slot it popped to its caller.                          *)
LEMMA TakeLeaseStep ==
  ASSUME IInv, NEW t \in Threads, TakeLease(t)
  PROVE  IInv'
<1> DEFINE x == cur[t]
<1>1. pc[t] = "take"
  BY ZenonT(60) DEF TakeLease, At
<1>2. /\ x \in Slots /\ ~OnStack(x) /\ ~InQueue(x)
      /\ \A u \in Threads : x \notin lease[u] /\ x \notin refs[u]
      /\ \A u \in Threads \ {t} : cur[u] # x
  BY ZenonT(60), <1>1, InHandFacts DEF FreeInHand
<1>3. states[x] = "Free"
  BY ZenonT(60), <1>1 DEF IInv, StateLinked, FreeInHand
<1>4. /\ states' = [states EXCEPT ![x] = "Leased"]
      /\ outstanding' = outstanding + 1
      /\ lease' = [lease EXCEPT ![t] = @ \cup {x}]
      /\ op' = [op EXCEPT ![t] = "none"]
      /\ cur' = [cur EXCEPT ![t] = slot_count]
      /\ pc' = [pc EXCEPT ![t] = "idle"]
      /\ UNCHANGED <<free_head, free_next, stack, free_count, retained, return_queue,
                     ref_count, mutex, refs, h, nx, allocs>>
  BY ZenonT(60), <1>3 DEF TakeLease, Goto
<1>5. TypeOK'
  <2>1. states' \in [Slots -> {"Free", "Leased", "Retained", "Queued"}]
    BY ZenonT(60), <1>2, <1>4 DEF IInv, TypeOK
  <2>2. lease' \in [Threads -> SUBSET Slots]
    BY ZenonT(60), <1>2, <1>4 DEF IInv, TypeOK
  <2>3. cur' \in [Threads -> 0..slot_count]
    BY ZenonT(60), <1>4, SlotFacts DEF IInv, TypeOK
  <2>4. pc' \in [Threads -> Labels] /\ outstanding' \in Int
    BY <1>4 DEF IInv, TypeOK, Labels
  <2>5. op' \in [Threads -> {"none", "alloc", "retry", "return", "release", "drain"}]
    BY ZenonT(60), <1>4 DEF IInv, TypeOK
  <2> QED BY ZenonT(60), <1>4, <2>1, <2>2, <2>3, <2>4, <2>5 DEF IInv, TypeOK
<1>6. /\ pc'[t] = "idle" /\ cur'[t] = slot_count /\ lease'[t] = lease[t] \cup {x}
      /\ \A u \in Threads \ {t} : pc'[u] = pc[u] /\ cur'[u] = cur[u] /\ lease'[u] = lease[u]
      /\ states'[x] = "Leased" /\ \A s \in Slots \ {x} : states'[s] = states[s]
  BY ZenonT(60), <1>2, <1>4 DEF IInv, TypeOK
<1>7. NoAbort'
  BY ZenonT(60), <1>6 DEF IInv, NoAbort
<1>8. SoleOwnership'
  <2>1. \A u \in Threads, s \in Slots : Owns(u, s)' <=> Owns(u, s)
    BY <1>4, <1>6, SlotFacts DEF Owns, InHand
  <2> QED BY ZenonT(60), <1>4, <2>1, OwnershipKept DEF IInv
<1>9. FreeListLinked' /\ Snapshots'
  BY ZenonT(60), <1>4, <1>6, ListKept
<1>10. StateLinked'
  <2>1. \A s \in Slots : (OnStack(s)' => states'[s] = "Free") /\ (InQueue(s)' => states'[s] = "Queued")
    BY <1>2, <1>4, <1>6 DEF IInv, StateLinked, OnStack, InQueue
  <2>2. \A u \in Threads : lease[u] \subseteq Slots /\ refs[u] \subseteq Slots
    BY ZenonT(60) DEF IInv, TypeOK
  <2>3. \A u \in Threads : (\A s \in lease'[u] : states'[s] = "Leased") /\ (\A s \in refs'[u] : states'[s] = "Retained")
    BY <1>2, <1>4, <1>6, <2>2 DEF IInv, StateLinked
  <2>4. "idle" \notin FreeInHand \cup {"lastRef"} /\ slot_count \notin refs[t]
    BY ZenonT(60), <2>2, SlotFacts DEF FreeInHand
  <2> QED BY SMTT(60), <1>2, <1>4, <1>6, <2>1, <2>3, <2>4 DEF IInv, StateLinked
<1> QED BY ZenonT(60), <1>5, <1>7, <1>8, <1>9, <1>10 DEF IInv

(* The owner thread takes its lease back and is about to push the slot.      *)
LEMMA ReturnOwnerStep ==
  ASSUME IInv, NEW t \in Threads, NEW x \in Slots, ReturnOwner(t, x)
  PROVE  IInv'
<1>1. pc[t] = "idle" /\ x \in lease[t] /\ states[x] = "Leased"
  BY ZenonT(60) DEF ReturnOwner, At, IInv, StateLinked
<1>2. /\ Owns(t, x) /\ ~OnStack(x) /\ ~InQueue(x) /\ x \notin refs[t]
      /\ \A u \in Threads \ {t} : x \notin lease[u] /\ x \notin refs[u] /\ cur[u] # x
  BY ZenonT(60), <1>1 DEF IInv, SoleOwnership, StateLinked, Owns, InHand
<1>3. cur[t] = slot_count
  BY ZenonT(60), <1>1 DEF IInv, StateLinked, FreeInHand
<1>4. /\ states' = [states EXCEPT ![x] = "Free"]
      /\ outstanding' = outstanding - 1
      /\ lease' = [lease EXCEPT ![t] = @ \ {x}]
      /\ op' = [op EXCEPT ![t] = "return"]
      /\ cur' = [cur EXCEPT ![t] = x]
      /\ pc' = [pc EXCEPT ![t] = "pushNext"]
      /\ h' = [h EXCEPT ![t] = free_head]
      /\ UNCHANGED <<free_head, free_next, stack, free_count, retained, return_queue, ref_count,
                     mutex, refs, nx, allocs>>
  BY ZenonT(60), <1>1 DEF ReturnOwner, Goto, LoadHead
<1>5. TypeOK'
  <2>1. states' \in [Slots -> {"Free", "Leased", "Retained", "Queued"}]
    BY ZenonT(60), <1>4 DEF IInv, TypeOK
  <2>2. lease' \in [Threads -> SUBSET Slots]
    BY ZenonT(60), <1>4 DEF IInv, TypeOK
  <2>3. cur' \in [Threads -> 0..slot_count]
    BY ZenonT(60), <1>4, SlotFacts DEF IInv, TypeOK
  <2>4. pc' \in [Threads -> Labels] /\ outstanding' \in Int /\ h' \in [Threads -> Heads]
    BY <1>4 DEF IInv, TypeOK, Labels
  <2>5. op' \in [Threads -> {"none", "alloc", "retry", "return", "release", "drain"}]
    BY ZenonT(60), <1>4 DEF IInv, TypeOK
  <2> QED BY ZenonT(60), <1>4, <2>1, <2>2, <2>3, <2>4, <2>5 DEF IInv, TypeOK
<1>6. /\ pc'[t] = "pushNext" /\ cur'[t] = x /\ lease'[t] = lease[t] \ {x}
      /\ \A u \in Threads \ {t} : pc'[u] = pc[u] /\ cur'[u] = cur[u] /\ lease'[u] = lease[u]
      /\ states'[x] = "Free" /\ \A s \in Slots \ {x} : states'[s] = states[s]
  BY ZenonT(60), <1>4 DEF IInv, TypeOK
<1>7. NoAbort'
  BY ZenonT(60), <1>6 DEF IInv, NoAbort
<1>8. SoleOwnership'
  <2>1. \A u \in Threads, s \in Slots : Owns(u, s)' <=> Owns(u, s)
    BY SMTT(60), <1>1, <1>3, <1>4, <1>6, SlotFacts DEF Owns, InHand
  <2> QED BY ZenonT(60), <1>4, <2>1, OwnershipKept DEF IInv
<1>9. FreeListLinked' /\ Snapshots'
  BY ZenonT(60), <1>4, <1>6, ListKept
<1>10. StateLinked'
  <2>1. \A s \in Slots : (OnStack(s)' => states'[s] = "Free") /\ (InQueue(s)' => states'[s] = "Queued")
    BY <1>2, <1>4, <1>6 DEF IInv, StateLinked, OnStack, InQueue
  <2>2. \A u \in Threads : lease[u] \subseteq Slots /\ refs[u] \subseteq Slots
    BY ZenonT(60) DEF IInv, TypeOK
  <2>3. \A u \in Threads : (\A s \in lease'[u] : states'[s] = "Leased") /\ (\A s \in refs'[u] : states'[s] = "Retained")
    BY <1>2, <1>4, <1>6, <2>2 DEF IInv, StateLinked
  <2>4. "pushNext" \in FreeInHand /\ "pushNext" # "lastRef"
    BY ZenonT(60) DEF FreeInHand
  <2> QED BY SMTT(60), <1>2, <1>4, <1>6, <2>1, <2>3, <2>4 DEF IInv, StateLinked
<1> QED BY ZenonT(60), <1>5, <1>7, <1>8, <1>9, <1>10 DEF IInv

(* A lease moves between threads.                                            *)
LEMMA HandoffStep ==
  ASSUME IInv, NEW t \in Threads, NEW v \in Threads, NEW x \in Slots, Handoff(t, v, x)
  PROVE  IInv'
<1>1. /\ pc[t] = "idle" /\ x \in lease[t] /\ states[x] = "Leased" /\ t # v
      /\ lease' = [lease EXCEPT ![t] = @ \ {x}, ![v] = @ \cup {x}]
      /\ UNCHANGED <<free_head, free_next, stack, free_count, outstanding, retained, states,
                     return_queue, ref_count, mutex, refs, pc, op, h, nx, cur, allocs>>
  BY ZenonT(60) DEF Handoff, At, IInv, StateLinked
<1>2. /\ Owns(t, x) /\ ~OnStack(x) /\ ~InQueue(x) /\ x \notin refs[t]
      /\ \A u \in Threads \ {t} : ~Owns(u, x)
  BY ZenonT(60), <1>1 DEF IInv, SoleOwnership, StateLinked, Owns
<1>3. cur[t] = slot_count
  BY ZenonT(60), <1>1 DEF IInv, StateLinked, FreeInHand
<1>4. /\ lease'[t] = lease[t] \ {x} /\ lease'[v] = lease[v] \cup {x}
      /\ \A u \in Threads \ {t, v} : lease'[u] = lease[u]
      /\ lease' \in [Threads -> SUBSET Slots]
  BY ZenonT(60), <1>1 DEF IInv, TypeOK
<1> DEFINE others == <<free_head, free_next, stack, free_count, outstanding, retained, states,
                       return_queue, ref_count, mutex, refs, pc, op, h, nx, cur, allocs>>
<1>0. UNCHANGED others
  BY ZenonT(60), <1>1
<1>5. TypeOK'
  BY ZenonT(60), <1>0, <1>4 DEF IInv, TypeOK
<1>6. NoAbort' /\ FreeListLinked' /\ Snapshots'
  BY ZenonT(60), <1>0 DEF IInv, NoAbort, FreeListLinked, Snapshots
<1>7. SoleOwnership'
  <2>1. \A u \in Threads, s \in Slots \ {x} : Owns(u, s)' <=> Owns(u, s)
    BY ZenonT(60), <1>0, <1>4 DEF Owns, InHand
  <2>2. \A u \in Threads : Owns(u, x)' <=> u = v
    BY ZenonT(60), <1>0, <1>1, <1>2, <1>3, <1>4, SlotFacts DEF Owns, InHand
  <2>3. \A s \in Slots : (OnStack(s)' <=> OnStack(s)) /\ (InQueue(s)' <=> InQueue(s))
    BY ZenonT(60), <1>0 DEF OnStack, InQueue
  <2> DEFINE Sole(s) == /\ \A u, w \in Threads : Owns(u, s) /\ Owns(w, s) => u = w
                        /\ \A u \in Threads : Owns(u, s) => ~OnStack(s) /\ ~InQueue(s)
                        /\ ~(OnStack(s) /\ InQueue(s))
                        /\ OnStack(s) \/ InQueue(s) \/ \E u \in Threads : Owns(u, s)
  <2>4. \A s \in Slots \ {x} : Sole(s)'
    <3>1. \A s \in Slots : Sole(s)
      BY ZenonT(60) DEF IInv, SoleOwnership
    <3> QED BY ZenonT(60), <2>1, <2>3, <3>1
  <2>5. Sole(x)'
    BY ZenonT(60), <1>2, <2>2, <2>3
  <2>6. /\ \A i, j \in DOMAIN stack' : stack'[i] = stack'[j] => i = j
        /\ \A i, j \in DOMAIN return_queue' : return_queue'[i] = return_queue'[j] => i = j
    BY ZenonT(60), <1>0 DEF IInv, SoleOwnership
  <2> QED BY <2>4, <2>5, <2>6 DEF SoleOwnership
<1>8. StateLinked'
  BY <1>0, <1>1, <1>4 DEF IInv, StateLinked, OnStack, InQueue
<1> QED BY ZenonT(60), <1>5, <1>6, <1>7, <1>8 DEF IInv

(* A foreign thread parks its lease in the return queue.                     *)
LEMMA ReturnForeignStep ==
  ASSUME IInv, NEW t \in Threads, NEW x \in Slots, ReturnForeign(t, x)
  PROVE  IInv'
<1>1. pc[t] = "idle" /\ x \in lease[t] /\ states[x] = "Leased"
  BY ZenonT(60) DEF ReturnForeign, At, IInv, StateLinked
<1>2. /\ ~OnStack(x) /\ ~InQueue(x) /\ x \notin refs[t]
      /\ \A u \in Threads \ {t} : ~Owns(u, x)
  BY ZenonT(60), <1>1 DEF IInv, SoleOwnership, StateLinked, Owns
<1>3. cur[t] = slot_count
  BY ZenonT(60), <1>1 DEF IInv, StateLinked, FreeInHand
<1>4. /\ states' = [states EXCEPT ![x] = "Queued"]
      /\ lease' = [lease EXCEPT ![t] = @ \ {x}]
      /\ return_queue' = Append(return_queue, x)
      /\ UNCHANGED <<free_head, free_next, stack, free_count, outstanding, retained, ref_count,
                     mutex, refs, pc, op, h, nx, cur, allocs>>
  BY ZenonT(60), <1>1 DEF ReturnForeign
<1>5. /\ return_queue' \in Seq(Slots) /\ Distinct(return_queue')
      /\ \A s : Has(return_queue', s) <=> s = x \/ Has(return_queue, s)
  <2>1. return_queue \in Seq(Slots) /\ Distinct(return_queue) /\ ~Has(return_queue, x)
    BY ZenonT(60), <1>2 DEF IInv, TypeOK, SoleOwnership, Distinct, Has, InQueue
  <2> QED BY ZenonT(60), <1>4, <2>1, AppendDistinct
<1>6. TypeOK'
  <2>1. states' \in [Slots -> {"Free", "Leased", "Retained", "Queued"}]
    BY ZenonT(60), <1>4 DEF IInv, TypeOK
  <2>2. lease' \in [Threads -> SUBSET Slots]
    BY ZenonT(60), <1>4 DEF IInv, TypeOK
  <2> QED BY ZenonT(60), <1>4, <1>5, <2>1, <2>2 DEF IInv, TypeOK
<1>7. /\ lease'[t] = lease[t] \ {x} /\ \A u \in Threads \ {t} : lease'[u] = lease[u]
      /\ states'[x] = "Queued" /\ \A s \in Slots \ {x} : states'[s] = states[s]
  BY ZenonT(60), <1>4 DEF IInv, TypeOK
<1>8. NoAbort' /\ FreeListLinked' /\ Snapshots'
  BY ZenonT(60), <1>4 DEF IInv, NoAbort, FreeListLinked, Snapshots
<1>9. \A s \in Slots : (OnStack(s)' <=> OnStack(s)) /\ (InQueue(s)' <=> s = x \/ InQueue(s))
  BY ZenonT(60), <1>4, <1>5 DEF OnStack, InQueue, Has
<1>10. SoleOwnership'
  <2>1. \A u \in Threads, s \in Slots : Owns(u, s)' <=> Owns(u, s) /\ s # x
    BY ZenonT(60), <1>2, <1>3, <1>4, <1>7, SlotFacts DEF Owns, InHand
  <2> QED BY ZenonT(60), <1>2, <1>4, <1>5, <1>9, <2>1 DEF IInv, SoleOwnership, Distinct
<1>11. StateLinked'
  <2>1. \A u \in Threads : x \notin lease'[u] /\ x \notin refs'[u] /\ cur'[u] # x
    BY ZenonT(60), <1>2, <1>3, <1>4, <1>7, SlotFacts DEF Owns, InHand
  <2>2. \A u \in Threads : lease'[u] \subseteq Slots /\ refs[u] \subseteq Slots /\ lease'[u] \subseteq lease[u]
    BY ZenonT(60), <1>6, <1>7 DEF IInv, TypeOK
  <2>3. \A s \in Slots : (OnStack(s)' => states'[s] = "Free") /\ (InQueue(s)' => states'[s] = "Queued")
    BY SMTT(60), <1>2, <1>7, <1>9 DEF IInv, StateLinked
  <2> QED BY SMTT(60), <1>4, <1>7, <2>1, <2>2, <2>3 DEF IInv, StateLinked
<1> QED BY ZenonT(60), <1>6, <1>8, <1>10, <1>11 DEF IInv

-----------------------------------------------------------------------------
(* The steps under the mutex: the last reference, and the return queue. *)

(* The thread that dropped the last reference releases the slot: the owner   *)
(* is about to push it, any other thread queues it.                          *)
LEMMA ReleaseRetainedStep ==
  ASSUME IInv, NEW t \in Threads, ReleaseRetained(t)
  PROVE  IInv'
<1> DEFINE x == cur[t]
<1>1. pc[t] = "lastRef" /\ states[x] = "Retained"
  BY ZenonT(60) DEF ReleaseRetained, At, IInv, StateLinked
<1>2. /\ x \in Slots /\ ~OnStack(x) /\ ~InQueue(x)
      /\ \A u \in Threads : x \notin lease[u] /\ x \notin refs[u]
      /\ \A u \in Threads \ {t} : cur[u] # x
  BY ZenonT(60), <1>1, InHandFacts
<1>3. /\ retained' = retained - 1
      /\ UNCHANGED <<free_head, free_next, stack, free_count, ref_count, lease, refs, nx, allocs>>
  BY ZenonT(60), <1>1 DEF ReleaseRetained
<1>4. retained' \in Int
  BY SMTT(60), <1>3 DEF IInv, TypeOK
<1>5. \A u \in Threads : lease[u] \subseteq Slots /\ refs[u] \subseteq Slots
  BY ZenonT(60) DEF IInv, TypeOK
<1>6. CASE t = Owner
  <2>1. /\ states' = [states EXCEPT ![x] = "Free"]
        /\ outstanding' = outstanding - 1
        /\ mutex' = t
        /\ op' = [op EXCEPT ![t] = "release"]
        /\ h' = [h EXCEPT ![t] = free_head]
        /\ pc' = [pc EXCEPT ![t] = "pushNext"]
        /\ UNCHANGED <<cur, return_queue>>
    BY ZenonT(60), <1>1, <1>6 DEF ReleaseRetained, Goto, LoadHead
  <2>2. TypeOK'
    <3>1. states' \in [Slots -> {"Free", "Leased", "Retained", "Queued"}]
      BY ZenonT(60), <2>1 DEF IInv, TypeOK
    <3>2. pc' \in [Threads -> Labels] /\ outstanding' \in Int /\ h' \in [Threads -> Heads]
      BY SMTT(60), <2>1 DEF IInv, TypeOK, Labels
    <3>3. op' \in [Threads -> {"none", "alloc", "retry", "return", "release", "drain"}]
      BY ZenonT(60), <2>1 DEF IInv, TypeOK
    <3> QED BY ZenonT(60), <1>3, <1>4, <2>1, <3>1, <3>2, <3>3 DEF IInv, TypeOK
  <2>3. /\ pc'[t] = "pushNext" /\ \A u \in Threads \ {t} : pc'[u] = pc[u] /\ cur'[u] = cur[u]
        /\ states'[x] = "Free" /\ \A s \in Slots \ {x} : states'[s] = states[s]
    BY ZenonT(60), <1>2, <2>1 DEF IInv, TypeOK
  <2>4. NoAbort'
    BY ZenonT(60), <2>3 DEF IInv, NoAbort
  <2>5. FreeListLinked' /\ Snapshots'
    BY ZenonT(60), <1>3, <2>1, <2>3, ListKept
  <2>6. SoleOwnership'
    BY ZenonT(60), <1>3, <2>1, OwnershipKept DEF IInv, Owns, InHand
  <2>7. StateLinked'
    <3>1. "pushNext" \in FreeInHand /\ "pushNext" # "lastRef"
      BY ZenonT(60) DEF FreeInHand
    <3>2. \A s \in Slots : (OnStack(s)' => states'[s] = "Free") /\ (InQueue(s)' => states'[s] = "Queued")
      BY SMTT(60), <1>2, <1>3, <2>1, <2>3 DEF IInv, StateLinked, OnStack, InQueue
    <3> QED BY SMTT(60), <1>2, <1>3, <1>5, <2>1, <2>3, <3>1, <3>2 DEF IInv, StateLinked
  <2> QED BY ZenonT(60), <2>2, <2>4, <2>5, <2>6, <2>7 DEF IInv
<1>7. CASE t # Owner
  <2>1. /\ states' = [states EXCEPT ![x] = "Queued"]
        /\ return_queue' = Append(return_queue, x)
        /\ cur' = [cur EXCEPT ![t] = slot_count]
        /\ pc' = [pc EXCEPT ![t] = "idle"]
        /\ UNCHANGED <<outstanding, mutex, op, h>>
    BY ZenonT(60), <1>1, <1>7 DEF ReleaseRetained, Goto
  <2>2. /\ return_queue' \in Seq(Slots) /\ Distinct(return_queue')
        /\ \A s : Has(return_queue', s) <=> s = x \/ Has(return_queue, s)
    <3>1. return_queue \in Seq(Slots) /\ Distinct(return_queue) /\ ~Has(return_queue, x)
      BY ZenonT(60), <1>2 DEF IInv, TypeOK, SoleOwnership, Distinct, Has, InQueue
    <3> QED BY ZenonT(60), <1>2, <2>1, <3>1, AppendDistinct
  <2>3. TypeOK'
    <3>1. states' \in [Slots -> {"Free", "Leased", "Retained", "Queued"}]
      BY ZenonT(60), <2>1 DEF IInv, TypeOK
    <3>2. pc' \in [Threads -> Labels]
      BY ZenonT(60), <2>1 DEF IInv, TypeOK, Labels
    <3>3. cur' \in [Threads -> 0..slot_count]
      BY ZenonT(60), <2>1, SlotFacts DEF IInv, TypeOK
    <3> QED BY ZenonT(60), <1>3, <1>4, <2>1, <2>2, <3>1, <3>2, <3>3 DEF IInv, TypeOK
  <2>4. /\ pc'[t] = "idle" /\ cur'[t] = slot_count
        /\ \A u \in Threads \ {t} : pc'[u] = pc[u] /\ cur'[u] = cur[u]
        /\ states'[x] = "Queued" /\ \A s \in Slots \ {x} : states'[s] = states[s]
    BY ZenonT(60), <1>2, <2>1 DEF IInv, TypeOK
  <2>5. NoAbort'
    BY ZenonT(60), <2>4 DEF IInv, NoAbort
  <2>6. FreeListLinked' /\ Snapshots'
    BY ZenonT(60), <1>3, <2>1, <2>4, ListKept
  <2>7. \A s \in Slots : (OnStack(s)' <=> OnStack(s)) /\ (InQueue(s)' <=> s = x \/ InQueue(s))
    BY ZenonT(60), <1>3, <2>2 DEF OnStack, InQueue, Has
  <2>8. SoleOwnership'
    <3>1. \A u \in Threads, s \in Slots : Owns(u, s)' <=> Owns(u, s) /\ s # x
      BY SMTT(60), <1>2, <1>3, <2>4, SlotFacts DEF Owns, InHand
    <3> QED BY ZenonT(60), <1>2, <1>3, <2>2, <2>7, <3>1 DEF IInv, SoleOwnership, Distinct
  <2>9. StateLinked'
    <3>1. "idle" \notin FreeInHand \cup {"lastRef"} /\ slot_count \notin refs[t]
      BY ZenonT(60), <1>5, SlotFacts DEF FreeInHand
    <3>2. \A s \in Slots : (OnStack(s)' => states'[s] = "Free") /\ (InQueue(s)' => states'[s] = "Queued")
      BY SMTT(60), <1>2, <2>4, <2>7 DEF IInv, StateLinked
    <3> QED BY SMTT(60), <1>2, <1>3, <1>5, <2>4, <3>1, <3>2 DEF IInv, StateLinked
  <2> QED BY ZenonT(60), <2>3, <2>5, <2>6, <2>8, <2>9 DEF IInv
<1> QED BY ZenonT(60), <1>6, <1>7

(* DrainLocked takes the next slot of the return queue into its hand.        *)
LEMMA DrainTakesStep ==
  ASSUME IInv, NEW t \in Threads, DrainLocked(t), return_queue # << >>
  PROVE  IInv'
<1> DEFINE x == return_queue[1]
<1>1. pc[t] = "drain" /\ cur[t] = slot_count
  BY ZenonT(60) DEF DrainLocked, At, IInv, StateLinked, FreeInHand
<1>2. return_queue \in Seq(Slots) /\ Distinct(return_queue)
  BY ZenonT(60) DEF IInv, TypeOK, SoleOwnership, Distinct
<1>3. /\ Tail(return_queue) \in Seq(Slots) /\ Distinct(Tail(return_queue))
      /\ x \in Slots /\ Head(return_queue) = x
      /\ Has(return_queue, x) /\ ~Has(Tail(return_queue), x)
      /\ \A s : s # x => (Has(Tail(return_queue), s) <=> Has(return_queue, s))
  BY ZenonT(60), <1>2, TailDistinct
<1>4. states[x] = "Queued"
  BY ZenonT(60), <1>3 DEF IInv, StateLinked, Has, InQueue
<1>5. /\ cur' = [cur EXCEPT ![t] = x]
      /\ return_queue' = Tail(return_queue)
      /\ states' = [states EXCEPT ![x] = "Free"]
      /\ outstanding' = outstanding - 1
      /\ h' = [h EXCEPT ![t] = free_head]
      /\ pc' = [pc EXCEPT ![t] = "pushNext"]
      /\ UNCHANGED <<op, mutex, free_head, free_next, stack, free_count, retained, ref_count,
                     lease, refs, nx, allocs>>
  BY ZenonT(60), <1>3, <1>4 DEF DrainLocked, Goto, LoadHead
<1>6. TypeOK'
  <2>1. states' \in [Slots -> {"Free", "Leased", "Retained", "Queued"}]
    BY ZenonT(60), <1>5 DEF IInv, TypeOK
  <2>2. pc' \in [Threads -> Labels] /\ outstanding' \in Int /\ h' \in [Threads -> Heads]
    BY SMTT(60), <1>5 DEF IInv, TypeOK, Labels
  <2>3. cur' \in [Threads -> 0..slot_count]
    BY ZenonT(60), <1>3, <1>5, SlotFacts DEF IInv, TypeOK
  <2> QED BY ZenonT(60), <1>3, <1>5, <2>1, <2>2, <2>3 DEF IInv, TypeOK
<1>7. /\ pc'[t] = "pushNext" /\ cur'[t] = x
      /\ \A u \in Threads \ {t} : pc'[u] = pc[u] /\ cur'[u] = cur[u]
      /\ states'[x] = "Free" /\ \A s \in Slots \ {x} : states'[s] = states[s]
  BY ZenonT(60), <1>3, <1>5 DEF IInv, TypeOK
<1>8. NoAbort'
  BY ZenonT(60), <1>7 DEF IInv, NoAbort
<1>9. FreeListLinked' /\ Snapshots'
  BY ZenonT(60), <1>5, <1>7, ListKept
<1>10. \A s \in Slots : (OnStack(s)' <=> OnStack(s)) /\ (InQueue(s)' <=> InQueue(s) /\ s # x)
  BY ZenonT(60), <1>3, <1>5 DEF OnStack, InQueue, Has
<1>11. InQueue(x) /\ ~OnStack(x) /\ \A u \in Threads : ~Owns(u, x)
  BY ZenonT(60), <1>3 DEF IInv, SoleOwnership, InQueue, Has
<1>12. SoleOwnership'
  <2>1. \A u \in Threads, s \in Slots : Owns(u, s)' <=> Owns(u, s) \/ (u = t /\ s = x)
    BY ZenonT(60), <1>1, <1>5, <1>7, SlotFacts DEF Owns, InHand
  <2> QED BY SMTT(60), <1>3, <1>5, <1>10, <1>11, <2>1 DEF IInv, SoleOwnership, Distinct
<1>13. StateLinked'
  <2>1. "pushNext" \in FreeInHand /\ "pushNext" # "lastRef"
    BY ZenonT(60) DEF FreeInHand
  <2>2. \A u \in Threads : /\ lease[u] \subseteq Slots /\ refs[u] \subseteq Slots
                           /\ x \notin lease[u] /\ x \notin refs[u] /\ cur[u] # x
    BY ZenonT(60), <1>11 DEF IInv, TypeOK, Owns, InHand
  <2>3. \A s \in Slots : (OnStack(s)' => states'[s] = "Free") /\ (InQueue(s)' => states'[s] = "Queued")
    BY SMTT(60), <1>7, <1>10, <1>11 DEF IInv, StateLinked
  <2> QED BY SMTT(60), <1>3, <1>5, <1>7, <2>1, <2>2, <2>3 DEF IInv, StateLinked
<1> QED BY ZenonT(60), <1>6, <1>8, <1>9, <1>12, <1>13 DEF IInv

(* DrainLocked finds the queue empty: it returns, or Allocate tries again.   *)
LEMMA DrainEndsStep ==
  ASSUME IInv, NEW t \in Threads, DrainLocked(t), return_queue = << >>
  PROVE  IInv'
<1>1. /\ pc[t] = "drain"
      /\ \/ /\ h' = [h EXCEPT ![t] = free_head] /\ pc' = [pc EXCEPT ![t] = "popRead"]
            /\ UNCHANGED <<op, mutex>>
         \/ /\ mutex' = NoThread /\ op' = [op EXCEPT ![t] = "none"]
            /\ pc' = [pc EXCEPT ![t] = "idle"] /\ UNCHANGED h
      /\ UNCHANGED <<cur, return_queue, states, outstanding, free_head, free_next, stack,
                     free_count, retained, ref_count, lease, refs, nx, allocs>>
  BY ZenonT(60) DEF DrainLocked, Goto, LoadHead, At
<1>2. TypeOK'
  <2>1. pc' \in [Threads -> Labels]
    BY ZenonT(60), <1>1 DEF IInv, TypeOK, Labels
  <2>2. h' \in [Threads -> Heads] /\ mutex' \in Threads \cup {NoThread}
    BY ZenonT(60), <1>1 DEF IInv, TypeOK
  <2>3. op' \in [Threads -> {"none", "alloc", "retry", "return", "release", "drain"}]
    BY ZenonT(60), <1>1 DEF IInv, TypeOK
  <2> QED BY ZenonT(60), <1>1, <2>1, <2>2, <2>3 DEF IInv, TypeOK
<1>3. pc'[t] \in {"popRead", "idle"} /\ \A u \in Threads \ {t} : pc'[u] = pc[u] /\ cur'[u] = cur[u]
  BY ZenonT(60), <1>1 DEF IInv, TypeOK
<1>4. NoAbort'
  BY ZenonT(60), <1>3 DEF IInv, NoAbort
<1>5. SoleOwnership'
  BY ZenonT(60), <1>1, OwnershipKept DEF IInv, Owns, InHand
<1>6. FreeListLinked' /\ Snapshots'
  BY ZenonT(60), <1>1, <1>3, ListKept
<1>7. StateLinked'
  <2>1. {"drain", "popRead", "idle"} \cap (FreeInHand \cup {"lastRef"}) = {}
    BY ZenonT(60) DEF FreeInHand
  <2> QED BY SMTT(60), <1>1, <1>3, <2>1 DEF IInv, StateLinked, OnStack, InQueue
<1> QED BY ZenonT(60), <1>2, <1>4, <1>5, <1>6, <1>7 DEF IInv

-----------------------------------------------------------------------------
(* The theorems about every behaviour of the pool.                          *)

(* Every step preserves the invariant.                                       *)
LEMMA NextIInv == IInv /\ [Next]_vars => IInv'
<1> SUFFICES ASSUME IInv, [Next]_vars PROVE IInv'
  BY ZenonT(60)
<1>1. CASE UNCHANGED vars
  <2>1. TypeOK' /\ NoAbort' /\ FreeListLinked' /\ Snapshots'
    BY ZenonT(60), <1>1 DEF IInv, vars, TypeOK, NoAbort, FreeListLinked, Snapshots
  <2>2. SoleOwnership'
    BY ZenonT(60), <1>1, OwnershipKept DEF IInv, vars, Owns, InHand
  <2>3. StateLinked'
    BY ZenonT(60), <1>1 DEF IInv, vars, StateLinked, OnStack, InQueue
  <2> QED BY ZenonT(60), <2>1, <2>2, <2>3 DEF IInv
<1>2. ASSUME NEW t \in Threads, Step(t) PROVE IInv'
  <2>1. CASE Allocate(t) \/ PopRead(t) \/ PopCas(t) \/ PopCount(t) \/ TakeLease(t)
    BY ZenonT(60), <2>1, AllocateStep, PopReadStep, PopCasStep, PopCountStep, TakeLeaseStep
  <2>2. CASE PushNext(t) \/ PushCas(t) \/ PushCount(t)
    BY ZenonT(60), <2>2, PushNextStep, PushCasStep, PushCountStep
  <2>3. CASE ReleaseRetained(t) \/ DrainReturnQueue(t) \/ Lock(t)
    BY ZenonT(60), <2>3, ReleaseRetainedStep, DrainReturnQueueStep, LockStep
  <2>4. CASE DrainLocked(t)
    BY ZenonT(60), <2>4, DrainTakesStep, DrainEndsStep
  <2>5. ASSUME NEW s \in Slots,
               \/ ReturnOwner(t, s) \/ ReturnForeign(t, s) \/ Retain(t, s)
               \/ CopyRef(t, s) \/ DropRef(t, s)
        PROVE  IInv'
    BY ZenonT(60), <2>5, ReturnOwnerStep, ReturnForeignStep, RetainStep, CopyRefStep, DropRefStep
  <2>6. ASSUME NEW s \in Slots, NEW u \in Threads, Handoff(t, u, s) PROVE IInv'
    BY ZenonT(60), <2>6, HandoffStep
  <2> QED BY ZenonT(60), <1>2, <2>1, <2>2, <2>3, <2>4, <2>5, <2>6 DEF Step
<1> QED BY ZenonT(60), <1>1, <1>2 DEF Next

(* The inductive invariant of the pool: sole ownership, the linked free list *)
(* and what a thread that is between the loads and the CAS of TryPop knows   *)
(* about it.                                                                 *)
THEOREM Invariance == Spec => []IInv
<1> QED BY InitIInv, NextIInv, PTL DEF Spec

(* No index, state or register of the pool ever leaves its range.           *)
THEOREM TypeCorrect == Spec => []TypeOK
<1>1. IInv => TypeOK
  BY ZenonT(60) DEF IInv
<1> QED BY <1>1, Invariance, PTL

(* Allocate, Release, Retain and DrainReturnQueue, run by any number of      *)
(* threads at once, never meet a slot in the wrong state: Die() is not       *)
(* reached.                                                                  *)
THEOREM NeverAborts == Spec => []NoAbort
<1>1. IInv => NoAbort
  BY ZenonT(60) DEF IInv
<1> QED BY <1>1, Invariance, PTL

(* No slot is ever handed out twice or lost, in a pool of any size.          *)
THEOREM OwnershipIsSole == Spec => []SoleOwnership
<1>1. IInv => SoleOwnership
  BY ZenonT(60) DEF IInv
<1> QED BY <1>1, Invariance, PTL

(* The lock-free list stays the chain of exactly the free slots: the tagged  *)
(* head is enough against a stale head or successor.                         *)
THEOREM ListStaysLinked == Spec => []FreeListLinked
<1>1. IInv => FreeListLinked
  BY ZenonT(60) DEF IInv
<1> QED BY <1>1, Invariance, PTL

(* How a transition of one slot changes the number of slots not free.        *)
Busy(f) == {s \in Slots : f[s] # "Free"}

(* Sets of busy slots are finite.                                            *)
LEMMA BusyFinite == \A f : IsFiniteSet(Busy(f)) /\ Cardinality(Busy(f)) \in Nat
<1> SUFFICES ASSUME NEW f PROVE IsFiniteSet(Busy(f)) /\ Cardinality(Busy(f)) \in Nat
  BY ZenonT(60)
<1>1. IsFiniteSet(Slots)
  BY SMTT(60), FS_Interval, PoolAssumption DEF Slots
<1>2. Busy(f) \subseteq Slots
  BY ZenonT(60) DEF Busy
<1> QED BY ZenonT(60), <1>1, <1>2, FS_Subset, FS_CardinalityType

States == {"Free", "Leased", "Retained", "Queued"}

(* Changing the state of one slot changes the number of busy slots by at     *)
(* most one.                                                                 *)
LEMMA BusyChange ==
  ASSUME NEW f \in [Slots -> States], NEW x \in Slots, NEW v \in States,
         NEW g, g = [f EXCEPT ![x] = v]
  PROVE  /\ f[x] = "Free" /\ v # "Free" => Cardinality(Busy(g)) = Cardinality(Busy(f)) + 1
         /\ f[x] # "Free" /\ v = "Free" => Cardinality(Busy(g)) = Cardinality(Busy(f)) - 1
         /\ f[x] # "Free" /\ v # "Free" => Cardinality(Busy(g)) = Cardinality(Busy(f))
<1>1. ASSUME f[x] = "Free", v # "Free" PROVE Cardinality(Busy(g)) = Cardinality(Busy(f)) + 1
  <2>1. Busy(g) = Busy(f) \cup {x} /\ x \notin Busy(f)
    BY ZenonT(60), <1>1 DEF Busy
  <2> QED BY ZenonT(60), <2>1, BusyFinite, FS_AddElement
<1>2. ASSUME f[x] # "Free", v = "Free" PROVE Cardinality(Busy(g)) = Cardinality(Busy(f)) - 1
  <2>1. Busy(g) = Busy(f) \ {x} /\ x \in Busy(f)
    BY ZenonT(60), <1>2 DEF Busy
  <2> QED BY ZenonT(60), <2>1, BusyFinite, FS_RemoveElement
<1>3. ASSUME f[x] # "Free", v # "Free" PROVE Cardinality(Busy(g)) = Cardinality(Busy(f))
  <2>1. Busy(g) = Busy(f)
    BY ZenonT(60), <1>3 DEF Busy
  <2> QED BY ZenonT(60), <2>1
<1> QED BY ZenonT(60), <1>1, <1>2, <1>3

(* Every step changes the outstanding count with the slot it takes or frees. *)
LEMMA OutstandingStep ==
  ASSUME IInv, OutstandingExact, [Next]_vars
  PROVE  OutstandingExact'
<1> USE DEF OutstandingExact
<1>1. states \in [Slots -> States] /\ Cardinality(Busy(states)) \in Nat
      /\ outstanding = Cardinality(Busy(states))
  BY ZenonT(60), BusyFinite DEF IInv, TypeOK, Busy, States
<1>2. ASSUME UNCHANGED <<states, outstanding>> PROVE OutstandingExact'
  BY ZenonT(60), <1>2
<1>3. ASSUME NEW x \in Slots, NEW v \in States, states' = [states EXCEPT ![x] = v],
             \/ states[x] = "Free" /\ v # "Free" /\ outstanding' = outstanding + 1
             \/ states[x] # "Free" /\ v = "Free" /\ outstanding' = outstanding - 1
             \/ states[x] # "Free" /\ v # "Free" /\ outstanding' = outstanding
      PROVE  OutstandingExact'
  <2>1. outstanding' = Cardinality(Busy(states'))
    <3>1. /\ states[x] = "Free" /\ v # "Free" => Cardinality(Busy(states')) = Cardinality(Busy(states)) + 1
          /\ states[x] # "Free" /\ v = "Free" => Cardinality(Busy(states')) = Cardinality(Busy(states)) - 1
          /\ states[x] # "Free" /\ v # "Free" => Cardinality(Busy(states')) = Cardinality(Busy(states))
      <4>1. states \in [Slots -> States] /\ states' = [states EXCEPT ![x] = v]
        BY ZenonT(60), <1>1, <1>3
      <4> QED BY <4>1, BusyChange, Zenon
    <3> QED BY ZenonT(60), <1>1, <1>3, <3>1
  <2> QED BY ZenonT(60), <2>1 DEF Busy
<1>4. ASSUME NEW t \in Threads, Step(t) PROVE OutstandingExact'
  <2>1. CASE Allocate(t) \/ PopRead(t) \/ PopCas(t) \/ PopCount(t) \/ PushNext(t) \/ PushCas(t)
             \/ PushCount(t) \/ DrainReturnQueue(t) \/ Lock(t)
    BY ZenonT(60), <1>2, <2>1 DEF Allocate, PopRead, PopCas, PopCount, PushNext, PushCas, PushCount,
                      DrainReturnQueue, Lock
  <2>2. CASE TakeLease(t)
    <3>1. states[cur[t]] = "Free" /\ cur[t] \in Slots
      BY ZenonT(60), <2>2 DEF IInv, StateLinked, TakeLease, At, FreeInHand
    <3>2. states' = [states EXCEPT ![cur[t]] = "Leased"] /\ outstanding' = outstanding + 1
      BY ZenonT(60), <2>2, <3>1 DEF TakeLease
    <3> QED BY ZenonT(60), <1>3, <3>1, <3>2 DEF States
  <2>3. CASE ReleaseRetained(t)
    <3>1. states[cur[t]] = "Retained" /\ cur[t] \in Slots
      BY ZenonT(60), <2>3 DEF IInv, StateLinked, ReleaseRetained, At
    <3>2. \/ states' = [states EXCEPT ![cur[t]] = "Free"] /\ outstanding' = outstanding - 1
          \/ states' = [states EXCEPT ![cur[t]] = "Queued"] /\ outstanding' = outstanding
      BY ZenonT(60), <2>3, <3>1 DEF ReleaseRetained
    <3> QED BY ZenonT(60), <1>3, <3>1, <3>2 DEF States
  <2>4. CASE DrainLocked(t)
    <3>1. CASE return_queue = << >>
      BY ZenonT(60), <1>2, <2>4, <3>1 DEF DrainLocked
    <3>2. CASE return_queue # << >>
      <4> DEFINE x == Head(return_queue)
      <4>1. x = return_queue[1] /\ 1 \in DOMAIN return_queue /\ x \in Slots
        BY SMTT(60), <3>2 DEF IInv, TypeOK
      <4>2. states[x] = "Queued"
        BY SMTT(60), <4>1 DEF IInv, StateLinked, InQueue
      <4>3. states' = [states EXCEPT ![x] = "Free"] /\ outstanding' = outstanding - 1
        BY ZenonT(60), <2>4, <3>2, <4>2 DEF DrainLocked
      <4> QED BY ZenonT(60), <1>3, <4>1, <4>2, <4>3 DEF States
    <3> QED BY ZenonT(60), <3>1, <3>2
  <2>5. ASSUME NEW s \in Slots, ReturnOwner(t, s) PROVE OutstandingExact'
    <3>1. states[s] = "Leased"
      BY ZenonT(60), <2>5 DEF IInv, StateLinked, ReturnOwner
    <3>2. states' = [states EXCEPT ![s] = "Free"] /\ outstanding' = outstanding - 1
      BY ZenonT(60), <2>5, <3>1 DEF ReturnOwner
    <3> QED BY ZenonT(60), <1>3, <3>1, <3>2 DEF States
  <2>6. ASSUME NEW s \in Slots, ReturnForeign(t, s) PROVE OutstandingExact'
    <3>1. states[s] = "Leased"
      BY ZenonT(60), <2>6 DEF IInv, StateLinked, ReturnForeign
    <3>2. states' = [states EXCEPT ![s] = "Queued"] /\ outstanding' = outstanding
      BY ZenonT(60), <2>6, <3>1 DEF ReturnForeign
    <3> QED BY ZenonT(60), <1>3, <3>1, <3>2 DEF States
  <2>7. ASSUME NEW s \in Slots, Retain(t, s) PROVE OutstandingExact'
    <3>1. states[s] = "Leased"
      BY ZenonT(60), <2>7 DEF IInv, StateLinked, Retain
    <3>2. states' = [states EXCEPT ![s] = "Retained"] /\ outstanding' = outstanding
      BY ZenonT(60), <2>7, <3>1 DEF Retain
    <3> QED BY ZenonT(60), <1>3, <3>1, <3>2 DEF States
  <2>8. ASSUME NEW s \in Slots, CopyRef(t, s) \/ DropRef(t, s) \/ \E u \in Threads : Handoff(t, u,
  s)
        PROVE OutstandingExact'
    BY ZenonT(60), <1>2, <2>8 DEF CopyRef, DropRef, Handoff
  <2> QED BY ZenonT(60), <1>4, <2>1, <2>2, <2>3, <2>4, <2>5, <2>6, <2>7, <2>8 DEF Step
<1>5. CASE UNCHANGED vars
  BY ZenonT(60), <1>2, <1>5 DEF vars
<1> QED BY ZenonT(60), <1>4, <1>5 DEF Next

(* outstanding_ counts exactly the slots that are leased, retained or parked *)
(* in the return queue, at every moment and for any number of threads.       *)
THEOREM OutstandingIsExact == Spec => []OutstandingExact
<1>1. Init => OutstandingExact
  <2> SUFFICES ASSUME Init PROVE OutstandingExact
    BY ZenonT(60)
  <2>1. {s \in Slots : states[s] # "Free"} = {}
    BY ZenonT(60) DEF Init
  <2> QED BY ZenonT(60), <2>1, FS_EmptySet DEF Init, OutstandingExact
<1>2. IInv /\ OutstandingExact /\ [Next]_vars => OutstandingExact'
  BY ZenonT(60), OutstandingStep
<1> QED BY <1>1, <1>2, Invariance, PTL DEF Spec

-----------------------------------------------------------------------------
(* The other two counters.  free_count_ follows the list one step later:     *)
(* between its CAS and its fetch_add a thread has changed the list and not   *)
(* the counter.                                                              *)

Standing(p, label) == {t \in Threads : p[t] = label}
Count(p, label) == Cardinality(Standing(p, label))

FreeLags == free_count = Len(stack) + Count(pc, "popCount") - Count(pc, "pushCount")
RetainedExact == retained = Cardinality({s \in Slots : states[s] = "Retained"})

LEMMA StandingFinite == \A p, l : IsFiniteSet(Standing(p, l)) /\ Count(p, l) \in Nat
<1> SUFFICES ASSUME NEW p, NEW l PROVE IsFiniteSet(Standing(p, l)) /\ Count(p, l) \in Nat
  BY ZenonT(60)
<1>1. IsFiniteSet(Threads)
  BY ZenonT(60), PoolAssumption
<1>2. Standing(p, l) \subseteq Threads
  BY ZenonT(60) DEF Standing
<1> QED BY ZenonT(60), <1>1, <1>2, FS_Subset, FS_CardinalityType DEF Count

(* A thread that moves changes the numbers at the two labels it moves        *)
(* between, and no other.                                                    *)
Moved(p, q, t, m) ==
    \A l : /\ p[t] = l /\ m # l => Count(q, l) = Count(p, l) - 1
           /\ p[t] # l /\ m = l => Count(q, l) = Count(p, l) + 1
           /\ p[t] # l /\ m # l => Count(q, l) = Count(p, l)

LEMMA CountChange ==
  ASSUME NEW p \in [Threads -> Labels], NEW t \in Threads, NEW m,
         NEW q, q = [p EXCEPT ![t] = m]
  PROVE  Moved(p, q, t, m)
<1> SUFFICES ASSUME NEW l
             PROVE  /\ p[t] = l /\ m # l => Count(q, l) = Count(p, l) - 1
                    /\ p[t] # l /\ m = l => Count(q, l) = Count(p, l) + 1
                    /\ p[t] # l /\ m # l => Count(q, l) = Count(p, l)
  BY ZenonT(60) DEF Moved
<1>1. ASSUME p[t] = l, m # l PROVE Count(q, l) = Count(p, l) - 1
  <2>1. Standing(q, l) = Standing(p, l) \ {t} /\ t \in Standing(p, l)
    BY ZenonT(60), <1>1 DEF Standing
  <2> QED BY ZenonT(60), <2>1, StandingFinite, FS_RemoveElement DEF Count
<1>2. ASSUME p[t] # l, m = l PROVE Count(q, l) = Count(p, l) + 1
  <2>1. Standing(q, l) = Standing(p, l) \cup {t} /\ t \notin Standing(p, l)
    BY ZenonT(60), <1>2 DEF Standing
  <2> QED BY ZenonT(60), <2>1, StandingFinite, FS_AddElement DEF Count
<1>3. ASSUME p[t] # l, m # l PROVE Count(q, l) = Count(p, l)
  <2>1. Standing(q, l) = Standing(p, l)
    BY ZenonT(60), <1>3 DEF Standing
  <2> QED BY ZenonT(60), <2>1 DEF Count
<1> QED BY ZenonT(60), <1>1, <1>2, <1>3

LEMMA FreeLagsStep ==
  ASSUME IInv, FreeLags, [Next]_vars
  PROVE  FreeLags'
<1>0. /\ pc \in [Threads -> Labels] /\ stack \in Seq(Slots) /\ free_count \in Int
      /\ Count(pc, "popCount") \in Nat /\ Count(pc, "pushCount") \in Nat
  BY ZenonT(60), StandingFinite DEF IInv, TypeOK
<1>00. Len(stack) \in Nat
  BY <1>0
<1>01. \A t \in Threads : \A m : pc' = [pc EXCEPT ![t] = m] => Moved(pc, pc', t, m)
  BY ZenonT(60), <1>0, CountChange
<1>1. ASSUME UNCHANGED <<stack, free_count, pc>> PROVE FreeLags'
  BY ZenonT(60), <1>1 DEF FreeLags
<1>2. ASSUME NEW t \in Threads, NEW m, pc' = [pc EXCEPT ![t] = m], UNCHANGED <<stack, free_count>>,
             pc[t] # "popCount", pc[t] # "pushCount", m # "popCount", m # "pushCount"
      PROVE  FreeLags'
  <2>1. Count(pc', "popCount") = Count(pc, "popCount") /\ Count(pc', "pushCount") = Count(pc, "pushCount")
    BY ZenonT(60), <1>01, <1>2 DEF Moved
  <2> QED BY ZenonT(60), <1>2, <2>1 DEF FreeLags
<1>3. ASSUME NEW t \in Threads, Step(t) PROVE FreeLags'
  <2>1. CASE Allocate(t) \/ PushNext(t) \/ DrainReturnQueue(t) \/ Lock(t)
    <3>1. PICK m \in {"popRead", "pushCas", "lock", "drain"} : pc' = [pc EXCEPT ![t] = m]
      BY ZenonT(60), <2>1 DEF Allocate, PushNext, DrainReturnQueue, Lock, Goto
    <3>2. pc[t] \in {"idle", "pushNext", "lock"} /\ UNCHANGED <<stack, free_count>>
      BY ZenonT(60), <2>1 DEF Allocate, PushNext, DrainReturnQueue, Lock, At
    <3> QED BY ZenonT(60), <1>2, <3>1, <3>2
  <2>2. CASE PopRead(t)
    <3>1. PICK m \in {"popCas", "lock", "idle"} : pc' = [pc EXCEPT ![t] = m]
      BY ZenonT(60), <2>2 DEF PopRead, Goto
    <3>2. pc[t] = "popRead" /\ UNCHANGED <<stack, free_count>>
      BY ZenonT(60), <2>2 DEF PopRead, At
    <3> QED BY ZenonT(60), <1>2, <3>1, <3>2
  <2>3. CASE PopCas(t)
    <3>1. pc[t] = "popCas" /\ free_count' = free_count
      BY ZenonT(60), <2>3 DEF PopCas, At
    <3>2. CASE free_head # h[t]
      <4>1. pc' = [pc EXCEPT ![t] = "popRead"] /\ stack' = stack
        BY ZenonT(60), <2>3, <3>2 DEF PopCas, Goto
      <4> QED BY ZenonT(60), <1>2, <3>1, <4>1
    <3>3. CASE free_head = h[t]
      <4>1. pc' = [pc EXCEPT ![t] = "popCount"] /\ stack' = Tail(stack)
        BY ZenonT(60), <2>3, <3>3 DEF PopCas, Goto
      <4>2. free_head.idx \in Nat /\ free_head.idx < slot_count
        BY SMTT(60), <3>1, <3>3 DEF IInv, TypeOK, Heads, Snapshots
      <4>3. stack # << >>
        BY ZenonT(60), <4>2, HeadOnStack
      <4>4. Len(stack') = Len(stack) - 1
        BY <1>0, <4>1, <4>3
      <4>5. Moved(pc, pc', t, "popCount")
        BY ZenonT(60), <1>01, <4>1
      <4>6. /\ Count(pc', "popCount") = Count(pc, "popCount") + 1
            /\ Count(pc', "pushCount") = Count(pc, "pushCount")
        BY ZenonT(60), <3>1, <4>5 DEF Moved
      <4> QED BY <1>0, <1>00, <3>1, <4>4, <4>6 DEF FreeLags
    <3> QED BY ZenonT(60), <3>2, <3>3
  <2>4. CASE PopCount(t)
    <3>1. /\ pc[t] = "popCount" /\ pc' = [pc EXCEPT ![t] = "take"]
          /\ free_count' = free_count - 1 /\ stack' = stack
      BY ZenonT(60), <2>4 DEF PopCount, At, Goto
    <3>2. Moved(pc, pc', t, "take") /\ pc[t] = "popCount"
      BY ZenonT(60), <1>01, <3>1
    <3>3. /\ Count(pc', "popCount") = Count(pc, "popCount") - 1
          /\ Count(pc', "pushCount") = Count(pc, "pushCount")
      BY ZenonT(60), <3>2 DEF Moved
    <3> QED BY <1>0, <1>00, <3>1, <3>3 DEF FreeLags
  <2>5. CASE TakeLease(t)
    <3>1. PICK m \in {"dead", "idle"} : pc' = [pc EXCEPT ![t] = m]
      BY ZenonT(60), <2>5 DEF TakeLease, Goto, Die
    <3>2. pc[t] = "take" /\ UNCHANGED <<stack, free_count>>
      BY ZenonT(60), <2>5 DEF TakeLease, At
    <3> QED BY ZenonT(60), <1>2, <3>1, <3>2
  <2>6. CASE PushCas(t)
    <3>1. pc[t] = "pushCas" /\ free_count' = free_count
      BY ZenonT(60), <2>6 DEF PushCas, At
    <3>2. CASE free_head # h[t]
      <4>1. pc' = [pc EXCEPT ![t] = "pushNext"] /\ stack' = stack
        BY ZenonT(60), <2>6, <3>2 DEF PushCas, Goto
      <4> QED BY ZenonT(60), <1>2, <3>1, <4>1
    <3>3. CASE free_head = h[t]
      <4>1. pc' = [pc EXCEPT ![t] = "pushCount"] /\ stack' = <<cur[t]>> \o stack
        BY ZenonT(60), <2>6, <3>3 DEF PushCas, Goto
      <4>2. cur[t] \in Slots
        BY ZenonT(60), <3>1 DEF IInv, StateLinked, FreeInHand
      <4>3. Len(stack') = Len(stack) + 1
        BY <1>0, <4>1, <4>2
      <4>4. Moved(pc, pc', t, "pushCount")
        BY ZenonT(60), <1>01, <4>1
      <4>5. /\ Count(pc', "popCount") = Count(pc, "popCount")
            /\ Count(pc', "pushCount") = Count(pc, "pushCount") + 1
        BY ZenonT(60), <3>1, <4>4 DEF Moved
      <4> QED BY <1>0, <1>00, <3>1, <4>3, <4>5 DEF FreeLags
    <3> QED BY ZenonT(60), <3>2, <3>3
  <2>7. CASE PushCount(t)
    <3>1. PICK m \in {"drain", "idle"} : pc' = [pc EXCEPT ![t] = m]
      BY ZenonT(60), <2>7 DEF PushCount, Goto
    <3>2. pc[t] = "pushCount" /\ free_count' = free_count + 1 /\ stack' = stack
      BY ZenonT(60), <2>7 DEF PushCount, At
    <3>3. /\ Count(pc', "popCount") = Count(pc, "popCount")
          /\ Count(pc', "pushCount") = Count(pc, "pushCount") - 1
      BY ZenonT(60), <1>01, <3>1, <3>2 DEF Moved
    <3> QED BY <1>0, <1>00, <3>2, <3>3 DEF FreeLags
  <2>8. CASE ReleaseRetained(t)
    <3>1. PICK m \in {"dead", "pushNext", "idle"} : pc' = [pc EXCEPT ![t] = m]
      BY ZenonT(60), <2>8 DEF ReleaseRetained, Goto, Die
    <3>2. pc[t] = "lastRef" /\ UNCHANGED <<stack, free_count>>
      BY ZenonT(60), <2>8 DEF ReleaseRetained, At
    <3> QED BY ZenonT(60), <1>2, <3>1, <3>2
  <2>9. CASE DrainLocked(t)
    <3>1. PICK m \in {"dead", "pushNext", "popRead", "idle"} : pc' = [pc EXCEPT ![t] = m]
      BY ZenonT(60), <2>9 DEF DrainLocked, Goto, Die
    <3>2. pc[t] = "drain" /\ UNCHANGED <<stack, free_count>>
      BY ZenonT(60), <2>9 DEF DrainLocked, At
    <3> QED BY ZenonT(60), <1>2, <3>1, <3>2
  <2>10. ASSUME NEW s \in Slots,
                \/ ReturnOwner(t, s) \/ ReturnForeign(t, s) \/ Retain(t, s) \/ CopyRef(t, s)
                \/ DropRef(t, s) \/ \E u \in Threads : Handoff(t, u, s)
         PROVE  FreeLags'
    <3>1. /\ pc' = pc \/ \E m \in {"dead", "pushNext", "lastRef"} : pc' = [pc EXCEPT ![t] = m]
          /\ pc[t] = "idle" /\ UNCHANGED <<stack, free_count>>
      BY ZenonT(60), <2>10 DEF ReturnOwner, ReturnForeign, Retain, CopyRef, DropRef, Handoff, At, Goto, Die
    <3> QED BY ZenonT(60), <1>1, <1>2, <3>1
  <2> QED BY ZenonT(60), <1>3, <2>1, <2>2, <2>3, <2>4, <2>5, <2>6, <2>7, <2>8, <2>9, <2>10 DEF Step
<1>4. CASE UNCHANGED vars
  BY ZenonT(60), <1>1, <1>4 DEF vars
<1> QED BY ZenonT(60), <1>3, <1>4 DEF Next

(* retained_ changes in the step that changes the state of its slot.         *)
Kept(f) == {s \in Slots : f[s] = "Retained"}

LEMMA KeptFinite == \A f : IsFiniteSet(Kept(f)) /\ Cardinality(Kept(f)) \in Nat
<1> SUFFICES ASSUME NEW f PROVE IsFiniteSet(Kept(f)) /\ Cardinality(Kept(f)) \in Nat
  BY ZenonT(60)
<1>1. IsFiniteSet(Slots)
  BY SMTT(60), FS_Interval, PoolAssumption DEF Slots
<1>2. Kept(f) \subseteq Slots
  BY ZenonT(60) DEF Kept
<1> QED BY ZenonT(60), <1>1, <1>2, FS_Subset, FS_CardinalityType

LEMMA KeptChange ==
  ASSUME NEW f \in [Slots -> States], NEW x \in Slots, NEW v \in States,
         NEW g, g = [f EXCEPT ![x] = v]
  PROVE  /\ f[x] # "Retained" /\ v = "Retained" => Cardinality(Kept(g)) = Cardinality(Kept(f)) + 1
         /\ f[x] = "Retained" /\ v # "Retained" => Cardinality(Kept(g)) = Cardinality(Kept(f)) - 1
         /\ f[x] # "Retained" /\ v # "Retained" => Cardinality(Kept(g)) = Cardinality(Kept(f))
<1>1. ASSUME f[x] # "Retained", v = "Retained" PROVE Cardinality(Kept(g)) = Cardinality(Kept(f)) + 1
  <2>1. Kept(g) = Kept(f) \cup {x} /\ x \notin Kept(f)
    BY ZenonT(60), <1>1 DEF Kept
  <2> QED BY ZenonT(60), <2>1, KeptFinite, FS_AddElement
<1>2. ASSUME f[x] = "Retained", v # "Retained" PROVE Cardinality(Kept(g)) = Cardinality(Kept(f)) - 1
  <2>1. Kept(g) = Kept(f) \ {x} /\ x \in Kept(f)
    BY ZenonT(60), <1>2 DEF Kept
  <2> QED BY ZenonT(60), <2>1, KeptFinite, FS_RemoveElement
<1>3. ASSUME f[x] # "Retained", v # "Retained" PROVE Cardinality(Kept(g)) = Cardinality(Kept(f))
  <2>1. Kept(g) = Kept(f)
    BY ZenonT(60), <1>3 DEF Kept
  <2> QED BY ZenonT(60), <2>1
<1> QED BY ZenonT(60), <1>1, <1>2, <1>3

LEMMA RetainedStep ==
  ASSUME IInv, RetainedExact, [Next]_vars
  PROVE  RetainedExact'
<1> USE DEF RetainedExact
<1>1. states \in [Slots -> States] /\ retained = Cardinality(Kept(states))
  BY ZenonT(60) DEF IInv, TypeOK, Kept, States
<1>2. ASSUME UNCHANGED <<states, retained>> PROVE RetainedExact'
  BY ZenonT(60), <1>2
<1>3. ASSUME NEW x \in Slots, NEW v \in States, states' = [states EXCEPT ![x] = v],
             \/ states[x] # "Retained" /\ v = "Retained" /\ retained' = retained + 1
             \/ states[x] = "Retained" /\ v # "Retained" /\ retained' = retained - 1
             \/ states[x] # "Retained" /\ v # "Retained" /\ retained' = retained
      PROVE  RetainedExact'
  <2>1. retained' = Cardinality(Kept(states'))
    <3>1. /\ states[x] # "Retained" /\ v = "Retained" => Cardinality(Kept(states')) = Cardinality(Kept(states)) + 1
          /\ states[x] = "Retained" /\ v # "Retained" => Cardinality(Kept(states')) = Cardinality(Kept(states)) - 1
          /\ states[x] # "Retained" /\ v # "Retained" => Cardinality(Kept(states')) = Cardinality(Kept(states))
      <4>1. states \in [Slots -> States] /\ states' = [states EXCEPT ![x] = v]
        BY ZenonT(60), <1>1, <1>3
      <4> QED BY <4>1, KeptChange, Zenon
    <3> QED BY ZenonT(60), <1>1, <1>3, <3>1
  <2> QED BY ZenonT(60), <2>1 DEF Kept
<1>4. ASSUME NEW t \in Threads, Step(t) PROVE RetainedExact'
  <2>1. CASE Allocate(t) \/ PopRead(t) \/ PopCas(t) \/ PopCount(t) \/ PushNext(t) \/ PushCas(t)
             \/ PushCount(t) \/ DrainReturnQueue(t) \/ Lock(t)
    BY ZenonT(60), <1>2, <2>1 DEF Allocate, PopRead, PopCas, PopCount, PushNext, PushCas, PushCount,
                      DrainReturnQueue, Lock
  <2>2. CASE TakeLease(t)
    <3>1. states[cur[t]] = "Free" /\ cur[t] \in Slots
      BY ZenonT(60), <2>2 DEF IInv, StateLinked, TakeLease, At, FreeInHand
    <3>2. states' = [states EXCEPT ![cur[t]] = "Leased"] /\ retained' = retained
      BY ZenonT(60), <2>2, <3>1 DEF TakeLease
    <3> QED BY ZenonT(60), <1>3, <3>1, <3>2 DEF States
  <2>3. CASE ReleaseRetained(t)
    <3>1. states[cur[t]] = "Retained" /\ cur[t] \in Slots
      BY ZenonT(60), <2>3 DEF IInv, StateLinked, ReleaseRetained, At
    <3>2. /\ \E v \in {"Free", "Queued"} : states' = [states EXCEPT ![cur[t]] = v]
          /\ retained' = retained - 1
      BY ZenonT(60), <2>3, <3>1 DEF ReleaseRetained
    <3> QED BY ZenonT(60), <1>3, <3>1, <3>2 DEF States
  <2>4. CASE DrainLocked(t)
    <3>1. CASE return_queue = << >>
      BY ZenonT(60), <1>2, <2>4, <3>1 DEF DrainLocked
    <3>2. CASE return_queue # << >>
      <4> DEFINE x == Head(return_queue)
      <4>1. x = return_queue[1] /\ 1 \in DOMAIN return_queue /\ x \in Slots
        BY SMTT(60), <3>2 DEF IInv, TypeOK
      <4>2. states[x] = "Queued"
        BY SMTT(60), <4>1 DEF IInv, StateLinked, InQueue
      <4>3. states' = [states EXCEPT ![x] = "Free"] /\ retained' = retained
        BY ZenonT(60), <2>4, <3>2, <4>2 DEF DrainLocked
      <4> QED BY ZenonT(60), <1>3, <4>1, <4>2, <4>3 DEF States
    <3> QED BY ZenonT(60), <3>1, <3>2
  <2>5. ASSUME NEW s \in Slots, ReturnOwner(t, s) \/ ReturnForeign(t, s) PROVE RetainedExact'
    <3>1. states[s] = "Leased"
      BY ZenonT(60), <2>5 DEF IInv, StateLinked, ReturnOwner, ReturnForeign
    <3>2. /\ \E v \in {"Free", "Queued"} : states' = [states EXCEPT ![s] = v]
          /\ retained' = retained
      BY ZenonT(60), <2>5, <3>1 DEF ReturnOwner, ReturnForeign
    <3> QED BY ZenonT(60), <1>3, <3>1, <3>2 DEF States
  <2>6. ASSUME NEW s \in Slots, Retain(t, s) PROVE RetainedExact'
    <3>1. states[s] = "Leased"
      BY ZenonT(60), <2>6 DEF IInv, StateLinked, Retain
    <3>2. states' = [states EXCEPT ![s] = "Retained"] /\ retained' = retained + 1
      BY ZenonT(60), <2>6, <3>1 DEF Retain
    <3> QED BY ZenonT(60), <1>3, <3>1, <3>2 DEF States
  <2>7. ASSUME NEW s \in Slots, CopyRef(t, s) \/ DropRef(t, s) \/ \E u \in Threads : Handoff(t, u, s)
        PROVE  RetainedExact'
    BY ZenonT(60), <1>2, <2>7 DEF CopyRef, DropRef, Handoff
  <2> QED BY ZenonT(60), <1>4, <2>1, <2>2, <2>3, <2>4, <2>5, <2>6, <2>7 DEF Step
<1>5. CASE UNCHANGED vars
  BY ZenonT(60), <1>2, <1>5 DEF vars
<1> QED BY ZenonT(60), <1>4, <1>5 DEF Next

(* While no call is under way every free slot is on the list.                *)
LEMMA QuietList ==
  ASSUME IInv, \A t \in Threads : pc[t] = "idle"
  PROVE  Len(stack) = Cardinality({s \in Slots : states[s] = "Free"})
<1> DEFINE F == {s \in Slots : states[s] = "Free"}
<1>1. \A s \in Slots : states[s] = "Free" <=> OnStack(s)
  <2> SUFFICES ASSUME NEW s \in Slots, states[s] = "Free" PROVE OnStack(s)
    BY ZenonT(60) DEF IInv, StateLinked
  <2>1. ~InQueue(s)
    BY ZenonT(60) DEF IInv, StateLinked
  <2>2. ASSUME NEW t \in Threads PROVE ~Owns(t, s)
    <3>1. cur[t] = slot_count
      BY ZenonT(60) DEF IInv, StateLinked, FreeInHand
    <3>2. s \notin lease[t] /\ s \notin refs[t]
      BY ZenonT(60) DEF IInv, StateLinked
    <3> QED BY ZenonT(60), <3>1, <3>2, SlotFacts DEF Owns, InHand
  <2> QED BY ZenonT(60), <2>1, <2>2 DEF IInv, SoleOwnership
<1>2. /\ Len(stack) \in Nat /\ DOMAIN stack = 1..Len(stack) /\ stack \in [1..Len(stack) -> Slots]
  BY DEF IInv, TypeOK
<1>3. stack \in Bijection(1..Len(stack), F)
  <2>1. \A i \in 1..Len(stack) : stack[i] \in F
    BY ZenonT(60), <1>1, <1>2 DEF OnStack
  <2>2. \A s \in F : \E i \in 1..Len(stack) : stack[i] = s
    BY ZenonT(60), <1>1, <1>2 DEF OnStack
  <2>3. \A i, j \in 1..Len(stack) : stack[i] = stack[j] => i = j
    BY ZenonT(60), <1>2 DEF IInv, SoleOwnership
  <2>4. stack \in [1..Len(stack) -> F]
    BY <1>2, <2>1
  <2> HIDE DEF F
  <2> QED BY ZenonT(60), <1>2, <2>2, <2>3, <2>4 DEF Bijection, Injection, Surjection, IsInjective
<1>4. IsFiniteSet(1..Len(stack)) /\ Cardinality(1..Len(stack)) = Len(stack)
  BY <1>2, FS_Interval
<1> HIDE DEF F
<1>5. Cardinality(F) = Cardinality(1..Len(stack))
  BY ZenonT(60), <1>3, <1>4, FS_Bijection DEF ExistsBijection
<1> QED BY ZenonT(60), <1>4, <1>5 DEF F

(* The list is the chain of the free slots, and whenever no call is under    *)
(* way FreeCount(), OutstandingCount() and the retained count are exact:     *)
(* for any number of threads and slots, no interleaving leaks a slot.        *)
THEOREM FreeListIsExact == Spec => []FreeListExact
<1>1. Init => FreeLags /\ RetainedExact
  <2> SUFFICES ASSUME Init PROVE FreeLags /\ RetainedExact
    BY ZenonT(60)
  <2>1. Standing(pc, "popCount") = {} /\ Standing(pc, "pushCount") = {}
    BY ZenonT(60) DEF Init, Standing
  <2>2. Count(pc, "popCount") = 0 /\ Count(pc, "pushCount") = 0
    BY ZenonT(60), <2>1, FS_EmptySet DEF Count
  <2>3. Len(stack) = slot_count /\ free_count = slot_count
    BY PoolAssumption DEF Init
  <2>4. {s \in Slots : states[s] = "Retained"} = {}
    BY ZenonT(60) DEF Init
  <2>5. RetainedExact
    BY ZenonT(60), <2>4, FS_EmptySet DEF Init, RetainedExact
  <2>6. FreeLags
    BY <2>2, <2>3, PoolAssumption DEF FreeLags
  <2> QED BY ZenonT(60), <2>5, <2>6
<1>2. IInv /\ (FreeLags /\ RetainedExact) /\ [Next]_vars => (FreeLags /\ RetainedExact)'
  BY ZenonT(60), FreeLagsStep, RetainedStep
<1>3. IInv /\ OutstandingExact /\ FreeLags /\ RetainedExact => FreeListExact
  <2> SUFFICES ASSUME IInv, OutstandingExact, FreeLags, RetainedExact, \A t \in Threads : pc[t] = "idle"
               PROVE  free_count = Len(stack) /\ free_count + outstanding = slot_count
    BY ZenonT(60) DEF FreeListExact, CountersAgree, RetainedExact, IInv
  <2>1. Standing(pc, "popCount") = {} /\ Standing(pc, "pushCount") = {}
    BY ZenonT(60) DEF Standing
  <2>2. Count(pc, "popCount") = 0 /\ Count(pc, "pushCount") = 0
    BY ZenonT(60), <2>1, FS_EmptySet DEF Count
  <2>3. free_count = Len(stack)
    BY <2>2 DEF FreeLags, IInv, TypeOK
  <2> DEFINE F == {s \in Slots : states[s] = "Free"}
  <2>4. F = Slots \ Busy(states) /\ Slots \cap Busy(states) = Busy(states)
    BY ZenonT(60) DEF Busy
  <2>5. IsFiniteSet(Slots) /\ Cardinality(Slots) = slot_count
    BY SMTT(60), FS_Interval, PoolAssumption DEF Slots
  <2>6. Len(stack) = Cardinality(F)
    BY ZenonT(60), QuietList
  <2> HIDE DEF F
  <2>7. Cardinality(F) = Cardinality(Slots) - Cardinality(Busy(states))
    BY ZenonT(60), <2>4, <2>5, FS_Difference
  <2>8. outstanding = Cardinality(Busy(states)) /\ Cardinality(Busy(states)) \in Nat
    BY ZenonT(60), BusyFinite DEF OutstandingExact, Busy
  <2> QED BY <2>3, <2>5, <2>6, <2>7, <2>8, PoolAssumption
<1> QED BY <1>1, <1>2, <1>3, Invariance, OutstandingIsExact, PTL DEF Spec
=============================================================================
