---------------------------- MODULE BufferPool ----------------------------
(***************************************************************************)
(* PktBufferPool (include/tcpip2/buffer.h, src/core/buffer_pool.cpp): a    *)
(* fixed set of packet buffers shared by the owning shard thread, the      *)
(* packet backend that allocates receive buffers, and every thread that    *)
(* drops a lease.  The free list is a lock-free LIFO behind a tagged head  *)
(* word; releases on a foreign thread are parked in a return queue under   *)
(* the mutex.  A step is one access to shared state: a load of free_head_, *)
(* a read or write of free_next_, a compare-and-swap, a counter update, or *)
(* a critical section that touches nothing outside the mutex.              *)
(*                                                                         *)
(* The 32-bit tag is a natural number here: it is taken not to wrap within *)
(* the window of one compare-and-swap.  stack is a history variable: what  *)
(* the linked list behind free_head_ holds, changed by each successful     *)
(* compare-and-swap.                                                       *)
(***************************************************************************)
EXTENDS Naturals, Integers, Sequences, FiniteSets

CONSTANTS slot_count,   \* slots of the pool
          Threads,      \* every thread that touches the pool
          NoThread,     \* mutex_ is not held
          Owner,        \* owner_thread_id_: the shard thread
          MaxAllocs,    \* bound: calls of Allocate in a behaviour
          MaxRefs       \* bound: BufferRef copies of one slot

ASSUME PoolAssumption == /\ slot_count \in Nat
                         /\ IsFiniteSet(Threads)
                         /\ Owner \in Threads
                         /\ NoThread \notin Threads
                         /\ MaxAllocs \in Nat
                         /\ MaxRefs \in Nat \ {0}

Slots == 0..(slot_count - 1)

VARIABLES free_head,     \* [tag, idx]: the packed 64-bit word
          free_next,     \* successor of a slot on the list
          free_count, outstanding, retained,
          states, return_queue,
          ref_count,
          mutex,         \* the thread that holds mutex_
          lease, refs,   \* the slots each thread holds a BufferLease / BufferRef to
          pc, op, h, nx, cur,   \* per thread: position, call, loaded head, loaded next, slot in hand
          allocs, stack

list  == <<free_head, free_next, stack>>
local == <<pc, op, h, nx, cur>>
vars  == <<free_head, free_next, stack, free_count, outstanding, retained, states, return_queue,
           ref_count, mutex, lease, refs, pc, op, h, nx, cur, allocs>>

Init == /\ free_head = [tag |-> 0, idx |-> 0]
        /\ free_next = [i \in 0..slot_count |-> IF i = slot_count THEN i ELSE i + 1]
        /\ stack = [i \in 1..slot_count |-> i - 1]
        /\ free_count = slot_count /\ outstanding = 0 /\ retained = 0
        /\ states = [s \in Slots |-> "Free"]
        /\ return_queue = << >>
        /\ ref_count = [s \in Slots |-> 0]
        /\ mutex = NoThread
        /\ lease = [t \in Threads |-> {}] /\ refs = [t \in Threads |-> {}]
        /\ pc = [t \in Threads |-> "idle"] /\ op = [t \in Threads |-> "none"]
        /\ h = [t \in Threads |-> free_head] /\ nx = [t \in Threads |-> 0]
        /\ cur = [t \in Threads |-> slot_count]
        /\ allocs = 0

At(t, label) == pc[t] = label
Goto(t, label) == pc' = [pc EXCEPT ![t] = label]
InQueue(s) == \E i \in DOMAIN return_queue : return_queue[i] = s
LoadHead(t) == h' = [h EXCEPT ![t] = free_head]

(* An invalid transition aborts the process. *)
Die(t) == Goto(t, "dead")

-----------------------------------------------------------------------------
(* PopFree, called by Allocate (op "alloc") and, with the mutex held, by   *)
(* Allocate after it drained the return queue (op "retry").                *)

Allocate(t) == /\ At(t, "idle") /\ allocs < MaxAllocs
               /\ allocs' = allocs + 1
               /\ op' = [op EXCEPT ![t] = "alloc"]
               /\ LoadHead(t) /\ Goto(t, "popRead")
               /\ UNCHANGED <<free_head, free_next, stack, free_count, outstanding, retained,
                              states, return_queue, ref_count, mutex, lease, refs, nx, cur>>

PopRead(t) ==
    /\ At(t, "popRead")
    /\ IF h[t].idx < slot_count
       THEN /\ nx' = [nx EXCEPT ![t] = free_next[h[t].idx]]
            /\ Goto(t, "popCas") /\ UNCHANGED <<op, mutex>>
       ELSE IF op[t] = "alloc"
       THEN /\ op' = [op EXCEPT ![t] = "retry"]
            /\ Goto(t, "lock") /\ UNCHANGED <<nx, mutex>>
       ELSE /\ mutex' = NoThread               \* still exhausted: an empty lease
            /\ op' = [op EXCEPT ![t] = "none"]
            /\ Goto(t, "idle") /\ UNCHANGED nx
    /\ UNCHANGED <<free_head, free_next, stack, free_count, outstanding, retained, states,
                   return_queue, ref_count, lease, refs, h, cur, allocs>>

PopCas_Untagged(t) ==
    /\ At(t, "popCas")
    /\ IF free_head.idx = h[t].idx
       THEN /\ free_head' = [tag |-> free_head.tag + 1, idx |-> nx[t]]
            /\ stack' = IF stack = << >> THEN stack ELSE Tail(stack)
            /\ cur' = [cur EXCEPT ![t] = h[t].idx]
            /\ Goto(t, "popCount") /\ UNCHANGED h
       ELSE /\ LoadHead(t) /\ Goto(t, "popRead") /\ UNCHANGED <<free_head, stack, cur>>
    /\ UNCHANGED <<free_next, free_count, outstanding, retained, states, return_queue,
                   ref_count, mutex, lease, refs, op, nx, allocs>>

PopCas(t) ==
    /\ At(t, "popCas")
    /\ IF free_head = h[t]
       THEN /\ free_head' = [tag |-> free_head.tag + 1, idx |-> nx[t]]
            /\ stack' = Tail(stack)
            /\ cur' = [cur EXCEPT ![t] = h[t].idx]
            /\ Goto(t, "popCount") /\ UNCHANGED h
       ELSE /\ LoadHead(t) /\ Goto(t, "popRead") /\ UNCHANGED <<free_head, stack, cur>>
    /\ UNCHANGED <<free_next, free_count, outstanding, retained, states, return_queue,
                   ref_count, mutex, lease, refs, op, nx, allocs>>

(* The tail of PopFree; the retry leaves the critical section here. *)
PopCount(t) == /\ At(t, "popCount")
               /\ free_count' = free_count - 1
               /\ mutex' = IF op[t] = "retry" THEN NoThread ELSE mutex
               /\ Goto(t, "take")
               /\ UNCHANGED <<free_head, free_next, stack, outstanding, retained, states,
                              return_queue, ref_count, lease, refs, op, h, nx, cur, allocs>>

(* The tail of Allocate: the slot becomes a lease of the calling thread. *)
TakeLease(t) ==
    /\ At(t, "take")
    /\ IF states[cur[t]] # "Free"
       THEN Die(t) /\ UNCHANGED <<states, outstanding, lease, op, cur>>
       ELSE /\ states' = [states EXCEPT ![cur[t]] = "Leased"]
            /\ outstanding' = outstanding + 1
            /\ lease' = [lease EXCEPT ![t] = @ \cup {cur[t]}]
            /\ op' = [op EXCEPT ![t] = "none"]
            /\ cur' = [cur EXCEPT ![t] = slot_count]
            /\ Goto(t, "idle")
    /\ UNCHANGED <<free_head, free_next, stack, free_count, retained, return_queue,
                   ref_count, mutex, refs, h, nx, allocs>>

-----------------------------------------------------------------------------
(* PushFree, called by ReturnBuffer (op "return"), by ReleaseRetained with  *)
(* the mutex held (op "release"), and by DrainLocked.                       *)

PushNext(t) == /\ At(t, "pushNext")
               /\ free_next' = [free_next EXCEPT ![cur[t]] = h[t].idx]
               /\ Goto(t, "pushCas")
               /\ UNCHANGED <<free_head, stack, free_count, outstanding, retained, states,
                              return_queue, ref_count, mutex, lease, refs, op, h, nx, cur, allocs>>

PushCas_StaleNext(t) ==
    /\ At(t, "pushCas")
    /\ IF free_head = h[t]
       THEN /\ free_head' = [tag |-> free_head.tag + 1, idx |-> cur[t]]
            /\ stack' = <<cur[t]>> \o stack
            /\ cur' = [cur EXCEPT ![t] = slot_count]
            /\ Goto(t, "pushCount") /\ UNCHANGED h
       ELSE /\ LoadHead(t) /\ UNCHANGED <<free_head, stack, cur, pc>>
    /\ UNCHANGED <<free_next, free_count, outstanding, retained, states, return_queue,
                   ref_count, mutex, lease, refs, op, nx, allocs>>

PushCas(t) ==
    /\ At(t, "pushCas")
    /\ IF free_head = h[t]
       THEN /\ free_head' = [tag |-> free_head.tag + 1, idx |-> cur[t]]
            /\ stack' = <<cur[t]>> \o stack
            /\ cur' = [cur EXCEPT ![t] = slot_count]
            /\ Goto(t, "pushCount") /\ UNCHANGED h
       ELSE /\ LoadHead(t) /\ Goto(t, "pushNext") /\ UNCHANGED <<free_head, stack, cur>>
    /\ UNCHANGED <<free_next, free_count, outstanding, retained, states, return_queue,
                   ref_count, mutex, lease, refs, op, nx, allocs>>

PushCount(t) ==
    /\ At(t, "pushCount")
    /\ free_count' = free_count + 1
    /\ IF op[t] \in {"drain", "retry"}
       THEN Goto(t, "drain") /\ UNCHANGED <<op, mutex>>
       ELSE /\ Goto(t, "idle") /\ op' = [op EXCEPT ![t] = "none"]
            /\ mutex' = IF op[t] = "release" THEN NoThread ELSE mutex
    /\ UNCHANGED <<free_head, free_next, stack, outstanding, retained, states, return_queue,
                   ref_count, lease, refs, h, nx, cur, allocs>>

-----------------------------------------------------------------------------
(* BufferLease::Release and ReturnBuffer.  The lease is gone before the    *)
(* pool is called.                                                         *)

ReturnOwner(t, s) ==
    /\ At(t, "idle") /\ t = Owner /\ s \in lease[t]
    /\ lease' = [lease EXCEPT ![t] = @ \ {s}]
    /\ cur' = [cur EXCEPT ![t] = s]
    /\ IF states[s] # "Leased"
       THEN Die(t) /\ UNCHANGED <<states, outstanding, op, h>>
       ELSE /\ states' = [states EXCEPT ![s] = "Free"]
            /\ outstanding' = outstanding - 1
            /\ op' = [op EXCEPT ![t] = "return"]
            /\ LoadHead(t) /\ Goto(t, "pushNext")
    /\ UNCHANGED <<free_head, free_next, stack, free_count, retained, return_queue, ref_count,
                   mutex, refs, nx, allocs>>

ReturnForeign(t, s) ==
    /\ At(t, "idle") /\ t # Owner /\ s \in lease[t]
    /\ mutex = NoThread
    /\ lease' = [lease EXCEPT ![t] = @ \ {s}]
    /\ IF states[s] # "Leased"
       THEN /\ cur' = [cur EXCEPT ![t] = s]
            /\ Die(t) /\ UNCHANGED <<states, return_queue>>
       ELSE /\ states' = [states EXCEPT ![s] = "Queued"]
            /\ return_queue' = Append(return_queue, s)
            /\ UNCHANGED <<pc, cur>>
    /\ UNCHANGED <<free_head, free_next, stack, free_count, outstanding, retained, ref_count,
                   mutex, refs, op, h, nx, allocs>>

(* A lease moves to another thread (through a lane, an inbox or a session). *)
Handoff(t, u, s) ==
    /\ At(t, "idle") /\ t # u /\ s \in lease[t]
    /\ lease' = [lease EXCEPT ![t] = @ \ {s}, ![u] = @ \cup {s}]
    /\ UNCHANGED <<free_head, free_next, stack, free_count, outstanding, retained, states,
                   return_queue, ref_count, mutex, refs, pc, op, h, nx, cur, allocs>>

-----------------------------------------------------------------------------
(* Retain and BufferRef.  References stay on the thread that retained.      *)

Retain(t, s) ==
    /\ At(t, "idle") /\ s \in lease[t]
    /\ mutex = NoThread
    /\ IF states[s] # "Leased"
       THEN Die(t) /\ UNCHANGED <<states, retained, ref_count, lease, refs>>
       ELSE /\ states' = [states EXCEPT ![s] = "Retained"]
            /\ retained' = retained + 1
            /\ ref_count' = [ref_count EXCEPT ![s] = 1]
            /\ lease' = [lease EXCEPT ![t] = @ \ {s}]
            /\ refs' = [refs EXCEPT ![t] = @ \cup {s}]
            /\ UNCHANGED pc
    /\ UNCHANGED <<free_head, free_next, stack, free_count, outstanding, return_queue, mutex,
                   op, h, nx, cur, allocs>>

CopyRef(t, s) ==
    /\ At(t, "idle") /\ s \in refs[t] /\ ref_count[s] < MaxRefs
    /\ ref_count' = [ref_count EXCEPT ![s] = @ + 1]
    /\ UNCHANGED <<free_head, free_next, stack, free_count, outstanding, retained, states,
                   return_queue, mutex, lease, refs, pc, op, h, nx, cur, allocs>>

(* BufferRef::Release: the last reference calls ReleaseRetained. *)
DropRef(t, s) ==
    /\ At(t, "idle") /\ s \in refs[t]
    /\ ref_count' = [ref_count EXCEPT ![s] = @ - 1]
    /\ IF ref_count[s] = 1
       THEN /\ refs' = [refs EXCEPT ![t] = @ \ {s}]
            /\ cur' = [cur EXCEPT ![t] = s]
            /\ Goto(t, "lastRef")
       ELSE UNCHANGED <<refs, cur, pc>>
    /\ UNCHANGED <<free_head, free_next, stack, free_count, outstanding, retained, states,
                   return_queue, mutex, lease, op, h, nx, allocs>>

ReleaseRetained(t) ==
    /\ At(t, "lastRef")
    /\ mutex = NoThread
    /\ IF states[cur[t]] # "Retained"
       THEN Die(t) /\ UNCHANGED <<states, outstanding, retained, return_queue, mutex, op, h, cur>>
       ELSE /\ retained' = retained - 1
            /\ IF t = Owner
               THEN /\ states' = [states EXCEPT ![cur[t]] = "Free"]
                    /\ outstanding' = outstanding - 1
                    /\ mutex' = t
                    /\ op' = [op EXCEPT ![t] = "release"]
                    /\ LoadHead(t) /\ Goto(t, "pushNext")
                    /\ UNCHANGED <<cur, return_queue>>
               ELSE /\ states' = [states EXCEPT ![cur[t]] = "Queued"]
                    /\ return_queue' = Append(return_queue, cur[t])
                    /\ cur' = [cur EXCEPT ![t] = slot_count]
                    /\ Goto(t, "idle")
                    /\ UNCHANGED <<outstanding, mutex, op, h>>
    /\ UNCHANGED <<free_head, free_next, stack, free_count, ref_count, lease, refs, nx, allocs>>

-----------------------------------------------------------------------------
(* DrainReturnQueue, and DrainLocked inside it and inside Allocate.         *)

DrainReturnQueue(t) ==
    /\ At(t, "idle")
    /\ op' = [op EXCEPT ![t] = "drain"]
    /\ Goto(t, "lock")
    /\ UNCHANGED <<free_head, free_next, stack, free_count, outstanding, retained, states,
                   return_queue, ref_count, mutex, lease, refs, h, nx, cur, allocs>>

Lock(t) == /\ At(t, "lock") /\ mutex = NoThread
           /\ mutex' = t
           /\ Goto(t, "drain")
           /\ UNCHANGED <<free_head, free_next, stack, free_count, outstanding, retained, states,
                          return_queue, ref_count, lease, refs, op, h, nx, cur, allocs>>

DrainLocked_Forgets(t) ==
    /\ At(t, "drain")
    /\ states' = [s \in Slots |-> IF InQueue(s) THEN "Free" ELSE states[s]]
    /\ outstanding' = outstanding - Len(return_queue)
    /\ return_queue' = << >>
    /\ IF op[t] = "retry"
       THEN LoadHead(t) /\ Goto(t, "popRead") /\ UNCHANGED <<op, mutex>>
       ELSE /\ mutex' = NoThread
            /\ op' = [op EXCEPT ![t] = "none"]
            /\ Goto(t, "idle") /\ UNCHANGED h
    /\ UNCHANGED <<free_head, free_next, stack, free_count, retained, ref_count, lease, refs,
                   nx, cur, allocs>>

(* One turn of DrainLocked's loop up to the call of PushFree, or its exit. *)
DrainLocked(t) ==
    /\ At(t, "drain")
    /\ IF return_queue # << >>
       THEN /\ cur' = [cur EXCEPT ![t] = Head(return_queue)]
            /\ return_queue' = Tail(return_queue)
            /\ IF states[Head(return_queue)] # "Queued"
               THEN Die(t) /\ UNCHANGED <<states, outstanding, h>>
               ELSE /\ states' = [states EXCEPT ![Head(return_queue)] = "Free"]
                    /\ outstanding' = outstanding - 1
                    /\ LoadHead(t) /\ Goto(t, "pushNext")
            /\ UNCHANGED <<op, mutex>>
       ELSE /\ IF op[t] = "retry"
               THEN LoadHead(t) /\ Goto(t, "popRead") /\ UNCHANGED <<op, mutex>>
               ELSE /\ mutex' = NoThread
                    /\ op' = [op EXCEPT ![t] = "none"]
                    /\ Goto(t, "idle") /\ UNCHANGED h
            /\ UNCHANGED <<cur, return_queue, states, outstanding>>
    /\ UNCHANGED <<free_head, free_next, stack, free_count, retained, ref_count, lease, refs,
                   nx, allocs>>

-----------------------------------------------------------------------------
Step(t) == \/ Allocate(t) \/ PopRead(t) \/ PopCas(t) \/ PopCount(t) \/ TakeLease(t)
           \/ PushNext(t) \/ PushCas(t) \/ PushCount(t)
           \/ ReleaseRetained(t) \/ DrainReturnQueue(t) \/ Lock(t) \/ DrainLocked(t)
           \/ \E s \in Slots : \/ ReturnOwner(t, s) \/ ReturnForeign(t, s) \/ Retain(t, s)
                              \/ CopyRef(t, s) \/ DropRef(t, s)
                              \/ \E u \in Threads : Handoff(t, u, s)

Next == \E t \in Threads : Step(t)

Spec == Init /\ [][Next]_vars

-----------------------------------------------------------------------------
Heads == [tag : Nat, idx : 0..slot_count]
Labels == {"idle", "popRead", "popCas", "popCount", "take", "pushNext", "pushCas", "pushCount",
           "lastRef", "lock", "drain", "dead"}

(* The head word, the links, the counters and each thread's registers keep   *)
(* their ranges: no index the code follows ever leaves the slot array.       *)
TypeOK == /\ free_head \in Heads
          /\ free_next \in [0..slot_count -> 0..slot_count]
          /\ stack \in Seq(Slots)
          /\ free_count \in Int /\ outstanding \in Int /\ retained \in Int
          /\ states \in [Slots -> {"Free", "Leased", "Retained", "Queued"}]
          /\ return_queue \in Seq(Slots)
          /\ ref_count \in [Slots -> Int]
          /\ mutex \in Threads \cup {NoThread}
          /\ lease \in [Threads -> SUBSET Slots] /\ refs \in [Threads -> SUBSET Slots]
          /\ pc \in [Threads -> Labels]
          /\ op \in [Threads -> {"none", "alloc", "retry", "return", "release", "drain"}]
          /\ h \in [Threads -> Heads] /\ nx \in [Threads -> 0..slot_count]
          /\ cur \in [Threads -> 0..slot_count]
          /\ allocs \in Nat

(* Die() is never reached: as long as threads only release what they hold,  *)
(* no interleaving of allocations, releases and drains makes the pool see   *)
(* a slot in the wrong state.                                               *)
NoAbort == \A t \in Threads : pc[t] # "dead"

OnStack(s) == \E i \in DOMAIN stack : stack[i] = s
InHand(t, s) == cur[t] = s
Owns(t, s) == s \in lease[t] \/ s \in refs[t] \/ InHand(t, s)

(* A slot is never handed out twice: no two threads hold it, nobody holds a *)
(* slot that is on the free list or in the return queue, it is never on     *)
(* both, nor twice on either; and no slot is ever lost.                     *)
SoleOwnership ==
    /\ \A s \in Slots :
          /\ \A t, u \in Threads : Owns(t, s) /\ Owns(u, s) => t = u
          /\ \A t \in Threads : Owns(t, s) => ~OnStack(s) /\ ~InQueue(s)
          /\ ~(OnStack(s) /\ InQueue(s))
          /\ OnStack(s) \/ InQueue(s) \/ \E t \in Threads : Owns(t, s)
    /\ \A i, j \in DOMAIN stack : stack[i] = stack[j] => i = j
    /\ \A i, j \in DOMAIN return_queue : return_queue[i] = return_queue[j] => i = j

(* The links behind free_head_ lead through exactly the free slots and end  *)
(* at the sentinel, whatever stale head or successor a thread still holds.  *)
FreeListLinked ==
    /\ free_head.idx = (IF stack = << >> THEN slot_count ELSE stack[1])
    /\ \A i \in DOMAIN stack :
          free_next[stack[i]] = (IF i = Len(stack) THEN slot_count ELSE stack[i + 1])

(* outstanding_ is the number of slots that are leased, retained or queued: *)
(* Runtime::FinalizeResources destroys a pool on the strength of it.        *)
OutstandingExact == outstanding = Cardinality({s \in Slots : states[s] # "Free"})

(* Between calls the two counters tests use to find leaks add up, and the   *)
(* free list holds what FreeCount() says.                                   *)
CountersAgree == (\A t \in Threads : pc[t] = "idle") =>
                     /\ free_count = Len(stack)
                     /\ free_count + outstanding = slot_count
                     /\ retained = Cardinality({s \in Slots : states[s] = "Retained"})

(* The links from the head of the free list visit exactly the free slots,   *)
(* and when all threads are idle the counters say how many those are        *)
(* (PopFree, PushFree): no slot leaks out of the pool and none is counted   *)
(* twice.                                                                   *)
FreeListExact == TypeOK /\ FreeListLinked /\ CountersAgree

(* A buffer that a foreign thread released is eventually free again, given  *)
(* that the shard thread drains the return queue in every iteration of its  *)
(* loop and that calls, once started, run on.                               *)
Finish(t) == \/ PopRead(t) \/ PopCas(t) \/ PopCount(t) \/ TakeLease(t) \/ PushNext(t)
             \/ PushCas(t) \/ PushCount(t) \/ ReleaseRetained(t) \/ Lock(t) \/ DrainLocked(t)
FairSpec == /\ Spec
            /\ \A t \in Threads : WF_vars(Finish(t))
            /\ WF_vars(DrainReturnQueue(Owner))
QueuedIsFreed == \A s \in Slots : InQueue(s) ~> OnStack(s)
=============================================================================
