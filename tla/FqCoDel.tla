------------------------------ MODULE FqCoDel ------------------------------
(***************************************************************************)
(* The egress scheduler of a shard (qos/fq_codel.cpp) and the loop that     *)
(* drains it (StackShard::FlushTcpTx).  A fixed table of flow slots is      *)
(* probed linearly by flow hash; slots with packets wait on the list of new *)
(* flows or on the round-robin list of old flows; CoDel drops or marks what *)
(* waited too long.  The scheduler is one record, its methods are operators *)
(* on that record.                                                          *)
(***************************************************************************)
EXTENDS Integers, Sequences, FiniteSets, SequencesExt

CONSTANTS
    Hashes,                \* flow hashes of the traffic
    Sizes,                 \* packet sizes
    max_flows, quantum, max_queue_length, max_flow_queue_bytes,
    max_total_packets, max_total_bytes, target_ms, interval_ms,
    kTcpTxBudget,          \* packets one flush sends
    MayBlock,              \* whether the queue or lane behind may be full
    Ect,                   \* ECN capability of the packets, a subset of BOOLEAN
    MaxPackets,            \* packets offered (bound)
    MaxTime                \* end of the modelled time (bound)

FqCoDelAssumption ==
    /\ Hashes \subseteq Nat /\ Sizes \subseteq Nat \ {0} /\ Ect \subseteq BOOLEAN
    /\ {max_flows, quantum, max_queue_length, interval_ms, kTcpTxBudget} \subseteq Nat \ {0}
    /\ {max_total_packets, max_total_bytes, target_ms, MaxPackets, MaxTime} \subseteq Nat
    \* One packet fits an empty queue; a slot claimed for one that does not
    \* would never be released.
    /\ \A size \in Sizes : size <= max_flow_queue_bytes
    /\ MayBlock \in BOOLEAN

VARIABLES
    fq,        \* FqCoDelScheduler
    flush,     \* packets FlushTcpTx may still send, 0 outside of it
    now_ms,
    offered,   \* packets offered to each flow so far
    seen       \* what the properties remember of the packets that left

vars == <<fq, flush, now_ms, offered, seen>>

Slots == 0 .. max_flows - 1

EmptyFlow ==
    [queue |-> <<>>, queue_bytes |-> 0, deficit |-> 0, list |-> "None", flow_hash |-> 0,
     first_above_time |-> 0, drop_next |-> 0, last_drop_time |-> 0, in_dropping |-> FALSE,
     drop_count |-> 0]

NewScheduler ==
    [flows_ |-> [s \in Slots |-> EmptyFlow], new_flows_ |-> <<>>, old_flows_ |-> <<>>,
     total_packets_ |-> 0, total_bytes_ |-> 0]

\* seen.order: no packet left before an earlier one of its flow; seen.below:
\* the last time a packet of the slot was within target_ms; seen.idle: the
\* last time the slot's queue was empty; seen.hasty and seen.restless: a drop
\* within an interval of either; seen.streak: octets one flow was served while
\* another waited.
Init ==
    /\ fq = NewScheduler
    /\ flush = 0
    /\ now_ms = 1
    /\ offered = [h \in Hashes |-> 0]
    /\ seen = [last |-> [h \in Hashes |-> 0], order |-> TRUE,
               below |-> [s \in Slots |-> 1], idle |-> [s \in Slots |-> 1],
               hasty |-> FALSE, restless |-> FALSE, flow |-> 0, streak |-> 0]

-----------------------------------------------------------------------------
(* The flow table.                                                         *)

Probe(hash, i) == (hash + i) % max_flows

\* FindOrCreateFlow: the first slot of the probe sequence that is unused or
\* holds the flow; max_flows when there is none.
Fits(q, s, hash) ==
    \/ q.flows_[s].queue = <<>> /\ q.flows_[s].flow_hash = 0
    \/ q.flows_[s].flow_hash = hash

FindOrCreateFlow(q, hash) ==
    LET hits == {i \in Slots : Fits(q, Probe(hash, i), hash)}
    IN  IF hits = {} THEN max_flows ELSE Probe(hash, Min(hits))

\* ReleaseFlowSlot; the caller has taken the slot off its list.
ReleaseFlowSlot_KeepsList(q, s) ==
    [q EXCEPT !.flows_[s] = [EmptyFlow EXCEPT !.list = q.flows_[s].list]]

ReleaseFlowSlot(q, s) == [q EXCEPT !.flows_[s] = EmptyFlow]

\* The limits of Enqueue.
Admits(q, s, size) ==
    /\ q.total_packets_ + 1 <= max_total_packets
    /\ q.total_bytes_ + size <= max_total_bytes
    /\ s # max_flows
    /\ Len(q.flows_[s].queue) < max_queue_length
    /\ q.flows_[s].queue_bytes + size <= max_flow_queue_bytes

\* Enqueue of packet p on slot s; an inactive flow joins the new flows.
Put(q, s, p) ==
    LET inactive == q.flows_[s].list = "None"
    IN  [q EXCEPT
           !.flows_[s] = [@ EXCEPT !.queue = Append(@, p), !.queue_bytes = @ + p.size,
                                   !.flow_hash = p.hash,
                                   !.deficit = IF inactive THEN 0 ELSE @,
                                   !.list = IF inactive THEN "New" ELSE @],
           !.new_flows_ = IF inactive THEN Append(@, s) ELSE @,
           !.total_packets_ = @ + 1, !.total_bytes_ = @ + p.size]

\* FindOrCreateFlow has claimed the slot when the limits of a flow refuse the
\* packet; with FqCoDelAssumption such a slot already holds the flow.
Enqueue(q, p) ==
    LET s == FindOrCreateFlow(q, p.hash)
    IN  IF Admits(q, s, p.size) THEN Put(q, s, p) ELSE q

-----------------------------------------------------------------------------
(* CoDel.                                                                  *)

RECURSIVE IsqrtFrom(_, _)
IsqrtFrom(r, x) == IF r + 1 <= x \div (r + 1) THEN IsqrtFrom(r + 1, x) ELSE r

Isqrt32(x) == IF x = 0 THEN 0 ELSE IsqrtFrom(1, x)

\* next_drop_delay, the interval/sqrt(count) control law.
NextDropDelay(count) ==
    LET r == Isqrt32(count)
        inc == interval_ms \div (IF r = 0 THEN 1 ELSE r)
    IN  IF inc = 0 THEN 1 ELSE inc

\* The phase shift: the control law replayed from the last drop.
RECURSIVE Replay(_, _, _)
Replay(count, next, now) ==
    IF count > 1 /\ next + NextDropDelay(count) <= now
    THEN Replay(count - 1, next + NextDropDelay(count), now) ELSE count

\* The count a flow enters the dropping state with.
EntryCount(f, now) ==
    IF f.last_drop_time # 0 /\ f.drop_count > 1 /\ now - f.last_drop_time < interval_ms
    THEN Replay(f.drop_count, f.last_drop_time, now) ELSE 1

Dropped(f, count, now) ==
    [f EXCEPT !.in_dropping = TRUE, !.drop_count = count, !.last_drop_time = now,
              !.drop_next = now + NextDropDelay(count)]

\* CodelShouldDrop: the verdict on a head packet and the flow after it.
CodelShouldDrop_Sticky(f, sojourn, now) ==
    LET above == [f EXCEPT !.first_above_time = IF @ = 0 THEN now ELSE @]
    IN  IF sojourn <= target_ms
        THEN [drop |-> FALSE, flow |-> [f EXCEPT !.in_dropping = FALSE]]
        ELSE IF now - above.first_above_time < interval_ms
        THEN [drop |-> FALSE, flow |-> above]
        ELSE [drop |-> TRUE, flow |-> Dropped(above, EntryCount(above, now), now)]

CodelShouldDrop(f, sojourn, now) ==
    LET above == [f EXCEPT !.first_above_time = IF @ = 0 THEN now ELSE @]
    IN  IF sojourn <= target_ms
        THEN [drop |-> FALSE,
              flow |-> [f EXCEPT !.first_above_time = 0, !.in_dropping = FALSE]]
        ELSE IF now - above.first_above_time < interval_ms
        THEN [drop |-> FALSE, flow |-> above]
        ELSE IF ~above.in_dropping
        THEN [drop |-> TRUE, flow |-> Dropped(above, EntryCount(above, now), now)]
        ELSE IF now >= above.drop_next
        THEN [drop |-> TRUE, flow |-> Dropped(above, above.drop_count + 1, now)]
        ELSE [drop |-> FALSE, flow |-> above]

-----------------------------------------------------------------------------
(* Dequeue.                                                                *)

\* A head packet leaves its queue: the counters go down before the verdict.
TakeHead(q, s) ==
    LET p == Head(q.flows_[s].queue)
    IN  [q EXCEPT !.flows_[s] = [@ EXCEPT !.queue = Tail(@), !.queue_bytes = @ - p.size,
                                          !.deficit = @ - p.size],
                  !.total_packets_ = @ - 1, !.total_bytes_ = @ - p.size]

\* What the properties remember of a verdict on packet p of slot s.
Noted(w, s, p, drop, emptied) ==
    LET low == now_ms - p.at <= target_ms
    IN  [w EXCEPT !.below[s] = IF low THEN now_ms ELSE @,
                  !.idle[s] = IF emptied THEN now_ms ELSE @,
                  !.hasty = @ \/ (drop /\ now_ms - w.below[s] < interval_ms),
                  !.restless = @ \/ (drop /\ now_ms - w.idle[s] < interval_ms)]

\* ServeFlow: packets of slot s until one is delivered.  CoDel's verdict on an
\* ECN-capable packet is a mark (MarkCe), on another a drop.
RECURSIVE ServeFlow(_, _, _)
ServeFlow(q, w, s) ==
    LET Judged(p, verdict, after, noted) ==
            IF verdict.drop /\ ~p.ect THEN ServeFlow(after, noted, s)
            ELSE [q |-> after, w |-> noted, packet |-> <<p>>]
        Verdict(p, taken, verdict) ==
            Judged(p, verdict, [taken EXCEPT !.flows_[s] = verdict.flow],
                   Noted(w, s, p, verdict.drop, verdict.flow.queue = <<>>))
        Taken(p, taken) ==
            Verdict(p, taken, CodelShouldDrop(taken.flows_[s],
                                              IF now_ms >= p.at THEN now_ms - p.at ELSE 0, now_ms))
    IN  IF q.flows_[s].queue = <<>> THEN [q |-> q, w |-> w, packet |-> <<>>]
        ELSE Taken(Head(q.flows_[s].queue), TakeHead(q, s))

\* Dequeue: the new flows in order, then the old flows by deficit round robin.
RECURSIVE Dequeue(_, _)

\* A turn at slot s, the head of the new flows, with its quantum in f.
DequeueNew(q, w, s, f) ==
    LET Served(r) ==
            IF r.packet = <<>>
            THEN Dequeue(ReleaseFlowSlot([r.q EXCEPT !.new_flows_ = Tail(@)], s), r.w)
            ELSE IF r.q.flows_[s].queue # <<>> THEN r
            ELSE [r EXCEPT !.q = ReleaseFlowSlot([@ EXCEPT !.new_flows_ = Tail(@)], s)]
        off == [q EXCEPT !.new_flows_ = Tail(@)]
    IN  IF f.queue = <<>> THEN Dequeue(ReleaseFlowSlot(off, s), w)
        ELSE IF f.deficit < Head(f.queue).size
        THEN Dequeue([off EXCEPT !.flows_[s] = [f EXCEPT !.list = "Old"],
                                 !.old_flows_ = Append(@, s)], w)
        ELSE Served(ServeFlow([q EXCEPT !.flows_[s] = f], w, s))

\* A turn at slot s, the head of the old flows.
DequeueOld(q, w, s, f) ==
    LET Served(r) ==
            IF r.packet # <<>> THEN r
            ELSE Dequeue(ReleaseFlowSlot([r.q EXCEPT !.old_flows_ = Tail(@)], s), r.w)
        off == [q EXCEPT !.old_flows_ = Tail(@)]
    IN  IF f.queue = <<>> THEN Dequeue(ReleaseFlowSlot(off, s), w)
        ELSE IF f.deficit < Head(f.queue).size
        THEN Dequeue([off EXCEPT !.flows_[s].deficit = @ + quantum,
                                 !.old_flows_ = Append(@, s)], w)
        ELSE Served(ServeFlow(q, w, s))

Replenished(f) == [f EXCEPT !.deficit = IF @ <= 0 THEN @ + quantum ELSE @]

Dequeue(q, w) ==
    IF q.new_flows_ # <<>>
    THEN DequeueNew(q, w, Head(q.new_flows_), Replenished(q.flows_[Head(q.new_flows_)]))
    ELSE IF q.old_flows_ # <<>>
    THEN DequeueOld(q, w, Head(q.old_flows_), q.flows_[Head(q.old_flows_)])
    ELSE [q |-> q, w |-> w, packet |-> <<>>]

-----------------------------------------------------------------------------
(* The shard.                                                              *)

\* EnqueueTcpResponse, PumpTcpSendPaths, the UDP emitter: a packet is built
\* and offered outside of the flush.
Offer ==
    /\ flush = 0
    /\ \E h \in Hashes, size \in Sizes, ect \in Ect :
          /\ FoldFunction(+, 0, offered) < MaxPackets
          /\ offered' = [offered EXCEPT ![h] = @ + 1]
          /\ fq' = Enqueue(fq, [hash |-> h, id |-> offered[h] + 1, size |-> size,
                                at |-> now_ms, ect |-> ect])
    /\ UNCHANGED <<flush, now_ms, seen>>

StartFlush ==
    /\ flush = 0 /\ fq.total_packets_ > 0
    /\ flush' = kTcpTxBudget
    /\ UNCHANGED <<fq, now_ms, offered, seen>>

\* The packets of other flows that wait while p is served.
OthersWait(q, p) == \E s \in Slots : q.flows_[s].queue # <<>> /\ q.flows_[s].flow_hash # p.hash

Sent(q, w, p) ==
    [w EXCEPT !.order = @ /\ p.id > w.last[p.hash], !.last[p.hash] = p.id,
              !.flow = p.hash,
              !.streak = IF OthersWait(q, p) THEN p.size + (IF w.flow = p.hash THEN @ ELSE 0)
                         ELSE 0]

\* One turn of FlushTcpTx: a packet that RouteEgressPacket cannot pass on is
\* enqueued again with its timestamp and the flush ends.
FlushTcpTx ==
    /\ flush > 0
    /\ \E r \in {Dequeue(fq, seen)} :
           \/ /\ r.packet = <<>>
              /\ fq' = r.q /\ seen' = r.w /\ flush' = 0
           \/ /\ r.packet # <<>>
              /\ fq' = r.q /\ seen' = Sent(r.q, r.w, r.packet[1]) /\ flush' = flush - 1
           \/ /\ r.packet # <<>> /\ MayBlock
              /\ fq' = Enqueue(r.q, r.packet[1]) /\ flush' = 0
              /\ seen' = [r.w EXCEPT !.idle = seen.idle]
    /\ UNCHANGED <<now_ms, offered>>

Tick ==
    /\ now_ms < MaxTime /\ now_ms' = now_ms + 1
    /\ UNCHANGED <<fq, flush, offered, seen>>

Next == Offer \/ StartFlush \/ FlushTcpTx \/ Tick

Spec == Init /\ [][Next]_vars

-----------------------------------------------------------------------------
Octets(packets) == FoldFunction(LAMBDA p, n : p.size + n, 0, packets)

\* Every variable has its type.
TypeOK ==
    /\ \A s \in Slots : LET f == fq.flows_[s] IN
          /\ Len(f.queue) <= max_queue_length /\ f.list \in {"None", "New", "Old"}
          /\ f.flow_hash \in Hashes \cup {0} /\ f.deficit \in Int
          /\ f.in_dropping \in BOOLEAN /\ f.drop_count \in Nat
          /\ {f.queue_bytes, f.first_above_time, f.drop_next, f.last_drop_time} \subseteq Nat
    /\ ToSet(fq.new_flows_) \subseteq Slots /\ ToSet(fq.old_flows_) \subseteq Slots
    /\ fq.total_packets_ \in 0 .. max_total_packets /\ fq.total_bytes_ \in 0 .. max_total_bytes
    /\ flush \in 0 .. kTcpTxBudget /\ now_ms \in 1 .. MaxTime

\* The counters that bound the scheduler and gate its callers are the packets
\* and octets that are queued, per flow and in total, whether packets are
\* sent, dropped by CoDel or put back (ServeFlow, Enqueue).
CountsExact ==
    /\ \A s \in Slots : fq.flows_[s].queue_bytes = Octets(fq.flows_[s].queue)
    /\ fq.total_packets_ = MapThenSumSet(LAMBDA s : Len(fq.flows_[s].queue), Slots)
    /\ fq.total_bytes_ = MapThenSumSet(LAMBDA s : fq.flows_[s].queue_bytes, Slots)

\* A slot is on the list its field names, once, and on no other; a slot with
\* packets is on a list, so that its packets are found; a slot that is on no
\* list is blank, so that it can be claimed again (Dequeue, ReleaseFlowSlot).
ListsSound ==
    \A s \in Slots :
        LET f  == fq.flows_[s]
            on(list) == Cardinality({i \in DOMAIN list : list[i] = s})
        IN  /\ on(fq.new_flows_) = IF f.list = "New" THEN 1 ELSE 0
            /\ on(fq.old_flows_) = IF f.list = "Old" THEN 1 ELSE 0
            /\ f.list = "None" => f = EmptyFlow

\* Dequeue reports the scheduler empty only when no packet is left in it, and
\* finds the next packet however many rounds of quanta it takes.
WorkConserving ==
    flush > 0 => LET r == Dequeue(fq, seen) IN r.packet = <<>> => r.q.total_packets_ = 0

\* CoDel drops or marks a packet only when every packet of its flow that left
\* in the last interval had waited longer than target_ms.
NeverHasty == ~seen.hasty

\* Packets of a flow leave in the order in which they were enqueued.
FifoPerFlow == seen.order

\* CoDel drops or marks a packet only when its flow had packets waiting for
\* the whole interval before, as the description of the scheduler has it: the
\* sojourn time stayed above the target.
DropsOnlyPersistent == ~seen.restless

\* While another flow waits, deficit round robin serves a flow no more than
\* its quantum and a packet.
RoundRobin == seen.streak <= quantum + Max(Sizes)
=============================================================================
