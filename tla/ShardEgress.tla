---------------------------- MODULE ShardEgress ---------------------------
(***************************************************************************)
(* The way of a packet from the shard that makes it to the wire: into the  *)
(* FQ-CoDel scheduler of that shard, from there to the transmit queue its  *)
(* flow hash selects, directly or over a bounded lane to the shard that    *)
(* owns the queue, where it goes through a scheduler again.  The scheduler *)
(* is one queue per flow here: Dequeue takes the head of any of them.      *)
(***************************************************************************)
EXTENDS Integers, Sequences, FiniteSets, FiniteSetsExt, SequencesExt

CONSTANTS
    NShards, NQueues,
    QueueShard,       \* the shard that owns a transmit queue
    Flows,
    FlowHash,         \* the egress hash of a flow
    Producer,         \* the shard that makes the packets of a flow
    Udp,              \* flows of UDP, which no budget holds back
    Ect,              \* flows whose packets CoDel marks instead of dropping
    kTcpTxBudget, LaneCapacity,
    MayBlock,         \* SendBatch may refuse a packet
    MaxPackets        \* bound on packets made

Shards == 0..(NShards - 1)
Queues == 0..(NQueues - 1)

ASSUME EgressAssumption ==
    /\ NShards \in Nat \ {0} /\ NQueues \in Nat \ {0} /\ kTcpTxBudget \in Nat \ {0}
    /\ QueueShard \in [Queues -> Shards] /\ Producer \in [Flows -> Shards]
    /\ FlowHash \in [Flows -> Nat] /\ Udp \subseteq Flows /\ Ect \subseteq Flows
    /\ MayBlock \in BOOLEAN

VARIABLES
    fq,       \* per shard and flow: the packets in the scheduler
    shard,    \* per shard: where its event loop is
    egress,   \* per source and target: the envelopes on the lane
    made,     \* packets so far
    wire,     \* the packets sent, with their queue and sender
    dropped   \* the packets dropped

vars == <<fq, shard, egress, made, wire, dropped>>

QueueOf(f) == FlowHash[f] % NQueues
QueueLength(s) == MapThenSumSet(LAMBDA f : Len(fq[s][f]), Flows)

Init ==
    /\ fq = [s \in Shards |-> [f \in Flows |-> <<>>]]
    /\ shard = [s \in Shards |-> [pc |-> "pump", i |-> 0, next_inbound_egress_lane |-> 0]]
    /\ egress = [s \in Shards |-> [t \in Shards \ {s} |-> <<>>]]
    /\ made = 0 /\ wire = {} /\ dropped = {}

Goto(s, pc) == shard' = [shard EXCEPT ![s].pc = pc, ![s].i = 0]

-----------------------------------------------------------------------------
\* The loop up to PumpTcpSendPaths: packets enter the scheduler.  TCP and
\* ICMP only add theirs while it is below its budget, the emitter of UDP
\* whenever it has a datagram.  Then the loop goes on.
Pump(s) ==
    /\ shard[s].pc = "pump"
    /\ \/ /\ made < MaxPackets
          /\ \E f \in Flows :
                /\ Producer[f] = s
                /\ f \in Udp \/ QueueLength(s) < kTcpTxBudget
                /\ fq' = [fq EXCEPT ![s][f] = Append(@, made + 1)]
          /\ made' = made + 1
          /\ UNCHANGED shard
       \/ Goto(s, "drain") /\ UNCHANGED <<fq, made>>
    /\ UNCHANGED <<egress, wire, dropped>>

\* DrainEgressLanes: one visit of a lane.  An envelope for a queue that this
\* shard does not own would be dropped.
DrainEgressLanes_NoRotation(s) ==
    LET t == shard[s].next_inbound_egress_lane
    IN  /\ shard[s].pc = "drain"
        /\ \/ /\ shard[s].i = kTcpTxBudget \/ QueueLength(s) >= kTcpTxBudget
              /\ Goto(s, "flush")
              /\ UNCHANGED <<fq, egress, dropped>>
           \/ /\ shard[s].i < kTcpTxBudget /\ QueueLength(s) < kTcpTxBudget
              /\ shard' = [shard EXCEPT ![s].i = @ + 1]
              /\ IF t = s THEN UNCHANGED <<fq, egress, dropped>>
                 ELSE IF egress[t][s] = <<>> THEN UNCHANGED <<fq, egress, dropped>>
                 ELSE LET e == Head(egress[t][s])
                      IN  /\ egress' = [egress EXCEPT ![t][s] = Tail(@)]
                          /\ fq' = [fq EXCEPT ![s][e.flow] = Append(@, e.id)]
                          /\ UNCHANGED dropped
        /\ UNCHANGED <<made, wire>>

ValidQueue(s, e) == QueueShard[e.queue_id] = s /\ QueueOf(e.flow) = e.queue_id

DrainEgressLanes(s) ==
    LET t == shard[s].next_inbound_egress_lane
    IN  /\ shard[s].pc = "drain"
        /\ \/ /\ shard[s].i = kTcpTxBudget \/ QueueLength(s) >= kTcpTxBudget
              /\ Goto(s, "flush")
              /\ UNCHANGED <<fq, egress, dropped>>
           \/ /\ shard[s].i < kTcpTxBudget /\ QueueLength(s) < kTcpTxBudget
              /\ shard' = [shard EXCEPT ![s].i = @ + 1, ![s].next_inbound_egress_lane = (t + 1) % NShards]
              /\ IF t = s THEN UNCHANGED <<fq, egress, dropped>>
                 ELSE IF egress[t][s] = <<>> THEN UNCHANGED <<fq, egress, dropped>>
                 ELSE LET e == Head(egress[t][s])
                      IN  /\ egress' = [egress EXCEPT ![t][s] = Tail(@)]
                          /\ IF ValidQueue(s, e)
                             THEN fq' = [fq EXCEPT ![s][e.flow] = Append(@, e.id)] /\ UNCHANGED dropped
                             ELSE dropped' = dropped \cup {e.id} /\ UNCHANGED fq
        /\ UNCHANGED <<made, wire>>

\* RouteEgressPacket, for the packet at the head of flow f: to the queue, or
\* to the lane of the queue's owner.  A packet that is refused goes back to
\* the end of its flow, and FlushTcpTx ends.
Route_NoReadmission(s, f) ==
    LET q == QueueOf(f)
        t == QueueShard[q]
        id == Head(fq[s][f])
    IN  /\ fq' = [fq EXCEPT ![s][f] = Tail(@)]
        /\ shard' = [shard EXCEPT ![s].i = @ + 1]
        /\ \/ /\ t = s
              /\ wire' = wire \cup {[id |-> id, flow |-> f, queue |-> q, by |-> s]}
              /\ UNCHANGED egress
           \/ /\ t # s
              /\ egress' = [egress EXCEPT ![s][t] = IF Len(@) < LaneCapacity
                               THEN Append(@, [id |-> id, flow |-> f, queue_id |-> q]) ELSE @]
              /\ UNCHANGED wire

Route(s, f) ==
    LET q == QueueOf(f)
        t == QueueShard[q]
        id == Head(fq[s][f])
        Sent == /\ fq' = [fq EXCEPT ![s][f] = Tail(@)]
                /\ shard' = [shard EXCEPT ![s].i = @ + 1]
        Blocked == /\ fq' = [fq EXCEPT ![s][f] = Append(Tail(@), id)]
                   /\ Goto(s, "pump")
                   /\ UNCHANGED <<wire, egress>>
    IN  \/ /\ t = s /\ Sent
           /\ wire' = wire \cup {[id |-> id, flow |-> f, queue |-> q, by |-> s]}
           /\ UNCHANGED egress
        \/ t = s /\ MayBlock /\ Blocked
        \/ /\ t # s /\ Sent
           /\ Len(egress[s][t]) < LaneCapacity
           /\ egress' = [egress EXCEPT ![s][t] = Append(@, [id |-> id, flow |-> f, queue_id |-> q])]
           /\ UNCHANGED wire
        \/ t # s /\ ~(Len(egress[s][t]) < LaneCapacity) /\ Blocked

\* FlushTcpTx: one packet, which CoDel may drop before it gives the next.
FlushTcpTx(s) ==
    /\ shard[s].pc = "flush"
    /\ \/ /\ shard[s].i = kTcpTxBudget \/ QueueLength(s) = 0
          /\ Goto(s, "pump")
          /\ UNCHANGED <<fq, egress, wire, dropped>>
       \/ /\ shard[s].i < kTcpTxBudget
          /\ \E f \in Flows : fq[s][f] # <<>> /\ Route(s, f)
          /\ UNCHANGED dropped
       \/ /\ shard[s].i < kTcpTxBudget
          /\ \E f \in Flows \ Ect :
                /\ fq[s][f] # <<>>
                /\ dropped' = dropped \cup {Head(fq[s][f])}
                /\ fq' = [fq EXCEPT ![s][f] = Tail(@)]
          /\ UNCHANGED <<shard, egress, wire>>
    /\ UNCHANGED made

LoopStep(s) == Pump(s) \/ DrainEgressLanes(s) \/ FlushTcpTx(s)

Next == \E s \in Shards : LoopStep(s)

Spec == Init /\ [][Next]_vars
FairSpec == Spec /\ \A s \in Shards : WF_vars(LoopStep(s))

-----------------------------------------------------------------------------
Ways == {x \in Shards \X Shards : x[1] # x[2]}
SentIds == {w.id : w \in wire}
QueuedIds(s) == UNION {ToSet(fq[s][f]) : f \in Flows}
LaneIds == UNION {{e.id : e \in ToSet(egress[w[1]][w[2]])} : w \in Ways}

\* The variables have their types, and a lane stays within its capacity.
TypeOK ==
    /\ made \in 0..MaxPackets /\ dropped \subseteq 1..MaxPackets
    /\ \A s \in Shards :
          /\ shard[s].pc \in {"pump", "drain", "flush"} /\ shard[s].i \in 0..kTcpTxBudget
          /\ shard[s].next_inbound_egress_lane \in Shards
          /\ \A t \in Shards \ {s} : Len(egress[s][t]) <= LaneCapacity

\* Only the owner of a queue calls its SendBatch, and a flow always uses the
\* queue its hash selects.
SentByOwner ==
    \A w \in wire : QueueShard[w.queue] = w.by /\ w.queue = QueueOf(w.flow)

\* Each packet is in one place: a scheduler, a lane, the wire, or dropped.
\* It is dropped only by CoDel, and never because a lane or a queue is full.
PlacedOnce ==
    /\ 1..made = UNION {QueuedIds(s) : s \in Shards} \cup LaneIds \cup SentIds \cup dropped
    /\ made = MapThenSumSet(LAMBDA s : QueueLength(s), Shards)
                + MapThenSumSet(LAMBDA w : Len(egress[w[1]][w[2]]), Ways)
                + Cardinality(wire) + Cardinality(dropped)

\* However much UDP adds, a scheduler never holds more TCP packets than the
\* budget, those from other shards included.
TcpWithinBudget ==
    \A s \in Shards : MapThenSumSet(LAMBDA f : Len(fq[s][f]), Flows \ Udp) <= kTcpTxBudget

\* Every packet is sent or dropped in the end, whatever the mapping of
\* queues to shards.
EgressDrains == \A n \in 1..MaxPackets : (made >= n) ~> (n \in SentIds \cup dropped)
=============================================================================
