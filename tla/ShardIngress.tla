--------------------------- MODULE ShardIngress ---------------------------
(***************************************************************************)
(* The way of a received packet to the shard that owns its flow: the event *)
(* loop of StackShard polls its receive queues, PacketDispatcher names the *)
(* owner, and packets of another shard cross a bounded lane.  Fragments go *)
(* to the shard of their fragment key; the datagram put together there     *)
(* goes on to the owner of its flow.  A packet has an identity (id), the   *)
(* queue it arrived on, and a kind: whole, piece, reassembled or other (an *)
(* ICMP or malformed packet, which no shard but the receiving one sees).   *)
(***************************************************************************)
EXTENDS Integers, Sequences, FiniteSets, FiniteSetsExt, SequencesExt

CONSTANTS
    NShards, NQueues,
    QueueShard,           \* the shard that polls a queue
    Flows, FlowShard,     \* the shard that owns a flow
    Datagrams,            \* fragmented datagrams
    DatagramFlow, FragmentShard,
    Parts,                \* the pieces of each datagram
    kRxBudget, kPacketInboxBudget, LaneCapacity,
    MaxPackets            \* bound on arrivals

Shards == 0..(NShards - 1)
Queues == 0..(NQueues - 1)

ASSUME IngressAssumption ==
    /\ NShards \in Nat \ {0} /\ NQueues \in Nat \ {0}
    /\ QueueShard \in [Queues -> Shards] /\ FlowShard \in [Flows -> Shards]
    /\ FragmentShard \in [Datagrams -> Shards] /\ DatagramFlow \in [Datagrams -> Flows]
    /\ Parts # {} /\ kPacketInboxBudget \in Nat \ {0} /\ LaneCapacity \in Nat \ {0}

VARIABLES
    rx,         \* per queue: the packets the backend holds
    shard,      \* per shard: where its event loop is, and its rotations
    lane,       \* per source and target: the packets on the lane
    fragments,  \* per shard and datagram: the pieces its reassembler holds
    arrived,    \* packets so far
    sent,       \* the pieces among them
    handled,    \* the packets a transport has taken, in order
    dropped,    \* the ids counted as dropped
    misrouted   \* a transport has refused a packet of another shard's flow

vars == <<rx, shard, lane, fragments, arrived, sent, handled, dropped, misrouted>>

\* The receive queues of a shard, in the order Runtime gives them.
rx_queues(s) == SelectSeq([i \in 1..NQueues |-> i - 1], LAMBDA q : QueueShard[q] = s)
QueueCount(s) == Len(rx_queues(s))
Min2(a, b) == IF a < b THEN a ELSE b
QueueVisits(s) == Min2(QueueCount(s), kRxBudget)
PerQueueBudget(s) == kRxBudget \div QueueVisits(s)

Init ==
    /\ rx = [q \in Queues |-> <<>>]
    /\ shard = [s \in Shards |-> [pc |-> "rx", visit |-> 0, batch |-> <<>>,
                                  next_rx_queue |-> 0, next_inbound_lane |-> 0]]
    /\ lane = [s \in Shards |-> [t \in Shards \ {s} |-> <<>>]]
    /\ fragments = [s \in Shards |-> [d \in Datagrams |-> {}]]
    /\ arrived = 0 /\ sent = {} /\ handled = <<>> /\ dropped = {} /\ misrouted = FALSE

-----------------------------------------------------------------------------
\* ClassifyPacket and Dispatch: the shard a packet read by shard s belongs to.
Dispatch(s, p) ==
    CASE p.kind = "whole" -> FlowShard[p.flow]
      [] p.kind = "piece" -> FragmentShard[p.datagram]
      [] OTHER -> s

\* The operators below take the lanes as they are after the packet was read.

\* RedirectPacket: onto the lane to t, or dropped when it is full.
RedirectPacket(lanes, s, t, p) ==
    IF Len(lanes[s][t]) < LaneCapacity
    THEN lane' = [lanes EXCEPT ![s][t] = Append(@, p)] /\ UNCHANGED dropped
    ELSE lane' = lanes /\ dropped' = dropped \cup p.ids

\* ProcessTcpSegment, HandleUdp and HandleReassembledUdp: the transport of
\* shard s takes the packet of a flow it owns and drops any other.
ToTransport(s, p) ==
    IF FlowShard[p.flow] = s
    THEN handled' = Append(handled, p) /\ UNCHANGED <<dropped, misrouted>>
    ELSE dropped' = dropped \cup p.ids /\ misrouted' = TRUE /\ UNCHANGED handled

\* HandleFragment: the piece is kept until its datagram is complete.  The
\* datagram goes to the flow's owner, here or over a lane, in a new buffer;
\* it is dropped when the pool has none.
HandleFragment_Local(lanes, s, p) ==
    LET pieces == fragments[s][p.datagram] \cup {p}
        whole == [p EXCEPT !.kind = "reassembled", !.ids = UNION {x.ids : x \in pieces}]
        complete == {x.part : x \in pieces} = Parts
    IN  /\ fragments' = [fragments EXCEPT ![s][p.datagram] = IF complete THEN {} ELSE pieces]
        /\ lane' = lanes
        /\ \/ ~complete /\ UNCHANGED <<dropped, handled, misrouted>>
           \/ complete /\ ToTransport(s, whole)

HandleFragment(lanes, s, p) ==
    LET pieces == fragments[s][p.datagram] \cup {p}
        whole == [p EXCEPT !.kind = "reassembled", !.ids = UNION {x.ids : x \in pieces}]
        complete == {x.part : x \in pieces} = Parts
        owner == FlowShard[p.flow]
    IN  /\ fragments' = [fragments EXCEPT ![s][p.datagram] = IF complete THEN {} ELSE pieces]
        /\ \/ ~complete /\ lane' = lanes /\ UNCHANGED <<dropped, handled, misrouted>>
           \/ complete /\ owner = s /\ lane' = lanes /\ ToTransport(s, whole)
           \/ complete /\ owner # s /\ RedirectPacket(lanes, s, owner, whole) /\ UNCHANGED <<handled, misrouted>>
           \/ complete /\ lane' = lanes /\ dropped' = dropped \cup whole.ids /\ UNCHANGED <<handled, misrouted>>

\* ProcessPacket and ProcessEnvelope.
ProcessPacket(lanes, s, p) ==
    CASE p.kind = "piece" -> HandleFragment(lanes, s, p)
      [] p.kind \in {"whole", "reassembled"} -> ToTransport(s, p) /\ lane' = lanes /\ UNCHANGED fragments
      [] OTHER -> /\ handled' = Append(handled, p) /\ lane' = lanes
                  /\ UNCHANGED <<fragments, dropped, misrouted>>

-----------------------------------------------------------------------------
\* The network delivers a packet to some queue.  A piece arrives once.
PacketOf(kind, flow, datagram, part, q) ==
    [kind |-> kind, flow |-> flow, datagram |-> datagram, part |-> part, ids |-> {arrived + 1}, queue |-> q]

Arrive(q) ==
    /\ arrived < MaxPackets
    /\ arrived' = arrived + 1
    /\ \/ /\ \/ \E f \in Flows : rx' = [rx EXCEPT ![q] = Append(@, PacketOf("whole", f, "none", "none", q))]
             \/ rx' = [rx EXCEPT ![q] = Append(@, PacketOf("other", "none", "none", "none", q))]
          /\ UNCHANGED sent
       \/ \E d \in Datagrams, part \in Parts :
             /\ <<d, part>> \notin sent
             /\ sent' = sent \cup {<<d, part>>}
             /\ rx' = [rx EXCEPT ![q] = Append(@, PacketOf("piece", DatagramFlow[d], d, part, q))]
    /\ UNCHANGED <<shard, lane, fragments, handled, dropped, misrouted>>

\* Step 2 of the loop: the next queue of the rotation gives a batch.
RecvBatch(s) ==
    LET q == rx_queues(s)[1 + ((shard[s].next_rx_queue + shard[s].visit) % QueueCount(s))]
        n == Min2(Len(rx[q]), PerQueueBudget(s))
    IN  /\ shard[s].pc = "rx" /\ shard[s].batch = <<>> /\ shard[s].visit < QueueVisits(s)
        /\ rx' = [rx EXCEPT ![q] = SubSeq(@, n + 1, Len(@))]
        /\ shard' = [shard EXCEPT ![s].batch = SubSeq(rx[q], 1, n), ![s].visit = @ + 1]
        /\ UNCHANGED <<lane, fragments, arrived, sent, handled, dropped, misrouted>>

\* RouteRxPacket: each packet of the batch is processed here or redirected.
RouteRxPacket_Requeue(s) ==
    LET p == Head(shard[s].batch)
        owner == Dispatch(s, p)
    IN  /\ shard[s].batch # <<>>
        /\ IF owner # s /\ Len(lane[s][owner]) >= LaneCapacity
           THEN /\ shard' = [shard EXCEPT ![s].batch = Append(Tail(@), p)]
                /\ UNCHANGED <<lane, fragments, handled, dropped, misrouted>>
           ELSE /\ shard' = [shard EXCEPT ![s].batch = Tail(@)]
                /\ IF owner = s THEN ProcessPacket(lane, s, p)
                   ELSE RedirectPacket(lane, s, owner, p) /\ UNCHANGED <<fragments, handled, misrouted>>
        /\ UNCHANGED <<rx, arrived, sent>>

RouteRxPacket(s) ==
    LET p == Head(shard[s].batch)
        owner == Dispatch(s, p)
    IN  /\ shard[s].batch # <<>>
        /\ shard' = [shard EXCEPT ![s].batch = Tail(@)]
        /\ IF owner = s
           THEN ProcessPacket(lane, s, p)
           ELSE RedirectPacket(lane, s, owner, p) /\ UNCHANGED <<fragments, handled, misrouted>>
        /\ UNCHANGED <<rx, arrived, sent>>

\* The end of step 2.  Step 3 is entered only when some lane has a packet.
RxDone(s) ==
    /\ shard[s].pc = "rx" /\ shard[s].batch = <<>> /\ shard[s].visit = QueueVisits(s)
    /\ shard' = [shard EXCEPT
          ![s].visit = 0,
          ![s].pc = IF \E t \in Shards \ {s} : lane[t][s] # <<>> THEN "lanes" ELSE "rx",
          ![s].next_rx_queue = IF QueueVisits(s) = 0 THEN @ ELSE (@ + QueueVisits(s)) % QueueCount(s)]
    /\ UNCHANGED <<rx, lane, fragments, arrived, sent, handled, dropped, misrouted>>

\* Step 3: one pop of the sweep over the inbound lanes; there is none from a
\* shard to itself.  Then the loop begins again.
LanesStep_NoRotation(s) ==
    LET t == shard[s].next_inbound_lane
        n == shard[s].visit + 1
    IN  /\ shard[s].pc = "lanes"
        /\ shard' = [shard EXCEPT ![s].visit = n % kPacketInboxBudget,
                                  ![s].pc = IF n = kPacketInboxBudget THEN "rx" ELSE "lanes"]
        /\ \/ /\ t # s => lane[t][s] = <<>>
              /\ UNCHANGED <<lane, fragments, handled, dropped, misrouted>>
           \/ /\ t # s /\ lane[t][s] # <<>>
              /\ ProcessPacket([lane EXCEPT ![t][s] = Tail(@)], s, Head(lane[t][s]))
        /\ UNCHANGED <<rx, arrived, sent>>

LanesStep(s) ==
    LET t == shard[s].next_inbound_lane
        n == shard[s].visit + 1
    IN  /\ shard[s].pc = "lanes"
        /\ shard' = [shard EXCEPT ![s].visit = n % kPacketInboxBudget,
                                  ![s].pc = IF n = kPacketInboxBudget THEN "rx" ELSE "lanes",
                                  ![s].next_inbound_lane = (t + 1) % NShards]
        /\ \/ /\ t # s => lane[t][s] = <<>>
              /\ UNCHANGED <<lane, fragments, handled, dropped, misrouted>>
           \/ /\ t # s /\ lane[t][s] # <<>>
              /\ ProcessPacket([lane EXCEPT ![t][s] = Tail(@)], s, Head(lane[t][s]))
        /\ UNCHANGED <<rx, arrived, sent>>

\* Step 5: the reassembler drops datagrams that have waited too long.
Purge(s) ==
    \E d \in Datagrams :
        /\ shard[s].pc = "rx" /\ shard[s].visit = 0 /\ fragments[s][d] # {}
        /\ dropped' = dropped \cup UNION {x.ids : x \in fragments[s][d]}
        /\ fragments' = [fragments EXCEPT ![s][d] = {}]
        /\ UNCHANGED <<rx, shard, lane, arrived, sent, handled, misrouted>>

LoopStep(s) == RecvBatch(s) \/ RouteRxPacket(s) \/ RxDone(s) \/ LanesStep(s)

Next ==
    \/ \E q \in Queues : Arrive(q)
    \/ \E s \in Shards : LoopStep(s) \/ Purge(s)

Spec == Init /\ [][Next]_vars
FairSpec == Spec /\ \A s \in Shards : WF_vars(LoopStep(s))

-----------------------------------------------------------------------------
\* The ids in a sequence of packets, with and without repetitions counted.
IdsOf(q) == UNION {p.ids : p \in ToSet(q)}
IdCount(q) == MapThenSumSet(LAMBDA i : Cardinality(q[i].ids), DOMAIN q)
Held == UNION {UNION {p.ids : p \in fragments[s][d]} : s \in Shards, d \in Datagrams}
Ways == {x \in Shards \X Shards : x[1] # x[2]}

\* The variables have their types.
TypeOK ==
    /\ DOMAIN rx = Queues /\ arrived \in 0..MaxPackets /\ misrouted \in BOOLEAN
    /\ \A s \in Shards :
          /\ shard[s].pc \in {"rx", "lanes"}
          /\ Len(shard[s].batch) <= kRxBudget
          /\ shard[s].visit \in 0..(kRxBudget + kPacketInboxBudget)
          /\ shard[s].next_rx_queue \in Nat /\ shard[s].next_inbound_lane \in Shards
          /\ \A t \in Shards \ {s} : Len(lane[s][t]) <= LaneCapacity

\* No transport ever sees a packet of a flow that another shard owns: every
\* raw and every reassembled packet is routed before it gets there.
NoMisroute == ~misrouted

\* The pieces of one datagram are never held by two reassemblers.
NoSplitDatagram ==
    \A d \in Datagrams : Cardinality({s \in Shards : fragments[s][d] # {}}) <= 1

\* Each packet that arrived is in exactly one place: a queue, a batch, a
\* lane, a reassembler, a transport, or the drop counter.
PlacedOnce ==
    /\ 1..arrived = UNION {IdsOf(rx[q]) : q \in Queues} \cup UNION {IdsOf(shard[s].batch) : s \in Shards}
                      \cup UNION {IdsOf(lane[w[1]][w[2]]) : w \in Ways}
                      \cup Held \cup IdsOf(handled) \cup dropped
    /\ arrived = MapThenSumSet(LAMBDA q : IdCount(rx[q]), Queues)
                   + MapThenSumSet(LAMBDA s : IdCount(shard[s].batch), Shards)
                   + MapThenSumSet(LAMBDA w : IdCount(lane[w[1]][w[2]]), Ways)
                   + MapThenSumSet(LAMBDA sd : Cardinality(fragments[sd[1]][sd[2]]), Shards \X Datagrams)
                   + IdCount(handled) + Cardinality(dropped)

\* Unfragmented packets of a flow that arrive on one queue reach the flow's
\* transport in the order of arrival, those dropped left out.
InOrder ==
    \A i, j \in DOMAIN handled :
        /\ i < j /\ handled[i].kind = "whole" /\ handled[j].kind = "whole"
        /\ handled[i].flow = handled[j].flow /\ handled[i].queue = handled[j].queue
        => \A x \in handled[i].ids, y \in handled[j].ids : x < y

\* Every packet reaches a transport or is counted as dropped, unless it is a
\* piece that waits for the rest of its datagram.
IngressDrains ==
    \A n \in 1..MaxPackets : (arrived >= n) ~> (n \in IdsOf(handled) \cup dropped \cup Held)

\* Each iteration begins with another queue than the one before, so that a
\* busy queue cannot starve another.
FirstQueueRotates ==
    [][\A s \in Shards : RxDone(s) /\ QueueCount(s) > 1
                           => shard'[s].next_rx_queue # shard[s].next_rx_queue]_vars
=============================================================================
