-------------------------- MODULE MCShardIngress --------------------------
(* Shard 0 polls queues 1 and 2, shard 1 polls queue 0.  One datagram of a *)
(* flow of shard 1 is put together on shard 0.  The threads of a behaviour *)
(* with fair = TRUE keep turning, and it sees fewer packets.               *)
EXTENDS ShardIngress

CONSTANT MaxPacketsFair   \* packets of a behaviour with fair = TRUE (bound)

VARIABLE fair

CrossedQueues == [q \in 0..2 |-> IF q = 0 THEN 1 ELSE 0]
OwnerOf == [f \in Flows |-> IF f = "f0" THEN 0 ELSE 1]
TheFlow == [d \in Datagrams |-> "f1"]
PutTogether == [d \in Datagrams |-> 0]

Fair == INSTANCE ShardIngress WITH MaxPackets <- MaxPacketsFair

allVars == <<fair, vars>>

MCInit == fair \in BOOLEAN /\ Init

MCNext == UNCHANGED fair /\ IF fair THEN Fair!Next ELSE Next

FairStep(s) == fair /\ Fair!LoopStep(s) /\ UNCHANGED fair

MCSpec == MCInit /\ [][MCNext]_allVars /\ \A s \in Shards : WF_allVars(FairStep(s))

\* A flow and a datagram have one home each: no transport sees a packet of a
\* flow that another shard owns, and the pieces of a datagram meet in one
\* reassembler (Dispatch, HandleFragment).
OneHome == NoMisroute /\ NoSplitDatagram

\* Every packet that arrived is in exactly one place or counted as dropped, and
\* the packets of a flow from one queue reach its transport in order, lanes and
\* redirects notwithstanding (RedirectPacket, RouteRxPacket).
PacketsKept == TypeOK /\ PlacedOnce /\ InOrder

\* While the shards' threads turn, every packet reaches a transport or is
\* counted as dropped, unless it is a piece that waits for the rest of its
\* datagram (EventLoopIteration).
PacketsDrain == fair => Fair!IngressDrains
=============================================================================
