----------------------------- MODULE MCEgress -----------------------------
(***************************************************************************)
(* The two halves of the way out of the stack: ShardEgress, the movement of *)
(* packets between shards, and FqCoDel, the scheduler inside a shard.  Each *)
(* behaviour is one of a single configuration, part, and the variables of   *)
(* the other half keep their initial values:                                *)
(*   "crossed"    each shard owns one of the two queues, and queues block   *)
(*   "gathered"   shard 0 owns both queues, and no queue blocks for ever    *)
(*   "colliding"  one scheduler, two flows that probe from the same slot,   *)
(*                behind a queue that blocks                                *)
(*   "separate"   one scheduler, flows in slots of their own, ECN-capable   *)
(*                and other packets, and a queue that never blocks          *)
(* Flow f is made by shard 0 and goes to queue 1, flow g is made by shard 1 *)
(* and goes to queue 0, flow u, of UDP, is made by shard 0 and goes to      *)
(* queue 0.                                                                 *)
(***************************************************************************)
EXTENDS ShardEgress

VARIABLES part, scheduler, flush, now_ms, offered, seen

Hashes == [f \in Flows |-> IF f = "f" THEN 3 ELSE 2]
Makers == [f \in Flows |-> IF f = "g" THEN 1 ELSE 0]
OneEach == [q \in 0..1 |-> q]
AllToZero == [q \in 0..1 |-> 0]

Gathered == INSTANCE ShardEgress WITH QueueShard <- AllToZero, MayBlock <- FALSE

\* With two slots, hashes 1 and 3 probe from the same slot and 2 from the other.
Colliding == INSTANCE FqCoDel WITH
    fq <- scheduler, Hashes <- {1, 3}, Sizes <- {1, 3}, max_flows <- 2, quantum <- 2,
    max_queue_length <- 2, max_flow_queue_bytes <- 4, max_total_packets <- 3,
    max_total_bytes <- 5, target_ms <- 0, interval_ms <- 1, kTcpTxBudget <- 2,
    MayBlock <- TRUE, Ect <- {FALSE}, MaxPackets <- 4, MaxTime <- 3
Separate == INSTANCE FqCoDel WITH
    fq <- scheduler, Hashes <- {1, 2}, Sizes <- {1, 3}, max_flows <- 2, quantum <- 2,
    max_queue_length <- 2, max_flow_queue_bytes <- 4, max_total_packets <- 3,
    max_total_bytes <- 5, target_ms <- 0, interval_ms <- 2, kTcpTxBudget <- 2,
    MayBlock <- FALSE, Ect <- BOOLEAN, MaxPackets <- 4, MaxTime <- 4

ASSUME Gathered!EgressAssumption
ASSUME Colliding!FqCoDelAssumption /\ Separate!FqCoDelAssumption

schedulerVars == <<scheduler, flush, now_ms, offered, seen>>
allVars == <<part, vars, schedulerVars>>

MCInit ==
    /\ part \in {"crossed", "gathered", "colliding", "separate"}
    /\ Init
    /\ IF part = "separate" THEN Separate!Init ELSE Colliding!Init

MCNext ==
    /\ UNCHANGED part
    /\ \/ /\ part = "crossed" /\ Next /\ UNCHANGED schedulerVars
       \/ /\ part = "gathered" /\ Gathered!Next /\ UNCHANGED schedulerVars
       \/ /\ part = "colliding" /\ Colliding!Next /\ UNCHANGED vars
       \/ /\ part = "separate" /\ Separate!Next /\ UNCHANGED vars

\* The shards' threads keep turning.
GatheredStep(s) ==
    part = "gathered" /\ Gathered!LoopStep(s) /\ UNCHANGED <<part, schedulerVars>>

MCSpec == MCInit /\ [][MCNext]_allVars /\ \A s \in Shards : WF_allVars(GatheredStep(s))

-----------------------------------------------------------------------------
\* Every packet is in one scheduler, in one lane, sent or dropped by CoDel; it is
\* sent by the owner of the queue its flow selects; and UDP apart no scheduler
\* holds more than the transmit budget (RouteEgressPacket, PumpTcpSendPaths).
PacketsPlaced ==
    /\ TypeOK /\ PlacedOnce /\ TcpWithinBudget
    /\ IF part = "gathered" THEN Gathered!SentByOwner ELSE SentByOwner

\* When one shard owns all queues, every packet is sent or dropped by CoDel in
\* the end: DrainEgressLanes and FlushTcpTx serve every lane and every flow.
GatheredDrains == part = "gathered" => EgressDrains

\* The lists, the counters and the queues of the scheduler agree: a slot is on
\* the list its field names also when a collision displaced its flow, Dequeue
\* finds a packet whenever there is one, and without collisions and blocked
\* queues the packets of a flow leave in order (Enqueue, Dequeue, ServeFlow,
\* ReleaseFlowSlot).
SchedulerSound ==
    /\ part = "colliding" => /\ Colliding!TypeOK /\ Colliding!CountsExact
                             /\ Colliding!ListsSound /\ Colliding!WorkConserving
    /\ part = "separate" => /\ Separate!TypeOK /\ Separate!CountsExact
                            /\ Separate!ListsSound /\ Separate!WorkConserving
                            /\ Separate!FifoPerFlow

\* CoDel drops or marks a packet only when every packet of its flow that left
\* in the last interval had waited longer than target_ms (CodelShouldDrop).
NeverHasty == part = "separate" => Separate!NeverHasty
=============================================================================
