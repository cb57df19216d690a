---------------------------- MODULE MCTcpStream -----------------------------
(***************************************************************************)
(* The two directions of a connection's byte stream: TcpReceive and TcpSend *)
(* share no state.  Each behaviour is one of a single configuration, part,  *)
(* and the variables of the other direction keep their initial values:      *)
(*   "receiving"  a stream longer than the ring, across the wrap of the     *)
(*                sequence space                                            *)
(*   "sending"    two segment sizes, a window that closes and opens         *)
(*   "silence"    fewer octets, and a shard that goes on pumping whatever   *)
(*                the client does                                           *)
(***************************************************************************)
EXTENDS TcpReceive

VARIABLES part, snd, peer_window, enqueued, wire, peer, rcv_nxts, acks

Sending == INSTANCE TcpSend WITH
    MssValues <- {1, 2}, send_queue_limit <- 2, retransmit_limit <- 3,
    max_retransmissions <- 2, max_persist_probes <- 2, MaxCwnd <- 8,
    MaxStream <- 3, Windows <- {0, 3}, MaxAcks <- 3
Silence == INSTANCE TcpSend WITH
    MssValues <- {2}, send_queue_limit <- 2, retransmit_limit <- 3,
    max_retransmissions <- 2, max_persist_probes <- 2, MaxCwnd <- 8,
    MaxStream <- 2, Windows <- {0, 2}, MaxAcks <- 3

ASSUME Sending!SendAssumption /\ Silence!SendAssumption

sendVars == <<snd, peer_window, enqueued, wire, peer, rcv_nxts, acks>>
allVars == <<part, vars, sendVars>>

MCInit ==
    /\ part \in {"receiving", "sending", "silence"}
    /\ Init
    /\ IF part = "silence" THEN Silence!Init ELSE Sending!Init
    /\ IF part = "receiving" THEN peer_window = 0 ELSE session = "bound"

MCNext ==
    /\ UNCHANGED part
    /\ \/ part = "receiving" /\ Next /\ UNCHANGED sendVars
       \/ part = "sending" /\ Sending!Next /\ UNCHANGED vars
       \/ part = "silence" /\ Silence!Next /\ UNCHANGED vars

\* The timers fire and the event loop goes on calling PumpSendPaths.
DelayedAckFires == part = "receiving" /\ OnDelayedAck /\ UNCHANGED <<part, sendVars>>
PumpGoesOn == part = "silence" /\ Silence!PumpDue /\ UNCHANGED <<part, vars>>

MCSpec ==
    /\ MCInit /\ [][MCNext]_allVars
    /\ WF_allVars(DelayedAckFires) /\ WF_allVars(PumpGoesOn)

-----------------------------------------------------------------------------
\* Nothing the application sent is lost before it is acknowledged, and every
\* segment on the wire carries the octets its sequence number says; the counters
\* of octets in flight, held and SACKed, which limit the sender, agree with the
\* queues they count, and FinAcked(), on which FIN-WAIT-1, CLOSING and LAST-ACK
\* move on, says that the client has everything (StoreNewRecord, NewSegment,
\* Trim, OnAck, OnSack).
SendExact ==
    IF part = "silence"
    THEN /\ Silence!TypeOK /\ Silence!NothingLost /\ Silence!WireIntact
         /\ Silence!Accounting /\ Silence!FinAckedExact
    ELSE /\ Sending!TypeOK /\ Sending!NothingLost /\ Sending!WireIntact
         /\ Sending!Accounting /\ Sending!FinAckedExact

\* When the client falls silent, the retransmission or the persist timer brings
\* a connection with work to an acknowledged or a closed state (NextSegment,
\* ArmPersistTimer).
NeverStalls ==
    (part = "silence" /\ Silence!HasWork(snd)) ~> (snd.closed \/ ~Silence!HasWork(snd))

\* Neither direction stops on its own: what was received is acknowledged, by a
\* delayed ACK if by nothing else, and what is to be sent is sent or given up.
StreamMoves == EventuallyAcked /\ NeverStalls
=============================================================================
