------------------------------ MODULE TcpSend -------------------------------
(***************************************************************************)
(* The send half of one TCP connection: TcpSendBuffer (src/tcp/send.cpp)   *)
(* with the AIMD controller (src/tcp/congestion.cpp), driven by the engine *)
(* as PumpSendPaths, the ACK feed of ProcessEstablished, EnqueueRemoteData,*)
(* CloseFlow and OnPathMtuLowered do.                                      *)
(*                                                                         *)
(* Octets are numbered from 0 and an octet's content is its number; the    *)
(* FIN takes the number after the last octet.  Sequence numbers are these  *)
(* numbers: at most retransmit_limit of them are outstanding, far less     *)
(* than half the sequence space.  Deadlines are abstracted to "armed": an  *)
(* armed timer may be due at any pump.  NextSegment and OnSent (or         *)
(* ResetPending, when no packet buffer is left) are one pump step, so the  *)
(* pending_ fields are the segment passed from one to the other.           *)
(***************************************************************************)
EXTENDS Integers, Sequences, FiniteSets, FiniteSetsExt, SequencesExt

CONSTANTS MssValues,            \* MSS at the start (the largest) and after path MTU changes
          send_queue_limit,
          retransmit_limit,
          max_retransmissions,
          max_persist_probes,
          MaxCwnd,              \* 2^32 - 1
          MaxStream,            \* bound: octets the application sends
          Windows,              \* bound: windows the peer announces
          MaxAcks               \* bound: ACKs the peer sends

SendAssumption ==
    /\ MssValues # {} /\ MssValues \subseteq Nat \ {0} /\ IsFiniteSet(MssValues)
    /\ {send_queue_limit, retransmit_limit, max_retransmissions, max_persist_probes}
          \subseteq Nat \ {0}
    /\ MaxCwnd \in Nat /\ MaxStream \in Nat /\ MaxAcks \in Nat /\ Windows \subseteq Nat

VARIABLES snd,          \* the TcpSendBuffer
          peer_window,  \* pcb.peer_window, scaled
          enqueued,     \* history: octets accepted from the application
          wire,         \* segments sent, as ranges of numbers; any may still arrive, or be lost
          peer,         \* the numbers the client has received
          rcv_nxts,     \* the values the client's RCV.NXT has had
          acks          \* ACKs the client has sent

vars == <<snd, peer_window, enqueued, wire, peer, rcv_nxts, acks>>

Smaller(a, b) == IF a < b THEN a ELSE b
Larger(a, b) == IF a > b THEN a ELSE b
One(b) == IF b THEN 1 ELSE 0

-----------------------------------------------------------------------------
(* AimdController: a record [cwnd, ssthresh, recovery]. *)

NewController(mss) == [cwnd |-> 2 * mss, ssthresh |-> MaxCwnd, recovery |-> FALSE]

ControllerOnAck(c, mss, acked) ==
    IF acked = 0 \/ c.recovery THEN c
    ELSE [c EXCEPT !.cwnd = Smaller(MaxCwnd, @ + IF @ < c.ssthresh THEN Smaller(acked, mss)
                                                 ELSE Larger(1, (mss * mss) \div @))]
OnFastRecoveryEntry(c, mss, flight) ==
    LET ssthresh == Larger(flight \div 2, 2 * mss)
    IN  [cwnd |-> Smaller(MaxCwnd, ssthresh + 3 * mss), ssthresh |-> ssthresh, recovery |-> TRUE]
OnDupAck(c, mss) == [c EXCEPT !.cwnd = Smaller(MaxCwnd, @ + mss)]
OnFastRecoveryExit(c) == [c EXCEPT !.cwnd = c.ssthresh, !.recovery = FALSE]
OnRto(c, mss) == [c EXCEPT !.cwnd = mss, !.recovery = FALSE]
OnEcnCe(c, mss) == LET half == Larger(c.cwnd \div 2, 2 * mss)
                   IN  [c EXCEPT !.cwnd = half, !.ssthresh = half]
ControllerUpdateMss(c, old, mss, pristine) ==
    IF pristine THEN [c EXCEPT !.cwnd = 2 * mss]
    ELSE IF mss < old THEN [c EXCEPT !.cwnd = Larger(mss, (@ * mss) \div old)]
    ELSE c

-----------------------------------------------------------------------------
(* TcpSendBuffer, as functions of the buffer s.  A SendRecord is            *)
(* [seq, data, fin, rto_attempts, retransmitted, sacked].                   *)

Logical(r) == Len(r.data) + One(r.fin)
None == [kind |-> "None"]
NoProbe == << >>

Enqueue(s, octets) ==
    IF s.fin_requested \/ s.closed THEN s
    ELSE [s EXCEPT !.send_queue = @ \o SubSeq(octets, 1, Smaller(Len(octets), send_queue_limit - Len(@)))]

UsableWindow(s, window) ==
    LET pipe == Larger(0, s.in_flight_sequence - s.sacked_sequence)
    IN  Larger(0, Smaller(window, s.controller.cwnd) - pipe)

FinDue(s) == s.fin_requested /\ ~s.fin_sent
HasWork(s) == s.send_queue # << >> \/ s.retransmit_queue # << >> \/ s.persist_probe # NoProbe \/ FinDue(s)

CanSendNew(s, window) ==
    /\ window # 0 /\ UsableWindow(s, window) # 0 /\ s.retransmit_bytes < retransmit_limit
    /\ s.send_queue # << >> \/ FinDue(s)

ArmRto(s) == [s EXCEPT !.rto_running = s.retransmit_queue # << >>]
ArmPersistTimer_UnsentOnly(s) == [s EXCEPT !.persist_armed = @ \/ (~s.closed /\ s.send_queue # << >>)]
ArmPersistTimer(s) == [s EXCEPT !.persist_armed = @ \/ (~s.closed /\ HasWork(s))]
CancelPersist(s) == [s EXCEPT !.persist_armed = FALSE, !.persist_probe_count = 0]

Close(s) == [s EXCEPT !.closed = TRUE, !.rto_running = FALSE, !.persist_armed = FALSE,
                      !.send_queue = << >>, !.retransmit_queue = << >>, !.persist_probe = NoProbe,
                      !.retransmit_bytes = 0, !.in_flight_bytes = 0, !.in_flight_sequence = 0,
                      !.sacked_bytes = 0, !.sacked_sequence = 0,
                      !.fast_retransmit_pending = FALSE, !.ecn_cwr_queued = FALSE,
                      !.controller = NewController(s.mss)]

Segment(kind, seq, data, fin) == [kind |-> kind, seq |-> seq, data |-> data, fin |-> fin]
Whole(kind, r) == Segment(kind, r.seq, r.data, r.fin)

(* What goes out against a closed window once the persist timer is due. *)
ProbeSegment(s) ==
    LET front == Head(s.retransmit_queue)
    IN  IF s.persist_probe # NoProbe THEN Whole("PersistRetry", s.persist_probe[1])
        ELSE IF s.retransmit_queue # << >>
             THEN Segment("PersistExisting", front.seq, SubSeq(front.data, 1, Smaller(1, Len(front.data))), front.data = << >>)
        ELSE IF s.retransmit_bytes >= retransmit_limit THEN None
        ELSE IF s.send_queue # << >>
             THEN Segment("PersistNew", s.snd_nxt, SubSeq(s.send_queue, 1, 1), FALSE)
        ELSE IF FinDue(s) THEN Segment("PersistNew", s.snd_nxt, << >>, TRUE)
        ELSE None

(* prepare_retransmission, of the front of the queue. *)
Retransmission(s, window, kind) ==
    LET r == Head(s.retransmit_queue)
        n == Min({Len(r.data), s.mss, window})
    IN  Segment(kind, r.seq, SubSeq(r.data, 1, n), r.fin /\ n = Len(r.data) /\ n < window)

NewSegment_EarlyFin(s, window) ==
    LET usable    == UsableWindow(s, window)
        available == retransmit_limit - s.retransmit_bytes
        n == Min({Len(s.send_queue), s.mss, usable, available})
    IN  Segment("NewData", s.snd_nxt, SubSeq(s.send_queue, 1, n),
                FinDue(s) /\ n < usable /\ n < available)

NewSegment(s, window) ==
    LET usable    == UsableWindow(s, window)
        available == retransmit_limit - s.retransmit_bytes
        n == Min({Len(s.send_queue), s.mss, usable, available})
    IN  Segment("NewData", s.snd_nxt, SubSeq(s.send_queue, 1, n),
                FinDue(s) /\ n = Len(s.send_queue) /\ n < usable /\ n < available)

Result(s, segment) == [s |-> s, segment |-> segment]

(* NextSegment; due says whether an armed timer has expired. *)
AgainstClosed(s, due) ==
    IF ~(s.persist_armed /\ due) THEN Result(s, None)
    ELSE IF s.persist_probe_count >= max_persist_probes THEN Result(Close(s), None)
    ELSE Result(s, ProbeSegment(s))

PromoteProbe(s, window) ==
    Result(s, IF UsableWindow(s, window) < Logical(s.persist_probe[1]) THEN None
              ELSE Whole("PersistPromote", s.persist_probe[1]))

IntoOpen(s, window, due) ==
    IF s.fast_retransmit_pending /\ s.retransmit_queue # << >>
    THEN Result(s, Retransmission(s, window, "FastRetransmit"))
    ELSE IF s.rto_running /\ due /\ s.retransmit_queue # << >>
    THEN Result(s, Retransmission(s, window, "RtoRetransmit"))
    ELSE Result(s, IF CanSendNew(s, window) THEN NewSegment(s, window) ELSE None)

Timed(s) == IF s.retransmit_queue # << >> /\ ~s.rto_running THEN ArmRto(s) ELSE s

NextSegment(s, window, due) ==
    LET valid == [s EXCEPT !.last_peer_window = IF s.peer_window_valid THEN @ ELSE window,
                           !.peer_window_valid = TRUE]
    IN  IF s.closed THEN Result(s, None)
        ELSE IF window = 0 THEN AgainstClosed(ArmPersistTimer([valid EXCEPT !.rto_running = FALSE]), due)
        ELSE IF s.persist_probe # NoProbe THEN PromoteProbe(CancelPersist(valid), window)
        ELSE IntoOpen(Timed(CancelPersist(valid)), window, due)

(* The segment in flight between NextSegment and OnSent becomes a record. *)
NewRecord(g) == [seq |-> g.seq, data |-> g.data, fin |-> g.fin, rto_attempts |-> 0,
                 retransmitted |-> FALSE, sacked |-> FALSE]

(* Take the octets of segment g off the send queue and account for them. *)
TakeNew(s, g) ==
    [s EXCEPT !.send_queue = SubSeq(@, Len(g.data) + 1, Len(@)),
              !.retransmit_bytes = @ + Logical(g), !.snd_nxt = @ + Logical(g),
              !.snd_max = Larger(@, s.snd_nxt + Logical(g)), !.fin_sent = @ \/ g.fin]

StoreNewRecord(s, g) ==
    Timed([TakeNew(s, g) EXCEPT !.retransmit_queue = Append(@, NewRecord(g)),
                                !.in_flight_bytes = @ + Len(g.data),
                                !.in_flight_sequence = @ + Logical(g)])

OnFront(s, f(_)) == [s EXCEPT !.retransmit_queue = <<f(Head(@))>> \o Tail(@)]

RtoSent(s) ==
    LET front == Head(s.retransmit_queue)
        c == IF front.rto_attempts = 0
             THEN OnFastRecoveryEntry(s.controller, s.mss, s.in_flight_sequence) ELSE s.controller
        t == [OnFront(s, LAMBDA r : [r EXCEPT !.retransmitted = TRUE, !.rto_attempts = @ + 1])
                EXCEPT !.controller = OnRto(c, s.mss), !.fast_retransmit_pending = FALSE]
    IN  IF front.rto_attempts + 1 >= max_retransmissions THEN Close(t) ELSE ArmRto(t)

Probed(s) == [s EXCEPT !.persist_probe_count = @ + 1, !.persist_armed = TRUE]
Retransmitted(r) == [r EXCEPT !.retransmitted = TRUE]

OnSent(s, g) ==
    LET t == CASE g.kind = "NewData" -> StoreNewRecord(s, g)
               [] g.kind = "PersistNew" ->
                    Probed([TakeNew(s, g) EXCEPT !.persist_probe = <<Retransmitted(NewRecord(g))>>])
               [] g.kind = "PersistPromote" ->
                    ArmRto([s EXCEPT !.persist_probe = NoProbe,
                              !.retransmit_queue = Append(@, Retransmitted(s.persist_probe[1])),
                              !.in_flight_bytes = @ + Len(g.data),
                              !.in_flight_sequence = @ + Logical(g)])
               [] g.kind = "RtoRetransmit" -> RtoSent(s)
               [] g.kind = "FastRetransmit" ->
                    ArmRto([OnFront(s, Retransmitted) EXCEPT !.fast_retransmit_pending = FALSE])
               [] g.kind = "PersistRetry" -> Probed(s)
               [] g.kind = "PersistExisting" -> Probed(OnFront(s, Retransmitted))
    IN  [t EXCEPT !.ecn_cwr_queued = FALSE]

(* A record without its first n acknowledged numbers. *)
Trim(r, n) == [r EXCEPT !.seq = @ + n, !.data = SubSeq(@, n + 1, Len(@)), !.sacked = FALSE]

(* The retransmit queue once n numbers are acknowledged: the records they   *)
(* cover go, the one they end in is trimmed.                                *)
Covers(q, k) == MapThenSumSet(LAMBDA i : Logical(q[i]), 1..k)
Covered(q, n) == Max({k \in 0..Len(q) : Covers(q, k) <= n})

AckRecords(s, q, n, full, rest) ==
    LET partial == full < Len(q) /\ rest > 0
        taken == Smaller(n, Covers(q, Len(q)))
        Payload(i) == IF i <= full THEN Len(q[i].data) ELSE Smaller(rest, Len(q[i].data))
        touched  == 1..(full + One(partial))
        sackedIn == {i \in touched : q[i].sacked}
        left     == SubSeq(q, full + 1, Len(q))
    IN  [s |-> [s EXCEPT
                  !.retransmit_queue = IF partial THEN <<Trim(q[full + 1], rest)>> \o Tail(left) ELSE left,
                  !.retransmit_bytes = @ - taken, !.in_flight_sequence = @ - taken,
                  !.in_flight_bytes = @ - MapThenSumSet(Payload, touched),
                  !.sacked_bytes = Larger(0, @ - MapThenSumSet(Payload, sackedIn)),
                  !.sacked_sequence = Larger(0, @ - MapThenSumSet(
                      LAMBDA i : IF i <= full THEN Logical(q[i]) ELSE rest, sackedIn)),
                  !.fin_acked = @ \/ \E i \in 1..full : q[i].fin],
         payload   |-> MapThenSumSet(Payload, touched),
         remaining |-> n - taken,
         partial_rto_recovery |-> partial /\ q[full + 1].rto_attempts # 0]

AckQueue(s, n) ==
    LET Split(full) == AckRecords(s, s.retransmit_queue, n, full, n - Covers(s.retransmit_queue, full))
    IN  Split(Covered(s.retransmit_queue, n))

AckProbe(s, n) ==
    IF n = 0 \/ s.persist_probe = NoProbe THEN s
    ELSE LET p == s.persist_probe[1]
             take == Smaller(n, Logical(p))
         IN  [s EXCEPT !.retransmit_bytes = @ - take,
                       !.fin_acked = @ \/ (take = Logical(p) /\ p.fin),
                       !.persist_probe = IF take = Logical(p) THEN NoProbe ELSE <<Trim(p, take)>>]

Congested(s, ece) == IF ece /\ ~s.ecn_cwr_queued
                     THEN [s EXCEPT !.ecn_cwr_queued = TRUE, !.controller = OnEcnCe(@, s.mss)] ELSE s

SeenWindow(s, window) == [s EXCEPT !.last_peer_window = window, !.peer_window_valid = TRUE]

(* A zero window hands over from the retransmission to the persist timer. *)
WindowClosed(s) == ArmPersistTimer([CancelPersist(s) EXCEPT !.rto_running = FALSE])

EnterFastRetransmit(s) ==
    [s EXCEPT !.controller = OnFastRecoveryEntry(@, s.mss, s.in_flight_sequence),
              !.fast_retransmit_pending = TRUE]

DuplicateAck(s, window, ack_only) ==
    LET qualifying == /\ ack_only /\ window # 0 /\ s.peer_window_valid /\ window = s.last_peer_window
                      /\ s.retransmit_queue # << >> \/ s.persist_probe # NoProbe
        counted == [s EXCEPT !.dup_ack_count = Smaller(4, @ + 1),
                             !.controller = IF @.recovery THEN OnDupAck(@, s.mss) ELSE @]
        t == IF ~qualifying THEN [s EXCEPT !.dup_ack_count = 0]
             ELSE IF s.dup_ack_count = 2 /\ s.retransmit_queue # << >> /\ ~s.controller.recovery
             THEN EnterFastRetransmit(counted) ELSE counted
        Settled(seen) == IF window = 0 THEN WindowClosed(seen) ELSE Timed(CancelPersist(seen))
    IN  Settled(SeenWindow(t, window))

(* The payload of n numbers of the outstanding probe. *)
ProbePayload(s, n) == IF n = 0 \/ s.persist_probe = NoProbe THEN 0
                      ELSE Smaller(n, Len(s.persist_probe[1].data))

(* q: what AckQueue made of the acknowledgment. *)
Acknowledged(s, q, ack, window) ==
    [SeenWindow(AckProbe(q.s, q.remaining), window) EXCEPT
       !.snd_una = ack, !.dup_ack_count = 0,
       !.controller = IF @.recovery THEN OnFastRecoveryExit(@)
                      ELSE ControllerOnAck(@, s.mss, q.payload + ProbePayload(s, q.remaining)),
       !.fast_retransmit_pending = @ /\ ~s.controller.recovery]

RetimeRto(s, window, partial_rto_recovery) ==
    IF s.retransmit_queue = << >> THEN [s EXCEPT !.rto_running = FALSE]
    ELSE IF window # 0 THEN [ArmRto(s) EXCEPT !.fast_retransmit_pending = @ \/ partial_rto_recovery]
    ELSE s

NewAck(s, ack, window) ==
    LET Settled(t) == IF window = 0 THEN WindowClosed(t) ELSE CancelPersist(t)
        Rest(q) == Settled(RetimeRto(Acknowledged(s, q, ack, window), window, q.partial_rto_recovery))
    IN  Rest(AckQueue(s, ack - s.snd_una))

OnAck(s, ack, window, ack_only, ece) ==
    IF ack < s.snd_una THEN s
    ELSE IF ack = s.snd_una THEN DuplicateAck(Congested(s, ece), window, ack_only)
    ELSE NewAck(Congested(s, ece), ack, window)

(* OnSack: blocks is the set of reported blocks, each a set of numbers. *)
Sacked(r, blocks) == r.sacked \/ \E b \in blocks : r.seq..(r.seq + Logical(r) - 1) \subseteq b

OnSack(s, blocks) ==
    LET q == s.retransmit_queue
        new == {i \in DOMAIN q : ~q[i].sacked /\ Sacked(q[i], blocks)}
        t == [s EXCEPT !.retransmit_queue = [i \in DOMAIN q |-> [q[i] EXCEPT !.sacked = Sacked(q[i], blocks)]],
                       !.sacked_bytes = @ + MapThenSumSet(LAMBDA i : Len(q[i].data), new),
                       !.sacked_sequence = @ + MapThenSumSet(LAMBDA i : Logical(q[i]), new)]
    IN  IF blocks = {} \/ q = << >> \/ s.closed THEN s
        ELSE IF Cardinality({i \in DOMAIN q : Sacked(q[i], blocks)}) >= 3 /\ ~s.controller.recovery
        THEN EnterFastRetransmit(t) ELSE t

UpdateMss(s, mss) ==
    LET pristine == s.snd_una = s.snd_max /\ s.retransmit_queue = << >> /\ s.persist_probe = NoProbe
    IN  [s EXCEPT !.mss = mss, !.controller = ControllerUpdateMss(@, s.mss, mss, pristine)]

-----------------------------------------------------------------------------
mss0 == Max(MssValues)

NewSendBuffer ==
    [send_queue |-> << >>, retransmit_queue |-> << >>, persist_probe |-> NoProbe,
     retransmit_bytes |-> 0, in_flight_bytes |-> 0, in_flight_sequence |-> 0,
     sacked_bytes |-> 0, sacked_sequence |-> 0,
     snd_una |-> 0, snd_nxt |-> 0, snd_max |-> 0,
     mss |-> mss0, controller |-> NewController(mss0),
     rto_running |-> FALSE, persist_armed |-> FALSE, persist_probe_count |-> 0,
     dup_ack_count |-> 0, last_peer_window |-> 0, peer_window_valid |-> FALSE,
     fast_retransmit_pending |-> FALSE, ecn_cwr_queued |-> FALSE,
     fin_requested |-> FALSE, fin_sent |-> FALSE, fin_acked |-> FALSE, closed |-> FALSE]

Init == /\ snd = NewSendBuffer
        /\ peer_window \in Windows
        /\ enqueued = 0 /\ wire = {} /\ peer = {} /\ rcv_nxts = {0} /\ acks = 0

(* EnqueueRemoteData: what does not fit stays with the caller. *)
EnqueueRemoteData(n) ==
    LET octets == [i \in 1..n |-> enqueued + i - 1]
        t == Enqueue(snd, octets)
    IN  /\ enqueued + n <= MaxStream
        /\ t # snd
        /\ snd' = t
        /\ enqueued' = enqueued + Len(t.send_queue) - Len(snd.send_queue)
        /\ UNCHANGED <<peer_window, wire, peer, rcv_nxts, acks>>

CloseFlow == /\ ~snd.fin_requested /\ ~snd.closed
             /\ snd' = [snd EXCEPT !.fin_requested = TRUE]
             /\ UNCHANGED <<peer_window, enqueued, wire, peer, rcv_nxts, acks>>

(* One connection's turn in PumpSendPaths; sent is FALSE when the pool has  *)
(* no buffer and ResetPending drops the segment.                            *)
Pump(due, sent) ==
    /\ \E next \in {NextSegment(snd, peer_window, due)} :
          LET g == next.segment
          IN  IF g = None \/ ~sent THEN snd' = next.s /\ UNCHANGED wire
              ELSE /\ snd' = OnSent(next.s, g)
                   /\ wire' = wire \cup {[seq |-> g.seq, data |-> g.data, fin |-> g.fin]}
    /\ UNCHANGED <<peer_window, enqueued, peer, rcv_nxts, acks>>

PumpDue == Pump(TRUE, TRUE)

RcvNxt(received) == Min({n \in 0..(MaxStream + 1) : n \notin received})

(* The network delivers a segment it has seen, late or more than once. *)
Arrive(g) == /\ peer' = peer \cup (g.seq..(g.seq + Logical(g) - 1))
             /\ rcv_nxts' = rcv_nxts \cup {RcvNxt(peer')}
             /\ UNCHANGED <<snd, peer_window, enqueued, wire, acks>>

(* The runs of numbers the client holds above its RCV.NXT. *)
SackRuns == {r \in {a..b : a, b \in (RcvNxt(peer) + 1)..(MaxStream + 1)} :
                r # {} /\ r \subseteq peer /\ {Min(r) - 1, Max(r) + 1} \cap peer = {}}

(* The ACK feed of ProcessEstablished.  An ACK may be old or repeated; the  *)
(* client reports as many of its runs as it likes and never gives back what *)
(* it reported.                                                             *)
ProcessAck(ack, window, ack_only, ece, blocks) ==
    LET Rest(t) == IF ack = snd.snd_una THEN OnSack(t, blocks) ELSE t
    IN  /\ acks < MaxAcks /\ acks' = acks + 1
        /\ peer_window' = window
        /\ snd' = Rest(OnAck(snd, ack, window, ack_only, ece))
        /\ UNCHANGED <<enqueued, wire, peer, rcv_nxts>>

OnPathMtuLowered(mss) == /\ mss < snd.mss
                         /\ snd' = UpdateMss(snd, mss)
                         /\ UNCHANGED <<peer_window, enqueued, wire, peer, rcv_nxts, acks>>

Next == \/ \E n \in 1..MaxStream : EnqueueRemoteData(n)
        \/ CloseFlow
        \/ \E due, sent \in BOOLEAN : Pump(due, sent)
        \/ \E g \in wire : Arrive(g)
        \/ \E ack \in rcv_nxts, window \in Windows, ack_only, ece \in BOOLEAN,
              blocks \in SUBSET SackRuns : ProcessAck(ack, window, ack_only, ece, blocks)
        \/ \E mss \in MssValues : OnPathMtuLowered(mss)

Spec == Init /\ [][Next]_vars /\ WF_vars(PumpDue)

-----------------------------------------------------------------------------
(* The send pointers, the retransmission state and the peer's window keep    *)
(* their ranges.                                                             *)
TypeOK == /\ {snd.snd_una, snd.snd_nxt, snd.snd_max, enqueued} \subseteq 0..(MaxStream + 1)
          /\ Len(snd.send_queue) \in 0..send_queue_limit
          /\ snd.retransmit_bytes \in 0..retransmit_limit
          /\ {snd.in_flight_bytes, snd.in_flight_sequence, snd.sacked_bytes, snd.sacked_sequence}
                \subseteq 0..retransmit_limit
          /\ Len(snd.persist_probe) <= 1
          /\ snd.controller.cwnd \in 1..MaxCwnd
          /\ snd.persist_probe_count \in 0..max_persist_probes
          /\ peer_window \in Windows /\ acks \in 0..MaxAcks

Outstanding == snd.retransmit_queue \o snd.persist_probe

(* The unacknowledged records and the unsent queue hold, without gap or     *)
(* overlap, exactly the octets from SND.UNA to the last one accepted from   *)
(* the application, so that anything lost can be sent again (StoreNewRecord,*)
(* OnSent, OnAck).                                                          *)
NothingLost == ~snd.closed =>
    LET q == Outstanding
        Start(i) == snd.snd_una + MapThenSumSet(LAMBDA k : Logical(q[k]), 1..(i - 1))
    IN  /\ \A i \in DOMAIN q : /\ q[i].seq = Start(i) /\ Logical(q[i]) > 0
                               /\ q[i].data = [k \in 1..Len(q[i].data) |-> q[i].seq + k - 1]
                               /\ q[i].fin => i = Len(q)
        /\ snd.snd_nxt = Start(Len(q) + 1)
        /\ snd.send_queue = [k \in 1..(enqueued - snd.snd_nxt) |-> snd.snd_nxt + k - 1]

(* Every segment put on the wire carries the octets its sequence number     *)
(* says, and the FIN only after the last one; retransmissions of trimmed    *)
(* or split records included.                                               *)
WireIntact == \A g \in wire : /\ g.data = [k \in 1..Len(g.data) |-> g.seq + k - 1]
                              /\ g.fin => g.seq + Len(g.data) = enqueued

(* The counters that limit the sender agree with the queues they count.     *)
Accounting ==
    LET q == snd.retransmit_queue
        Sum(f(_), S) == MapThenSumSet(LAMBDA i : f(q[i]), S)
        Payload(r) == Len(r.data)
        sacked == {i \in DOMAIN q : q[i].sacked}
    IN  /\ snd.in_flight_sequence = Sum(Logical, DOMAIN q)
        /\ snd.in_flight_bytes = Sum(Payload, DOMAIN q)
        /\ snd.sacked_sequence = Sum(Logical, sacked)
        /\ snd.sacked_bytes = Sum(Payload, sacked)
        /\ snd.retransmit_bytes = snd.in_flight_sequence +
              (IF snd.persist_probe = NoProbe THEN 0 ELSE Logical(snd.persist_probe[1]))

(* FinAcked(), on which FIN-WAIT-1, CLOSING and LAST-ACK move on, says that *)
(* the client has everything, FIN included.                                 *)
FinAckedExact == /\ snd.fin_acked => snd.fin_sent /\ 0..enqueued \subseteq peer
                 /\ snd.fin_sent /\ ~snd.closed /\ snd.snd_una = snd.snd_max => snd.fin_acked

(* New octets stay inside the window the peer announced, a one-octet        *)
(* zero-window probe apart.                                                 *)
WindowRespected == [][snd'.snd_max > snd.snd_max /\ peer_window > 0 =>
                        snd'.snd_max <= snd.snd_una + peer_window]_vars

(* The sender never stalls: when the client falls silent, whatever is       *)
(* unsent or unacknowledged is at last acknowledged or the buffer is        *)
(* closed, through the retransmission or the persist timer.                 *)
NeverStalls == HasWork(snd) ~> (snd.closed \/ ~HasWork(snd))

=============================================================================
