----------------------------- MODULE TcpReceive -----------------------------
(***************************************************************************)
(* The receive half of one TCP connection: TcpReceiveBuffer                *)
(* (src/tcp/receive.cpp), its delivery pump (src/tcp/delivery.cpp) and the *)
(* parts of TcpHandshakeEngine that drive them: the receive path of        *)
(* ProcessEstablished, DrainSession, BuildAck, the delayed-ACK timer, the  *)
(* session's writable and closed notifications, PumpSessionDeliveries, and *)
(* the window that PumpSendPaths puts on an outgoing data segment.         *)
(*                                                                         *)
(* The octets of the client's stream are numbered 0 .. MaxStream - 1 and   *)
(* its FIN has number MaxStream; an octet's content is its number, so a    *)
(* misplaced octet shows.  Sequence numbers wrap at SeqModulus (2^32).     *)
(* The session is an ITransportSession: any result its contract allows.    *)
(***************************************************************************)
EXTENDS Integers, Sequences, FiniteSets, FiniteSetsExt

CONSTANTS capacity,         \* capacity_ of the ring
          SeqModulus,       \* 2^32
          InitialSequence,  \* initial_sequence of the constructor
          WindowUnit,       \* 2^options.receive_window_scale
          MaxWireWindow,    \* 65535
          MaxSackBlocks,    \* blocks an ACK may carry
          CallBudget,       \* config_.delivery_call_budget
          MaxStream,        \* bound: octets in the client's stream
          MaxSegment        \* bound: octets in one segment

Half == SeqModulus \div 2

ASSUME ReceiveAssumption ==
    /\ capacity \in Nat \ {0} /\ CallBudget \in Nat \ {0}
    /\ SeqModulus \in Nat /\ SeqModulus = 2 * Half /\ capacity < Half
    /\ InitialSequence \in 0..(SeqModulus - 1)
    /\ MaxStream \in Nat /\ MaxSegment \in 0..Half  \* a packet has fewer than 2^16 octets
    /\ WindowUnit \in Nat \ {0} /\ MaxWireWindow \in Nat /\ MaxSackBlocks \in Nat

Smaller(a, b) == IF a < b THEN a ELSE b
Larger(a, b) == IF a > b THEN a ELSE b

Index == 0..(capacity - 1)
SeqNo(position) == (InitialSequence + position) % SeqModulus

VARIABLES buf,               \* the TcpReceiveBuffer
          session,           \* "bound", or "none" while pcb.session is null
          write_shutdown,    \* the session's ShutdownWrite() was called
          delivery_pending,  \* pcb.delivery_pending
          close_flow,        \* CloseFlow() ran: the state is past Established
          ack_timer,         \* pcb.delayed_ack_timer is armed
          delivered,         \* history: octets the session accepted, in order
          last_ack,          \* history: highest acknowledgment sent, as a position
          ack_edge,          \* history: highest right edge announced by an ACK
          data_edge          \* history: highest right edge announced by a data segment

vars == <<buf, session, write_shutdown, delivery_pending, close_flow, ack_timer, delivered,
          last_ack, ack_edge, data_edge>>

-----------------------------------------------------------------------------
(* TcpReceiveBuffer, as functions of the buffer b. *)

Ambiguous(sequence, base) == (sequence - base) % SeqModulus = Half
SequenceOffset(sequence, base) ==
    LET forward == (sequence - base) % SeqModulus
    IN  IF forward < Half THEN forward ELSE forward - SeqModulus

PhysicalIndex(b, logical) ==
    LET until_end == capacity - b.first_index
    IN  IF logical < until_end THEN b.first_index + logical ELSE logical - until_end

OccupiedAt(b, logical) == b.occupied[PhysicalIndex(b, logical)]

AdvertisedWindow(b) == IF b.blocked THEN 0 ELSE capacity - b.bytes_held

AcceptableWindow(b) ==
    LET forward == (b.rcv_adv - b.rcv_nxt) % SeqModulus
    IN  IF forward < Half THEN Smaller(forward, capacity - b.ready_bytes) ELSE 0

RecordAdvertisedWindow(b, window) ==
    LET candidate == (b.rcv_nxt + Smaller(window, capacity - b.ready_bytes)) % SeqModulus
    IN  IF ~Ambiguous(candidate, b.rcv_adv) /\ SequenceOffset(candidate, b.rcv_adv) > 0
        THEN [b EXCEPT !.rcv_adv = candidate] ELSE b

IsSequenceAcceptable(b, sequence, length) ==
    LET begin  == SequenceOffset(sequence, b.rcv_nxt)
        end    == begin + length - 1
        window == AcceptableWindow(b)
        Inside(offset) == offset >= 0 /\ offset < window
    IN  /\ ~Ambiguous(sequence, b.rcv_nxt)
        /\ IF window = 0 THEN length = 0 /\ begin = 0
           ELSE Inside(begin) \/ (length # 0 /\ Inside(end))

(* The run of occupied octets around logical offset i, above RCV.NXT. *)
RunBegin(b, i) == Min({j \in b.ready_bytes..i : \A k \in j..(i - 1) : OccupiedAt(b, k)})
RunEnd(b, i) == Max({j \in (i + 1)..capacity : \A k \in (i + 1)..(j - 1) : OccupiedAt(b, k)})
SackBlock(b, begin, end) == [left_edge  |-> (b.rcv_nxt + begin - b.ready_bytes) % SeqModulus,
                             right_edge |-> (b.rcv_nxt + end - b.ready_bytes) % SeqModulus]

(* The octets of data, from its index first on, go to the free places among *)
(* fresh, which are counted from logical offset at.                         *)
Fill(b, data, first, at, fresh) ==
    LET At(p) == {i \in fresh : PhysicalIndex(b, at + i) = p}
    IN  [b EXCEPT !.storage  = [p \in Index |-> IF At(p) = {} THEN @[p] ELSE data[first + Min(At(p))]],
                  !.occupied = [p \in Index |-> @[p] \/ At(p) # {}],
                  !.bytes_held = @ + Cardinality(fresh)]

ReadyEnd(b) == Min({n \in b.ready_bytes..capacity : n = capacity \/ ~OccupiedAt(b, n)})
Advance(b, ready) == [b EXCEPT !.ready_bytes = ready,
                               !.rcv_nxt = (@ + ready - b.ready_bytes) % SeqModulus]

(* The run that the octet at offset trigger above the old RCV.NXT belongs   *)
(* to becomes the first to report; advanced: how far RCV.NXT moved.         *)
MarkSack(b, trigger, advanced) ==
    LET i == b.ready_bytes + trigger - advanced
    IN  [b EXCEPT !.recent_sack_valid = TRUE,
                  !.recent_sack = SackBlock(b, RunBegin(b, i), RunEnd(b, i))]

(* The segment's octets from accepted_begin on: left_trimmed lie below      *)
(* RCV.NXT, the places fresh were free.                                     *)
Accept(b, data, psh, left_trimmed, accepted_begin, fresh) ==
    LET trigger == IF fresh = {} THEN accepted_begin ELSE accepted_begin + Min(fresh)
        Acked(marked, advanced) ==
            LET immediate == \/ b.blocked \/ psh \/ accepted_begin > 0 \/ left_trimmed # 0
                             \/ Cardinality(fresh) < Len(data) \/ advanced > Cardinality(fresh)
                             \/ b.delayed_ack_pending
            IN  [buf |-> [marked EXCEPT !.delayed_ack_pending = ~immediate],
                 ack |-> IF immediate THEN "Immediate" ELSE "Delayed",
                 accepted |-> Cardinality(fresh)]
        Marked(moved, advanced) ==
            Acked(IF accepted_begin > 0 /\ trigger > advanced THEN MarkSack(moved, trigger, advanced)
                  ELSE moved, advanced)
        Moved(filled, ready) == Marked(Advance(filled, ready), ready - b.ready_bytes)
        Filled(filled) == Moved(filled, ReadyEnd(filled))
    IN  Filled(Fill(b, data, left_trimmed + 1, b.ready_bytes + accepted_begin, fresh))

(* OnSegment: sequence, the octets it carries, and whether PSH is set. *)
OnSegment(b, sequence, data, psh) ==
    LET begin == SequenceOffset(sequence, b.rcv_nxt)
        left_trimmed   == IF begin < 0 THEN Smaller(Len(data), -begin) ELSE 0
        accepted_begin == Larger(0, begin)
        candidates == Larger(0, Smaller(begin + Len(data), AcceptableWindow(b)) - accepted_begin)
        fresh == {i \in 0..(candidates - 1) : ~OccupiedAt(b, b.ready_bytes + accepted_begin + i)}
    IN  IF Ambiguous(sequence, b.rcv_nxt) \/ ~IsSequenceAcceptable(b, sequence, Len(data)) \/ candidates = 0
        THEN [buf |-> [b EXCEPT !.delayed_ack_pending = FALSE], ack |-> "Immediate", accepted |-> 0]
        ELSE Accept(b, data, psh, left_trimmed, accepted_begin, fresh)

ConsumeReady_LeavesBits(b, n) ==
    [b EXCEPT !.first_index = PhysicalIndex(b, n), !.bytes_held = @ - n, !.ready_bytes = @ - n]
ConsumeReady(b, n) ==
    LET freed == {PhysicalIndex(b, i) : i \in 0..(n - 1)}
    IN  [b EXCEPT !.occupied = [p \in Index |-> b.occupied[p] /\ p \notin freed],
                  !.first_index = PhysicalIndex(b, n),
                  !.bytes_held = @ - n, !.ready_bytes = @ - n]

(* The runs of octets held above RCV.NXT that are not to be skipped, lowest *)
(* first.                                                                   *)
Starts(b, skipped) ==
    {i \in b.ready_bytes..(capacity - 1) :
        /\ OccupiedAt(b, i)
        /\ i = b.ready_bytes \/ ~OccupiedAt(b, i - 1)
        /\ SackBlock(b, i, RunEnd(b, i)) \notin skipped}
Nth(S, n) == CHOOSE i \in S : Cardinality({j \in S : j < i}) = n - 1
Runs(b, skipped) ==
    LET starts == Starts(b, skipped)
    IN  [n \in 1..Cardinality(starts) |-> SackBlock(b, Nth(starts, n), RunEnd(b, Nth(starts, n)))]

(* The block reported first, if all its octets are still held. *)
Recent(b) ==
    LET begin == b.ready_bytes + ((b.recent_sack.left_edge - b.rcv_nxt) % SeqModulus)
        width == (b.recent_sack.right_edge - b.recent_sack.left_edge) % SeqModulus
        complete == /\ b.recent_sack_valid /\ width # 0 /\ begin - b.ready_bytes < Half
                    /\ \A i \in begin..(begin + width - 1) : i < capacity /\ OccupiedAt(b, i)
    IN  IF complete THEN <<b.recent_sack>> ELSE << >>

FirstBlocks(blocks, max_blocks) == SubSeq(blocks, 1, Smaller(max_blocks, Len(blocks)))
SackBlocks(b, max_blocks) ==
    FirstBlocks(Recent(b) \o Runs(b, {Recent(b)[k] : k \in DOMAIN Recent(b)}), max_blocks)

ConsumeFin(b) == [b EXCEPT !.rcv_nxt = (@ + 1) % SeqModulus, !.fin_received = TRUE]

-----------------------------------------------------------------------------
(* DrainTcpReceiveBuffer through DrainSession.  One call offers the ready   *)
(* octets up to the end of the ring; CallBudget calls at most.              *)

DeliveryResults(b) ==
    LET reach == IF CallBudget = 1 THEN Smaller(b.ready_bytes, capacity - b.first_index)
                 ELSE b.ready_bytes
    IN  IF write_shutdown THEN {[octets |-> 0, status |-> "Closed"]}
        ELSE [octets : 0..reach, status : {"WouldBlock", "Closed", "Error"}]
             \cup [octets : {b.ready_bytes} \cap 0..reach, status : {"Drained"}]
             \cup [octets : CallBudget..Smaller(reach, b.ready_bytes - 1), status : {"BudgetExhausted"}]

Untouched(b, s) == [buf |-> b, session |-> s, pending |-> delivery_pending, octets |-> << >>]

DrainSession_DropsPending(b, s) ==
    IF s = "none" \/ b.ready_bytes = 0 \/ b.blocked THEN {Untouched(b, s)}
    ELSE {[buf |-> [ConsumeReady(b, r.octets) EXCEPT
                      !.blocked = IF r.status = "BudgetExhausted" THEN @ ELSE r.status # "Drained"],
           session |-> IF r.status \in {"Closed", "Error"} THEN "none" ELSE s,
           pending |-> FALSE,
           octets  |-> [i \in 1..r.octets |-> b.storage[PhysicalIndex(b, i - 1)]]] :
             r \in DeliveryResults(b)}

DrainSession(b, s) ==
    IF s = "none" \/ b.ready_bytes = 0 \/ b.blocked THEN {Untouched(b, s)}
    ELSE {[buf |-> [ConsumeReady(b, r.octets) EXCEPT
                      !.blocked = IF r.status = "BudgetExhausted" THEN @ ELSE r.status # "Drained"],
           session |-> IF r.status \in {"Closed", "Error"} THEN "none" ELSE s,
           pending |-> r.status = "BudgetExhausted",
           octets  |-> [i \in 1..r.octets |-> b.storage[PhysicalIndex(b, i - 1)]]] :
             r \in DeliveryResults(b)}

(* The caller's share of a drain: what it leaves in the PCB. *)
Drained(o) == /\ session' = o.session
              /\ delivery_pending' = o.pending
              /\ delivered' = delivered \o o.octets

RcvNxtPosition(b, d) == Len(d) + b.ready_bytes + (IF b.fin_received THEN 1 ELSE 0)

WireWindow(available) == WindowUnit * Smaller(available \div WindowUnit, MaxWireWindow)

(* BuildAck on buffer b once d has been delivered; the ACK goes out. *)
BuildAck(b, d) ==
    LET represented == WireWindow(AdvertisedWindow(b))
    IN  /\ buf' = [RecordAdvertisedWindow(b, represented) EXCEPT !.delayed_ack_pending = FALSE]
        /\ ack_timer' = FALSE
        /\ last_ack' = Larger(last_ack, RcvNxtPosition(b, d))
        /\ ack_edge' = Larger(ack_edge, RcvNxtPosition(b, d) + represented)
        /\ UNCHANGED data_edge

Keep == UNCHANGED <<session, write_shutdown, delivery_pending, close_flow, delivered>>

-----------------------------------------------------------------------------
NewReceiveBuffer ==
    [storage |-> [p \in Index |-> 0], occupied |-> [p \in Index |-> FALSE],
     first_index |-> 0, ready_bytes |-> 0, bytes_held |-> 0,
     rcv_nxt |-> InitialSequence,
     rcv_adv |-> (InitialSequence + Smaller(MaxWireWindow, capacity)) % SeqModulus,
     blocked |-> FALSE, delayed_ack_pending |-> FALSE,
     recent_sack |-> [left_edge |-> 0, right_edge |-> 0], recent_sack_valid |-> FALSE,
     fin_received |-> FALSE]

Init == /\ buf = NewReceiveBuffer
        /\ session \in {"none", "bound"}
        /\ write_shutdown = FALSE /\ close_flow = FALSE /\ delivery_pending = FALSE /\ ack_timer = FALSE
        /\ delivered = << >> /\ last_ack = 0
        /\ ack_edge = Smaller(MaxWireWindow, capacity) /\ data_edge = 0

(* The client may send or resend anything near the receiver's position. *)
Nearby(position) == LET d == position - RcvNxtPosition(buf, delivered)
                    IN  d <= Half /\ -d <= Half

(* ProcessEstablished, up to the sequence check: the segment is only acked. *)
Unacceptable(position, n, fin) ==
    /\ Nearby(position)
    /\ ~IsSequenceAcceptable(buf, SeqNo(position), n + (IF fin THEN 1 ELSE 0))
    /\ BuildAck(buf, delivered)
    /\ Keep

(* A SYN, an acknowledgment of octets not sent, an old timestamp. *)
ChallengeAck == BuildAck(buf, delivered) /\ Keep

(* ShutdownWrite is called once; a later FIN is no longer acceptable. *)
HandleFin(s) == write_shutdown' = (write_shutdown \/ s = "bound")

(* A FIN without payload, in the window. *)
PureFin(position) ==
    /\ Nearby(position) /\ position = MaxStream
    /\ IsSequenceAcceptable(buf, SeqNo(position), 1)
    /\ IF SeqNo(position) = buf.rcv_nxt
       THEN /\ BuildAck(ConsumeFin(buf), delivered)
            /\ HandleFin(session)
            /\ UNCHANGED <<session, delivery_pending, close_flow, delivered>>
       ELSE BuildAck(buf, delivered) /\ Keep

(* Payload after the client's FIN was consumed. *)
LateData(position, n, fin) ==
    /\ n > 0 /\ buf.fin_received /\ Nearby(position)
    /\ IsSequenceAcceptable(buf, SeqNo(position), n + (IF fin THEN 1 ELSE 0))
    /\ BuildAck(buf, delivered)
    /\ Keep

(* Payload, with or without FIN. *)
Data(position, n, psh, fin) ==
    /\ n > 0 /\ ~buf.fin_received /\ Nearby(position)
    /\ IsSequenceAcceptable(buf, SeqNo(position), n + (IF fin THEN 1 ELSE 0))
    /\ \E r \in {OnSegment(buf, SeqNo(position), [i \in 1..n |-> position + i - 1], psh)} :
          \E o \in DrainSession(r.buf, session) :
             /\ Drained(o)
             /\ IF fin /\ SeqNo(position + n) = o.buf.rcv_nxt /\ r.accepted > 0
                THEN /\ BuildAck(ConsumeFin(o.buf), delivered')
                     /\ HandleFin(o.session)
                ELSE /\ UNCHANGED write_shutdown
                     /\ \/ BuildAck(o.buf, delivered')
                        \/ /\ ~fin /\ r.ack = "Delayed" /\ (o.buf.blocked => buf.blocked)
                           /\ ack_timer' = TRUE
                           /\ buf' = o.buf
                           /\ UNCHANGED <<last_ack, ack_edge, data_edge>>
    /\ UNCHANGED close_flow

OnDelayedAck == /\ ack_timer
                /\ BuildAck(buf, delivered)
                /\ Keep

AttachSession ==
    /\ session = "none" /\ ~buf.fin_received /\ ~close_flow
    /\ \E o \in DrainSession([buf EXCEPT !.blocked = FALSE], "bound") :
          Drained(o) /\ BuildAck(o.buf, delivered')
    /\ UNCHANGED <<write_shutdown, close_flow>>

OnSessionWritable ==
    /\ session = "bound"
    /\ \E o \in DrainSession([buf EXCEPT !.blocked = FALSE], session) :
          Drained(o) /\ BuildAck(o.buf, delivered')
    /\ UNCHANGED <<write_shutdown, close_flow>>

(* The orderly close; an abort removes the connection and this state. *)
OnSessionClosed == /\ ~close_flow
                   /\ session' = "none"
                   /\ close_flow' = TRUE
                   /\ UNCHANGED <<buf, write_shutdown, delivery_pending, ack_timer, delivered,
                                  last_ack, ack_edge, data_edge>>

PumpSessionDeliveries ==
    /\ delivery_pending /\ session = "bound" /\ ~buf.blocked
    /\ \E o \in DrainSession(buf, session) :
          /\ Drained(o)
          /\ IF o.octets # << >> THEN BuildAck(o.buf, delivered')
             ELSE buf' = o.buf /\ UNCHANGED <<ack_timer, last_ack, ack_edge, data_edge>>
    /\ UNCHANGED <<write_shutdown, close_flow>>

(* PumpSendPaths sends a data segment: it carries RCV.NXT and a window.     *)
PumpSendPaths ==
    /\ last_ack' = Larger(last_ack, RcvNxtPosition(buf, delivered))
    /\ data_edge' = Larger(data_edge, RcvNxtPosition(buf, delivered) + WireWindow(AdvertisedWindow(buf)))
    /\ UNCHANGED <<buf, session, write_shutdown, delivery_pending, close_flow, ack_timer,
                   delivered, ack_edge>>

Segment(position, n, psh, fin) ==
    \/ Unacceptable(position, n, fin)
    \/ LateData(position, n, fin)
    \/ Data(position, n, psh, fin)

Next == \/ \E position \in 0..MaxStream, n \in 0..MaxSegment, psh, fin \in BOOLEAN :
              /\ position + n <= MaxStream
              /\ fin => position + n = MaxStream
              /\ n > 0 \/ fin
              /\ Segment(position, n, psh, fin)
        \/ PureFin(MaxStream)
        \/ ChallengeAck
        \/ OnDelayedAck
        \/ AttachSession \/ OnSessionWritable \/ OnSessionClosed
        \/ PumpSessionDeliveries
        \/ PumpSendPaths

Spec == Init /\ [][Next]_vars /\ WF_vars(OnDelayedAck)

-----------------------------------------------------------------------------
(* The receive ring, its reassembly map and the window keep their ranges:    *)
(* every octet held has an index inside the ring.                            *)
TypeOK == /\ buf.storage \in [Index -> 0..MaxStream]
          /\ buf.occupied \in [Index -> BOOLEAN]
          /\ buf.first_index \in Index /\ buf.ready_bytes \in 0..capacity
          /\ buf.bytes_held \in buf.ready_bytes..capacity
          /\ {buf.rcv_nxt, buf.rcv_adv} \subseteq 0..(SeqModulus - 1)
          /\ {buf.blocked, buf.delayed_ack_pending, buf.fin_received, buf.recent_sack_valid} \subseteq BOOLEAN
          /\ session \in {"none", "bound"}
          /\ {write_shutdown, delivery_pending, close_flow, ack_timer} \subseteq BOOLEAN
          /\ delivered \in Seq(0..MaxStream)
          /\ {last_ack, ack_edge, data_edge} \subseteq Nat

Held(b) == {i \in 0..(capacity - 1) : OccupiedAt(b, i)}

(* The session gets the client's octets once each and in order, whatever    *)
(* the order, overlap and repetition of the segments, and the ring holds    *)
(* every other received octet at the place its sequence number says         *)
(* (OnSegment and ConsumeReady across the wrap of the ring and of the       *)
(* sequence space).                                                         *)
StreamIntact == /\ \A i \in 1..Len(delivered) : delivered[i] = i - 1
                /\ \A i \in Held(buf) : buf.storage[PhysicalIndex(buf, i)] = Len(delivered) + i

(* ready_bytes_ is the longest gap-free prefix of the ring, bytes_held_     *)
(* counts the occupied octets, and RCV.NXT is the first octet (or FIN) not  *)
(* yet received in order.                                                   *)
ReadyIsPrefix == /\ \A i \in 0..(buf.ready_bytes - 1) : i \in Held(buf)
                 /\ buf.ready_bytes < capacity => buf.ready_bytes \notin Held(buf)
                 /\ buf.bytes_held = Cardinality(Held(buf))
                 /\ buf.rcv_nxt = SeqNo(RcvNxtPosition(buf, delivered))

Covered(b, block) == LET begin == b.ready_bytes + SequenceOffset(block.left_edge, b.rcv_nxt)
                     IN  begin..(begin + ((block.right_edge - block.left_edge) % SeqModulus) - 1)

(* The SACK blocks an ACK would carry report only octets held above         *)
(* RCV.NXT, and all of them when the option has room.                       *)
SackExact == LET Reported(n) == UNION {Covered(buf, SackBlocks(buf, n)[k]) :
                                         k \in 1..Len(SackBlocks(buf, n))}
                 outOfOrder == {i \in Held(buf) : i >= buf.ready_bytes}
             IN  ~buf.fin_received => /\ Reported(MaxSackBlocks) \subseteq outOfOrder
                                      /\ Reported(capacity) = outOfOrder

(* A right edge announced by an ACK is never taken back: every octet below  *)
(* it is acceptable until it arrives, also after the session blocks and the *)
(* advertised window drops to zero (RecordAdvertisedWindow, rcv_adv_).      *)
AckWindowHonoured == ~buf.fin_received =>
    AcceptableWindow(buf) >= ack_edge - RcvNxtPosition(buf, delivered)

(* What the receive half holds is the client's stream: the octets delivered *)
(* and held, the gap-free prefix that is ready, and RCV.NXT and the SACK    *)
(* blocks that tell the client about them (OnSegment, ConsumeReady,         *)
(* SackBlocks).                                                             *)
ReceiveExact == TypeOK /\ StreamIntact /\ ReadyIsPrefix /\ SackExact /\ AckWindowHonoured

(* The same for every window the client has seen, those on data segments    *)
(* included.                                                                *)
WireWindowHonoured == ~buf.fin_received =>
    AcceptableWindow(buf) >= Larger(ack_edge, data_edge) - RcvNxtPosition(buf, delivered)

(* Ready octets are never forgotten: with a session that has not pushed     *)
(* back, PumpSessionDeliveries still has the connection on its list.        *)
NoStranding == buf.ready_bytes > 0 /\ session = "bound" /\ ~buf.blocked => delivery_pending

(* ShutdownWrite reaches the session only after all the client's payload    *)
(* was handed to it.                                                        *)
ShutdownAfterPayload == write_shutdown => delivered = [i \in 1..MaxStream |-> i - 1]

(* Whatever was received is acknowledged at last, by a delayed ACK if by    *)
(* nothing else.                                                            *)
EventuallyAcked ==
    (last_ack < RcvNxtPosition(buf, delivered)) ~> (last_ack = RcvNxtPosition(buf, delivered))

=============================================================================
