----------------------------- MODULE TcpEngine ------------------------------
(***************************************************************************)
(* The connection table of one shard: TcpHandshakeEngine                   *)
(* (src/tcp/handshake.cpp), from SYN to removal.  The octets a connection  *)
(* carries are the business of TcpReceive and TcpSend; here a segment is   *)
(* known by its flags and by where its numbers fall (at RCV.NXT, in the    *)
(* window, outside; acknowledging old, all or too much), the send buffer   *)
(* by how far its FIN has come, and the delivery to a session by whether   *)
(* the session survives it.                                                *)
(*                                                                         *)
(* eng is the engine; its methods are functions of it.  A handler yields   *)
(* [e, reply, fault]: the engine after it, the response it returns and     *)
(* whether it used a PCB slot that no longer held its connection (pcbs_ is *)
(* a vector from which RemoveAt removes by moving the last element into    *)
(* the hole, and handlers hold references into it).  Every PCB of an       *)
(* engine has the same generation, so timers find theirs by flow alone.    *)
(***************************************************************************)
EXTENDS Integers, Sequences, FiniteSets, FiniteSetsExt

Seqs == INSTANCE SequencesExt

CONSTANTS Flows,                  \* incoming_flow of a client
          Listener,               \* [Flows -> ...]: destination address and port
          NoFlow,
          backlog_limit, half_open_limit, pcb_limit, pending_response_limit,
          receive_buffers,        \* receive buffers the memory budget has room for
          syn_ack_retries,        \* syn_ack_retry_intervals_ms.size()
          max_timewait_entries,
          pcb_budget,             \* of PumpSendPaths
          AllocationFails,        \* may an allocation throw?
          FactoryRejects,         \* may OpenTcp reject a connection?
          RepeatsFin,             \* may a client number a second FIN after its first?
          Odd,                    \* bound: flows that also send segments no client of this engine needs
          Deferring,              \* bound: flows whose responses the scheduler may refuse
          MaxFlowId               \* bound: connections created

ASSUME EngineAssumption ==
    /\ IsFiniteSet(Flows) /\ NoFlow \notin Flows /\ (Odd \cup Deferring) \subseteq Flows /\ DOMAIN Listener = Flows
    /\ {backlog_limit, half_open_limit, pcb_limit, pending_response_limit, receive_buffers,
        syn_ack_retries, max_timewait_entries, pcb_budget, MaxFlowId} \subseteq Nat \ {0}
    /\ backlog_limit <= pcb_limit /\ half_open_limit <= pcb_limit
    /\ {AllocationFails, FactoryRejects, RepeatsFin} \subseteq BOOLEAN

VARIABLE eng          \* the TcpHandshakeEngine
vars == <<eng>>

One(b) == IF b THEN 1 ELSE 0
Ids == 1..MaxFlowId
TcpState == {"SynReceived", "Established", "FinWait1", "FinWait2", "CloseWait", "Closing", "LastAck", "TimeWait"}
Closings == {"FinWait1", "FinWait2", "Closing", "LastAck"}
TimerKinds == {"retry", "delayed_ack", "timewait"}

(* How far the FIN of the send buffer has come; closed: retransmissions     *)
(* exhausted.                                                               *)
SendStates == {"none", "open", "finWanted", "finSent", "finAcked", "closed"}

(* A connection: receive and session say whether it has them, deadline      *)
(* orders the connections in TIME-WAIT.                                     *)
Pcb == [flow : Flows, flow_id : Ids, state : TcpState, receive : BOOLEAN, send : SendStates,
        session : BOOLEAN, session_bound : BOOLEAN, retry_index : 0..syn_ack_retries,
        deadline : Nat, close_notified : BOOLEAN, pending_ack : BOOLEAN]

NoReply == [flow |-> NoFlow, kind |-> "none"]
Response(flow, kind) == [flow |-> flow, kind |-> kind]
Result(e, reply) == [e |-> e, reply |-> reply, fault |-> FALSE]
Silent(e) == Result(e, NoReply)

-----------------------------------------------------------------------------
(* The table. *)

FindIndex(e, flow) == Seqs!SelectInSeq(e.pcbs, LAMBDA p : p.flow = flow)     \* 0: kNotFound
FindId(e, id) == Seqs!SelectInSeq(e.pcbs, LAMBDA p : p.flow_id = id)
InState(e, state) == {i \in DOMAIN e.pcbs : e.pcbs[i].state = state}
ListenerHalfOpenCount(e, flow) ==
    Cardinality({i \in InState(e, "SynReceived") : Listener[e.pcbs[i].flow] = Listener[flow]})

Schedule(e, kind, i) ==
    [e EXCEPT !.timers = @ \cup {[kind |-> kind, flow |-> e.pcbs[i].flow, id |-> e.pcbs[i].flow_id]}]
Cancel(e, kinds, id) == [e EXCEPT !.timers = {t \in @ : ~(t.kind \in kinds /\ t.id = id)}]
EmitFlowEvent(e, id, type) == [e EXCEPT !.events[id] = Append(@, type)]

SwapPop(s, i) == [k \in 1..(Len(s) - 1) |-> IF k = i THEN s[Len(s)] ELSE s[k]]

RemoveAt_KeepsTimer(e, i) ==
    LET p == e.pcbs[i]
    IN  IF i \notin DOMAIN e.pcbs THEN e
        ELSE [Cancel(e, TimerKinds \ {"timewait"}, p.flow_id) EXCEPT
                !.receive_memory = @ - One(p.receive),
                !.half_open_count = @ - One(p.state = "SynReceived" /\ @ > 0),
                !.pcbs = SwapPop(@, i)]
RemoveAt_LeaksHalfOpen(e, i) ==
    LET p == e.pcbs[i]
    IN  IF i \notin DOMAIN e.pcbs THEN e
        ELSE [Cancel(e, TimerKinds, p.flow_id) EXCEPT !.receive_memory = @ - One(p.receive),
                                                      !.pcbs = SwapPop(@, i)]
RemoveAt(e, i) ==
    LET p == e.pcbs[i]
    IN  IF i \notin DOMAIN e.pcbs THEN e
        ELSE [Cancel(e, TimerKinds, p.flow_id) EXCEPT
                !.receive_memory = @ - One(p.receive),
                !.half_open_count = @ - One(p.state = "SynReceived" /\ @ > 0),
                !.pcbs = SwapPop(@, i)]

(* An ACK replaces the one its connection has pending; everything else      *)
(* queues up to the limit.                                                  *)
QueueResponse(e, r) ==
    LET i == FindIndex(e, r.flow)
    IN  IF r.kind = "Ack" /\ i # 0 THEN [e EXCEPT !.pcbs[i].pending_ack = TRUE]
        ELSE IF r.kind = "Ack" /\ Seqs!Contains(e.pending_responses, r) THEN e
        ELSE IF Len(e.pending_responses) >= pending_response_limit THEN e
        ELSE [e EXCEPT !.pending_responses = Append(@, r)]

(* BuildAck(pcb), pcb being the reference to slot i taken when it held      *)
(* connection id.  A slot beyond the end is a moved-from element, whose     *)
(* receive buffer is gone: no response.                                     *)
BuildAck(e, i, id) ==
    IF i \in DOMAIN e.pcbs
    THEN [e |-> Cancel(e, {"delayed_ack"}, e.pcbs[i].flow_id), reply |-> Response(e.pcbs[i].flow, "Ack"),
          fault |-> e.pcbs[i].flow_id # id]
    ELSE [e |-> e, reply |-> NoReply, fault |-> TRUE]
BuildReset(g) == Response(g.flow, "Rst")

(* Deadlines count only by their order. *)
Compact(pcbs) ==
    [i \in DOMAIN pcbs |-> [pcbs[i] EXCEPT !.deadline =
        Cardinality({pcbs[k].deadline : k \in DOMAIN pcbs} \cap 1..@)]]

(* ScheduleTimeWait: a full TIME-WAIT set gives up its oldest entry first.  *)
(* c.same_ms: the deadline equals that of the youngest entry.               *)
Older(e, k, j) == \/ e.pcbs[k].deadline < e.pcbs[j].deadline
                  \/ e.pcbs[k].deadline = e.pcbs[j].deadline /\ k <= j
OldestTimeWait(e) == CHOOSE k \in InState(e, "TimeWait") : \A j \in InState(e, "TimeWait") : Older(e, k, j)
YoungestDeadline(e) == Max({0} \cup {e.pcbs[k].deadline : k \in DOMAIN e.pcbs})

Evict(e, k) == EmitFlowEvent(RemoveAt(e, k), e.pcbs[k].flow_id, "Closed")
TimeWaitFull(e) == Cardinality(InState(e, "TimeWait")) >= max_timewait_entries

Stamp(pcbs, at, deadline) ==
    Compact([pcbs EXCEPT ![at].state = "TimeWait", ![at].deadline = deadline])
Deadline(last, c) == last + One(~c.same_ms \/ last = 0)

EnterTimeWait(e, at, c) ==
    LET Timed(stamped) == IF "timer" \in c.fails THEN [e |-> stamped, ok |-> FALSE]
                          ELSE [e |-> Schedule(stamped, "timewait", at), ok |-> TRUE]
    IN  IF at = 0 THEN [e |-> e, ok |-> FALSE]
        ELSE Timed([e EXCEPT !.pcbs = Stamp(@, at, Deadline(YoungestDeadline(e), c))])

ScheduleTimeWait_Silent(e, i, c) ==
    LET Enter(room) == EnterTimeWait(room, FindIndex(room, e.pcbs[i].flow), c)
    IN  Enter(IF TimeWaitFull(e) THEN RemoveAt(e, OldestTimeWait(e)) ELSE e)
ScheduleTimeWait(e, i, c) ==
    LET Enter(room) == EnterTimeWait(room, FindIndex(room, e.pcbs[i].flow), c)
    IN  Enter(IF TimeWaitFull(e) THEN Evict(e, OldestTimeWait(e)) ELSE e)

(* Enter TIME-WAIT, or remove what the index now names if that fails.       *)
(* [e, removed]: whether the handler ends here, its connection gone.        *)
Goes(e) == [e |-> e, removed |-> TRUE]
Stays(e) == [e |-> e, removed |-> FALSE]
TimeWaitOrRemove(e, i, c) ==
    LET OrRemove(t) == IF t.ok THEN Stays(t.e) ELSE Goes(RemoveAt(t.e, i))
    IN  OrRemove(ScheduleTimeWait(e, i, c))

(* handle_fin: the FIN is consumed and told to the session. *)
HandleFin(e, i, c) ==
    LET p == e.pcbs[i]
        f == [e EXCEPT !.pcbs[i].close_notified = TRUE,
                       !.shutdowns[p.flow_id] = @ + One(p.session /\ ~p.close_notified)]
    IN  IF p.state = "Established" THEN Stays([f EXCEPT !.pcbs[i].state = "CloseWait"])
        ELSE IF p.state = "FinWait1" THEN Stays([f EXCEPT !.pcbs[i].state = "Closing"])
        ELSE IF p.state \in {"FinWait2", "Closing"} THEN TimeWaitOrRemove(f, i, c)
        ELSE Stays(f)

(* What follows the ACK in ProcessEstablished: the FIN and the payload. *)
FinThenAck(e, i, id, c) ==
    LET Answer(f) == IF f.removed THEN Silent(f.e) ELSE BuildAck(f.e, i, id)
    IN  Answer(HandleFin(e, i, c))

DropSession(e, i) == [e EXCEPT !.pcbs[i].session = FALSE, !.pcbs[i].session_bound = FALSE]
Drained(e, i, c) == IF e.pcbs[i].session /\ c.dropped THEN DropSession(e, i) ELSE e

PayloadAndFin(e, i, id, g, c) ==
    LET data == Drained(e, i, c)
        acked == CASE c.ack_decision = "Immediate" -> BuildAck(data, i, id)
                   [] c.ack_decision = "Delayed" ->
                        IF "timer" \in c.fails THEN BuildAck(data, i, id)
                        ELSE Silent(Schedule(data, "delayed_ack", i))
                   [] OTHER -> Silent(data)
    IN  IF i \notin DOMAIN e.pcbs THEN [Silent(e) EXCEPT !.fault = TRUE]
        ELSE IF ~g.payload
        THEN IF g.fin /\ g.seq = "next" THEN FinThenAck(e, i, id, c)
             ELSE IF g.fin THEN BuildAck(e, i, id) ELSE Silent(e)
        ELSE IF e.pcbs[i].state \in {"CloseWait", "Closing", "LastAck", "TimeWait"} THEN BuildAck(e, i, id)
        ELSE IF ~g.fin THEN acked
        ELSE IF g.seq = "next" THEN FinThenAck(acked.e, i, id, c)
        ELSE BuildAck(acked.e, i, id)

(* The ACK, and the transitions that wait for our FIN to be acknowledged. *)
FinAcked(e, i, c) ==
    LET p == e.pcbs[i]
    IN  IF p.send # "finAcked" THEN Stays(e)
        ELSE IF p.state = "FinWait1" THEN Stays([e EXCEPT !.pcbs[i].state = "FinWait2"])
        ELSE IF p.state = "Closing" THEN TimeWaitOrRemove(e, i, c)
        ELSE IF p.state = "LastAck" THEN Goes(EmitFlowEvent(RemoveAt(e, i), p.flow_id, "Closed"))
        ELSE Stays(e)

AckFed(e, i, g, c) ==
    LET fed == IF g.ackno = "all" /\ e.pcbs[i].send = "finSent"
               THEN [e EXCEPT !.pcbs[i].send = "finAcked"] ELSE e
        Rest(f) == IF f.removed THEN Silent(f.e) ELSE PayloadAndFin(f.e, i, e.pcbs[i].flow_id, g, c)
    IN  Rest(FinAcked(fed, i, c))

ProcessEstablished(e, i, g, c) ==
    LET p  == e.pcbs[i]
        id == p.flow_id
        restarted == ScheduleTimeWait(Cancel(e, {"timewait"}, id), i, c).e
    IN  IF p.state = "TimeWait" THEN BuildAck(IF g.fin THEN restarted ELSE e, i, id)
        ELSE IF ~p.receive THEN Silent(e)
        ELSE IF g.syn THEN BuildAck(e, i, id)
        ELSE IF ~g.ack THEN Silent(e)
        ELSE IF g.ackno = "future" THEN BuildAck(e, i, id)
        ELSE IF g.options = "bad" THEN Silent(e)
        ELSE IF g.options = "old timestamp" \/ g.seq \in {"irs", "out"} THEN BuildAck(e, i, id)
        ELSE AckFed(e, i, g, c)

(* The ACK that completes the handshake, from the receive buffer to the     *)
(* session.                                                                 *)
Establish(e, i, g, c) ==
    LET id == e.pcbs[i].flow_id
        received == [Cancel(e, {"retry"}, id) EXCEPT
                       !.pcbs[i].receive = TRUE, !.receive_memory = @ + 1, !.pcbs[i].state = "Established"]
        opened == EmitFlowEvent([received EXCEPT !.pcbs[i].send = "open",
                                                 !.half_open_count = @ - One(@ > 0)], id, "Established")
        bound == [opened EXCEPT !.pcbs[i].session = TRUE, !.pcbs[i].session_bound = TRUE]
    IN  IF e.receive_memory >= receive_buffers \/ "receive" \in c.fails
        THEN Result(RemoveAt(e, i), BuildReset(g))
        ELSE IF "send" \in c.fails THEN Result(RemoveAt(received, i), BuildReset(g))
        ELSE IF c.rejected THEN Result(RemoveAt(opened, i), BuildReset(g))
        ELSE IF g.payload \/ g.fin THEN ProcessEstablished(bound, i, g, c)
        ELSE Silent(bound)

OnSynReceived(e, i, g, c) ==
    IF g.rst THEN Silent(IF g.seq = "next" THEN EmitFlowEvent(RemoveAt(e, i), e.pcbs[i].flow_id, "Reset") ELSE e)
    ELSE IF g.syn
         THEN Result(e, IF ~g.ack /\ ~g.fin /\ g.seq = "irs" THEN Response(g.flow, "SynAck") ELSE NoReply)
    ELSE IF g.seq \in {"irs", "out"} THEN Result(e, Response(g.flow, "SynAck"))
    ELSE IF ~g.ack THEN Silent(e)
    ELSE IF g.ackno # "all" THEN Result(e, BuildReset(g))
    ELSE IF g.options = "bad" THEN Silent(e)
    ELSE Establish(e, i, g, c)

NewPcb(e, flow) == [flow |-> flow, flow_id |-> e.next_flow_id, state |-> "SynReceived", receive |-> FALSE,
                    send |-> "none", session |-> FALSE, session_bound |-> FALSE, retry_index |-> 0,
                    deadline |-> 0, close_notified |-> FALSE, pending_ack |-> FALSE]

OnNewFlow(e, g, c) ==
    LET stored == [e EXCEPT !.pcbs = Append(@, NewPcb(e, g.flow)), !.next_flow_id = @ + 1,
                            !.half_open_count = @ + 1]
        last == Len(stored.pcbs)
    IN  IF g.rst THEN Silent(e)
        ELSE IF g.ack THEN Result(e, BuildReset(g))
        ELSE IF ~g.syn \/ g.fin \/ g.options = "bad" THEN Silent(e)
        ELSE IF \/ e.half_open_count >= half_open_limit
                \/ ListenerHalfOpenCount(e, g.flow) >= backlog_limit
                \/ Len(e.pcbs) >= pcb_limit
             THEN Silent(e)
        ELSE IF "timer" \in c.fails THEN Silent(RemoveAt(stored, last))
        ELSE Result(Schedule(stored, "retry", last), Response(g.flow, "SynAck"))

OnSegment(e, g, c) ==
    LET i  == FindIndex(e, g.flow)
        id == e.pcbs[i].flow_id
    IN  IF e.shutdown THEN Silent(e)
        ELSE IF i = 0 THEN OnNewFlow(e, g, c)
        ELSE IF e.pcbs[i].state = "SynReceived" THEN OnSynReceived(e, i, g, c)
        ELSE IF ~g.rst THEN ProcessEstablished(e, i, g, c)
        ELSE IF g.seq = "next" THEN Silent(EmitFlowEvent(RemoveAt(e, i), id, "Reset"))
        ELSE BuildAck(e, i, id)

-----------------------------------------------------------------------------
(* Timers; the callback has the flow, not the connection. *)

OnRetry_Once(e, flow, c) ==
    LET i == FindIndex(e, flow)
    IN  IF i = 0 THEN e
        ELSE IF e.pcbs[i].state # "SynReceived" THEN e
        ELSE IF e.pcbs[i].retry_index >= syn_ack_retries THEN RemoveAt(e, i)
        ELSE QueueResponse([e EXCEPT !.pcbs[i].retry_index = @ + 1], Response(flow, "SynAck"))
OnRetry(e, flow, c) ==
    LET i == FindIndex(e, flow)
        again == QueueResponse([e EXCEPT !.pcbs[i].retry_index = @ + 1], Response(flow, "SynAck"))
    IN  IF i = 0 THEN e
        ELSE IF e.pcbs[i].state # "SynReceived" THEN e
        ELSE IF e.pcbs[i].retry_index >= syn_ack_retries THEN RemoveAt(e, i)
        ELSE IF "timer" \in c.fails THEN RemoveAt(again, i)
        ELSE Schedule(again, "retry", i)

OnDelayedAck(e, flow) ==
    LET i == FindIndex(e, flow)
    IN  IF i = 0 THEN e
        ELSE IF e.pcbs[i].state \in {"SynReceived", "TimeWait"} THEN e
        ELSE QueueResponse(e, Response(flow, "Ack"))

OnTimeWaitExpired(e, flow) ==
    LET i == FindIndex(e, flow)
    IN  IF i = 0 THEN e
        ELSE IF e.pcbs[i].state # "TimeWait" THEN e
        ELSE EmitFlowEvent(RemoveAt(e, i), e.pcbs[i].flow_id, "Closed")

(* Messages; a session may post them after its connection is gone. *)

CloseFlow(e, id) ==
    LET i == FindId(e, id)
    IN  IF i = 0 THEN e
        ELSE IF e.pcbs[i].state \notin {"Established", "CloseWait"} THEN e
        ELSE [e EXCEPT !.pcbs[i].state = IF @ = "Established" THEN "FinWait1" ELSE "LastAck",
                       !.pcbs[i].send = IF @ = "open" THEN "finWanted" ELSE @]

AbortFlow(e, id) ==
    LET i == FindId(e, id)
        queued == QueueResponse(e, Response(e.pcbs[i].flow, "Rst"))
    IN  IF i = 0 THEN e ELSE EmitFlowEvent(RemoveAt(queued, i), id, "Reset")

OnSessionClosed(e, id, clean) ==
    LET i == FindId(e, id)
        f == DropSession(e, i)
    IN  IF i = 0 THEN e
        ELSE IF e.pcbs[i].state \in Closings \cup {"TimeWait"} THEN f
        ELSE IF clean THEN CloseFlow(f, id) ELSE AbortFlow(f, id)

OnSessionWritable(e, id, c) ==
    LET i == FindId(e, id)
    IN  IF i = 0 THEN Silent(e)
        ELSE IF e.pcbs[i].state \in {"SynReceived", "TimeWait"} \/ ~e.pcbs[i].session THEN Silent(e)
        ELSE BuildAck(Drained(e, i, c), i, id)

AttachSession(e, flow, c) ==
    LET i == FindIndex(e, flow)
        bound == [e EXCEPT !.pcbs[i].session = TRUE, !.pcbs[i].session_bound = TRUE]
    IN  IF i = 0 THEN Silent(e)
        ELSE IF e.pcbs[i].state # "Established" \/ e.pcbs[i].session_bound THEN Silent(e)
        ELSE BuildAck(Drained(bound, i, c), i, e.pcbs[i].flow_id)

(* One turn of the loop in PumpSendPaths; w = [e, i, visited].  outcome     *)
(* says of each connection whether it sends, has nothing to send, or has    *)
(* used up its retransmissions.                                             *)
PumpStep(w, outcome) ==
    LET p == w.e.pcbs[w.i]
        skip == [w EXCEPT !.i = @ + 1]
        sent == CASE outcome[p.flow_id] = "sent" /\ p.send = "finWanted" -> "finSent"
                  [] outcome[p.flow_id] = "exhausted" /\ p.send # "finAcked" -> "closed"
                  [] OTHER -> p.send
    IN  IF w.i > Len(w.e.pcbs) \/ w.visited >= pcb_budget THEN w
        ELSE IF p.state \in {"SynReceived", "TimeWait"} THEN skip
        ELSE IF p.send # "closed" THEN [skip EXCEPT !.visited = @ + 1, !.e.pcbs[w.i].send = sent]
        ELSE IF p.state \in Closings
             THEN [w EXCEPT !.e = EmitFlowEvent(RemoveAt(@, w.i), p.flow_id, "Closed")]
        ELSE skip

PumpSendPaths(e, outcome) ==
    LET turn[n \in 0..Len(e.pcbs)] ==
            IF n = 0 THEN [e |-> e, i |-> 1, visited |-> 0] ELSE PumpStep(turn[n - 1], outcome)
    IN  turn[Len(e.pcbs)].e

PopPendingResponse(e) ==
    LET i == Seqs!SelectInSeq(e.pcbs, LAMBDA p : p.pending_ack)
    IN  IF i # 0 THEN [e EXCEPT !.pcbs[i].pending_ack = FALSE]
        ELSE [e EXCEPT !.pending_responses = Tail(@)]

HasPending(e) == e.pending_responses # << >> \/ \E i \in DOMAIN e.pcbs : e.pcbs[i].pending_ack

Shutdown(e) == [e EXCEPT !.shutdown = TRUE, !.pcbs = << >>, !.timers = {}, !.pending_responses = << >>,
                         !.half_open_count = @ - Cardinality(InState(e, "SynReceived")), !.receive_memory = 0,
                         !.events = [id \in Ids |->
                            LET i == FindId(e, id)
                            IN  IF i = 0 THEN @[id]
                                ELSE IF e.pcbs[i].state = "TimeWait" THEN @[id] ELSE Append(@[id], "Closed")]]

-----------------------------------------------------------------------------
(* What a client sends, by kind, and what the handler may meet on the way. *)

Blank(flow) == [flow |-> flow, syn |-> FALSE, ack |-> FALSE, fin |-> FALSE, rst |-> FALSE, payload |-> FALSE,
                seq |-> "next", ackno |-> "old", options |-> "ok"]
Resets(flow) == {[Blank(flow) EXCEPT !.rst = TRUE, !.seq = s] : s \in {"next", "in", "out"}}
Syns(flow) == {[Blank(flow) EXCEPT !.syn = TRUE, !.seq = s] : s \in {"irs", "in"}}
OddSyns(flow) == {[s EXCEPT !.ack = a, !.fin = f] : s \in Syns(flow), a, f \in BOOLEAN}
                 \cup {[s EXCEPT !.options = "bad"] : s \in Syns(flow)}
Acks(flow) == {[Blank(flow) EXCEPT !.ack = TRUE, !.fin = f, !.payload = p, !.seq = n[1], !.ackno = n[2]] :
                  f, p \in BOOLEAN,
                  n \in ({"next", "in"} \X {"old", "all"}) \cup {<<"out", "all">>, <<"next", "future">>}}
Refused(flow) == {[Blank(flow) EXCEPT !.ack = TRUE, !.fin = f, !.ackno = "all", !.options = o] :
                     f \in BOOLEAN, o \in {"bad", "old timestamp"}}
Flagless(flow) == {[Blank(flow) EXCEPT !.fin = f] : f \in BOOLEAN}
Segments == UNION {Resets(f) \cup Syns(f) \cup Acks(f) : f \in Flows}
            \cup UNION {OddSyns(f) \cup Refused(f) \cup Flagless(f) : f \in Odd}

(* A client's FIN is the last number it uses: once it is consumed, payload  *)
(* and FIN come only as retransmissions, from before the window.            *)
Conformant(e, g) ==
    LET i == FindIndex(e, g.flow)
    IN  i # 0 => (e.pcbs[i].close_notified /\ (g.fin \/ g.payload) => g.seq \in {"irs", "out"})

Failures == IF AllocationFails THEN {{}, {"timer"}, {"receive"}, {"send"}} ELSE {{}}
Turns(e, g) ==
    LET i == FindIndex(e, g.flow)
        state == IF i = 0 THEN "none" ELSE e.pcbs[i].state
        delivers == /\ g.payload /\ g.ackno # "future" /\ g.seq # "out"
                    /\ state \in {"SynReceived", "Established", "FinWait1", "FinWait2"}
        waits == InState(e, "TimeWait") # {} /\ (g.fin \/ state = "Closing")
    IN  [dropped      : IF delivers THEN BOOLEAN ELSE {FALSE},
         ack_decision : IF delivers THEN {"Immediate", "Delayed", "None"} ELSE {"None"},
         same_ms      : IF waits THEN BOOLEAN ELSE {FALSE},
         rejected     : IF FactoryRejects /\ state = "SynReceived" THEN BOOLEAN ELSE {FALSE},
         fails        : IF state = "SynReceived" THEN Failures ELSE Failures \cap {{}, {"timer"}}]
NoTrouble == [dropped |-> FALSE, ack_decision |-> "None", same_ms |-> FALSE, rejected |-> FALSE, fails |-> {}]

Init == eng = [pcbs |-> << >>, half_open_count |-> 0, receive_memory |-> 0, pending_responses |-> << >>,
               timers |-> {}, next_flow_id |-> 1, events |-> [id \in Ids |-> << >>],
               shutdowns |-> [id \in Ids |-> 0], shutdown |-> FALSE]

(* ProcessTcpSegment: a response the scheduler does not take is deferred. *)
Segment(g, c, sent) ==
    LET Deferred(r) == IF r.reply = NoReply \/ sent THEN r.e ELSE QueueResponse(r.e, r.reply)
    IN  /\ RepeatsFin \/ Conformant(eng, g)
        /\ g.syn => eng.next_flow_id <= MaxFlowId
        /\ eng' = Deferred(OnSegment(eng, g, c))

Fire(t, c) ==
    LET e == [eng EXCEPT !.timers = @ \ {t}]
    IN  eng' = CASE t.kind = "retry" -> OnRetry(e, t.flow, c)
                 [] t.kind = "delayed_ack" -> OnDelayedAck(e, t.flow)
                 [] t.kind = "timewait" -> OnTimeWaitExpired(e, t.flow)

Writable(id, dropped) ==
    \E r \in {OnSessionWritable(eng, id, [NoTrouble EXCEPT !.dropped = dropped])} :
        \/ eng' = r.e
        \/ r.reply.flow \in Deferring /\ eng' = QueueResponse(r.e, r.reply)
Message(id) ==
    \/ eng' = CloseFlow(eng, id)
    \/ eng' = AbortFlow(eng, id)
    \/ \E clean \in BOOLEAN : eng' = OnSessionClosed(eng, id, clean)
    \/ \E dropped \in BOOLEAN : Writable(id, dropped)

Attach(flow, dropped) == eng' = AttachSession(eng, flow, [NoTrouble EXCEPT !.dropped = dropped]).e

(* The pumps of the event loop, which run only while there are connections. *)
Pumped == Len(eng.pcbs) # 0 \/ eng.half_open_count # 0

PumpSessionDeliveries(i, dropped) ==
    /\ Pumped /\ eng.pcbs[i].session /\ eng.pcbs[i].state \notin {"SynReceived", "TimeWait"}
    /\ eng' = QueueResponse(Drained(eng, i, [NoTrouble EXCEPT !.dropped = dropped]), Response(eng.pcbs[i].flow, "Ack"))
Pop == Pumped /\ HasPending(eng) /\ eng' = PopPendingResponse(eng)
Pump(outcome) == Pumped /\ eng' = PumpSendPaths(eng, outcome)
Stop == ~eng.shutdown /\ eng' = Shutdown(eng)

(* What the send buffers come to when the clients no longer answer. *)
Unanswered == [id \in Ids |-> LET i == FindId(eng, id)
                              IN  IF i = 0 THEN "idle"
                                  ELSE IF eng.pcbs[i].send = "finSent" THEN "exhausted" ELSE "sent"]

Next == \/ \E g \in Segments : \E c \in Turns(eng, g), sent \in {TRUE, g.flow \notin Deferring} : Segment(g, c, sent)
        \/ \E t \in eng.timers, fails \in Failures \cap {{}, {"timer"}} : Fire(t, [NoTrouble EXCEPT !.fails = fails])
        \/ \E id \in 1..(eng.next_flow_id - 1) : Message(id)
        \/ \E flow \in Flows, dropped \in BOOLEAN : Attach(flow, dropped)
        \/ \E i \in DOMAIN eng.pcbs, dropped \in BOOLEAN : PumpSessionDeliveries(i, dropped)
        \/ Pop
        \/ \E outcome \in [Ids -> {"idle", "sent", "exhausted"}] : Pump(outcome)
        \/ Stop

(* The event loop never stops turning: timers fire, both pumps run.  A      *)
(* client does not restart TIME-WAIT for ever.                              *)
Fairness == /\ \A k \in TimerKinds, f \in Flows :
                  WF_vars(\E t \in eng.timers : t.kind = k /\ t.flow = f /\ Fire(t, NoTrouble))
            /\ WF_vars(Pop)
            /\ WF_vars(Pump(Unanswered))

Spec == Init /\ [][Next]_vars /\ Fairness

-----------------------------------------------------------------------------
(* Types, and the limits of the configuration, which no way into the table  *)
(* or the response queue escapes.                                           *)
TypeOK ==
    /\ Len(eng.pcbs) <= pcb_limit
    /\ \A i \in DOMAIN eng.pcbs : eng.pcbs[i] \in Pcb /\ eng.pcbs[i].flow_id < eng.next_flow_id
    /\ eng.half_open_count \in 0..half_open_limit
    /\ eng.receive_memory \in 0..receive_buffers
    /\ Len(eng.pending_responses) <= pending_response_limit
    /\ eng.timers \subseteq [kind : TimerKinds, flow : Flows, id : Ids]

Live(id) == FindId(eng, id) # 0
PcbOf(id) == eng.pcbs[FindId(eng, id)]

(* The counters that admit new connections agree with the table they count, *)
(* through every way a connection can leave SYN-RECEIVED and the table; no  *)
(* listener has more half-open connections than its backlog and TIME-WAIT   *)
(* keeps to its limit.                                                      *)
AdmissionExact ==
    /\ eng.half_open_count = Cardinality(InState(eng, "SynReceived"))
    /\ eng.receive_memory = Cardinality({i \in DOMAIN eng.pcbs : eng.pcbs[i].receive})
    /\ \A f \in Flows : ListenerHalfOpenCount(eng, f) <= backlog_limit
    /\ Cardinality(InState(eng, "TimeWait")) <= max_timewait_entries

(* One connection per flow, one PCB per connection, although RemoveAt moves *)
(* PCBs about, and the parts of a connection fit its state.                 *)
TableSound ==
    /\ \A i, k \in DOMAIN eng.pcbs : i # k => /\ eng.pcbs[i].flow # eng.pcbs[k].flow
                                              /\ eng.pcbs[i].flow_id # eng.pcbs[k].flow_id
    /\ \A i \in DOMAIN eng.pcbs :
          LET p == eng.pcbs[i]
          IN  /\ (p.state = "SynReceived") = (p.send = "none")
              /\ p.receive = (p.send # "none")
              /\ p.session => p.session_bound
              /\ p.state \in Closings => p.send # "open"
              /\ p.state \in {"FinWait2", "TimeWait"} => p.send \in {"finAcked", "closed"}
              /\ p.state \in {"CloseWait", "Closing", "LastAck", "TimeWait"} => p.close_notified

(* A timer belongs to the connection it was set for, never to a later one   *)
(* of the same flow, which its callback could not tell apart; and every     *)
(* half-open or TIME-WAIT connection has the timer that will remove it.     *)
TimersOwned ==
    /\ \A t \in eng.timers : Live(t.id) /\ PcbOf(t.id).flow = t.flow
    /\ \A i \in DOMAIN eng.pcbs :
          LET Set(kind) == [kind |-> kind, flow |-> eng.pcbs[i].flow, id |-> eng.pcbs[i].flow_id] \in eng.timers
          IN  /\ eng.pcbs[i].state = "SynReceived" => Set("retry")
              /\ eng.pcbs[i].state = "TimeWait" => Set("timewait")

(* The event sink sees of every connection at most one Established, first,  *)
(* and at most one end, after which it is gone.                             *)
EventsOrdered ==
    \A id \in Ids : /\ eng.events[id] \in {<< >>, <<"Established">>, <<"Reset">>, <<"Closed">>,
                                           <<"Established", "Reset">>, <<"Established", "Closed">>}
                    /\ Live(id) => eng.events[id] = IF PcbOf(id).state = "SynReceived" THEN << >>
                                                    ELSE <<"Established">>

(* No connection that was announced goes away unannounced, TIME-WAIT ones   *)
(* at Shutdown apart.                                                       *)
EndAnnounced == \A id \in Ids : eng.events[id] = <<"Established">> /\ ~eng.shutdown => Live(id)

(* The client's FIN reaches its session as ShutdownWrite() once at most,    *)
(* whatever is retransmitted.                                               *)
ShutdownOnce == \A id \in Ids : eng.shutdowns[id] <= 1

(* Whatever segment comes next for a connection not yet in TIME-WAIT, its   *)
(* handler stays with that connection: it uses no PCB slot that eviction    *)
(* has given to another one or destroyed, and answers no one but the sender.*)
StaysWithConnection ==
    \A g \in Segments : Conformant(eng, g) /\ FindIndex(eng, g.flow) \notin InState(eng, "TimeWait") =>
        LET r == OnSegment(eng, g, NoTrouble)
        IN  ~r.fault /\ r.reply.flow \in {g.flow, NoFlow}

(* A retransmitted FIN leaves the connection in TIME-WAIT, its timer        *)
(* restarted.                                                               *)
FinRestartsTimeWait ==
    \A id \in Ids : Live(id) /\ PcbOf(id).state = "TimeWait" =>
        LET g == [Blank(PcbOf(id).flow) EXCEPT !.ack = TRUE, !.fin = TRUE, !.seq = "out"]
            e == OnSegment(eng, g, NoTrouble).e
        IN  FindId(e, id) # 0

(* No connection is stuck in the states it should only pass through,        *)
(* whether its client answers or not: a half-open one is given up,          *)
(* TIME-WAIT expires, and a FIN that was requested is sent, and             *)
(* acknowledged or given up.                                                *)
Passing(id) == Live(id) /\ PcbOf(id).state \in {"SynReceived", "FinWait1", "Closing", "LastAck", "TimeWait"}
NoneStuck == \A id \in Ids : Passing(id) ~> ~Passing(id)

(* The RST that ends an aborted connection is handed to the scheduler. *)
ResetSent == \A f \in Flows : Seqs!Contains(eng.pending_responses, Response(f, "Rst"))
                                 ~> ~Seqs!Contains(eng.pending_responses, Response(f, "Rst"))

=============================================================================
