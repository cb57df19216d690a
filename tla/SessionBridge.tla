--------------------------- MODULE SessionBridge ----------------------------
(***************************************************************************)
(* The threads that meet at one connection: the shard's event loop, the    *)
(* adapter thread that feeds a TcpSession, and a caller of                 *)
(* StackShard::Stop.  They share the session (its mutex, the callbacks it  *)
(* holds and the count of those in flight), the engine's CallbackGate and  *)
(* the control inbox.                                                      *)
(*                                                                         *)
(* A step of a thread is what it does between taking and releasing one of  *)
(* the mutexes.  TryPost holds the gate only to push into the inbox and is *)
(* one step; TryRun holds it while a timer's callback runs, so `gate.held' *)
(* is true only between the steps of the shard.  Octets are numbered in    *)
(* the order the remote peer sent them; a lease carries LeaseOctets.       *)
(***************************************************************************)
EXTENDS Integers, Sequences, FiniteSets, FiniteSetsExt, Functions

CONSTANTS inbox_capacity,       \* of the control inbox
          send_limit,           \* octets of TcpSendBuffer: config.send_queue_limit
          session_limit,        \* octets of TcpSession: send_queue_limit_
          kControlInboxBudget,
          LeaseOctets,
          MaxOctets,            \* bound: octets the remote peer sends
          MaxReady,             \* bound: octets the client sends
          AppCloses,            \* does anyone post kFlowClose?
          ClientReads,          \* does the client keep its window open and answer?
          ClientFins            \* does the client ever close its side?

ASSUME BridgeAssumption ==
    /\ {inbox_capacity, send_limit, session_limit, kControlInboxBudget, LeaseOctets} \subseteq Nat \ {0}
    /\ {MaxOctets, MaxReady} \subseteq Nat
    /\ {AppCloses, ClientReads, ClientFins} \subseteq BOOLEAN

VARIABLES ses,       \* TcpSession
          gate,      \* CallbackGate
          inbox,     \* control_inbox_
          flow,      \* the connection's PCB
          deferred,  \* deferred_session_data_.data
          sh,        \* the shard thread
          popped,    \* messages the current iteration has taken from the inbox
          app,       \* the adapter thread
          remote,    \* what the adapter has read, and whether it is paused
          stop       \* the caller of Stop
vars == <<ses, gate, inbox, flow, deferred, sh, popped, app, remote, stop>>

Callbacks == <<"writable", "data", "closed">>     \* in the order RemoveAt clears them
Closings == {"FinWait1", "FinWait2", "Closing", "LastAck"}
Empty == << >>
Lease(n) == [k \in 1..LeaseOctets |-> n + k]
Data(lease) == [type |-> "data", lease |-> lease]
Plain(type) == [type |-> type, lease |-> Empty]

-----------------------------------------------------------------------------
(* The inbox and the gate. *)

Full == Len(inbox) >= inbox_capacity
Push(msg) == inbox' = Append(inbox, msg)

(* CallbackGate::TryPost: nothing while a timer callback holds the gate. *)
TryPost(msg) == ~gate.held /\ IF ~gate.active \/ Full THEN UNCHANGED inbox ELSE Push(msg)
Posted == gate.active /\ ~Full

-----------------------------------------------------------------------------
(* The adapter thread: OnDataReceived, OnClosed or Abort, DrainSendQueue.   *)
(* Each copies its callback under the session's mutex, counts itself in     *)
(* flight, calls it outside the mutex, and counts itself out.               *)

Idle == [pc |-> "idle", op |-> "none", lease |-> Empty]
Installed(cb) == cb \in ses.installed
Enter(op, lease) == app' = [pc |-> "post", op |-> op, lease |-> lease]

OnDataReceived ==
    /\ app.pc = "idle" /\ ~remote.paused /\ remote.read + LeaseOctets <= MaxOctets
    /\ ~ses.closed /\ ses.pending = Empty /\ Installed("data")
    /\ remote' = [remote EXCEPT !.read = @ + LeaseOctets]
    /\ ses' = [ses EXCEPT !.in_flight = @ + 1]
    /\ Enter("data", Lease(remote.read))
    /\ UNCHANGED <<gate, inbox, flow, deferred, sh, stop, popped>>

(* OnClosed and Abort differ in what becomes of the client's octets. *)
OnClosed(error, abort) ==
    /\ app.pc = "idle" /\ ~ses.closed
    /\ ses' = [ses EXCEPT !.closed = TRUE, !.pending = Empty,
                          !.queue = IF abort THEN 0 ELSE @,
                          !.in_flight = IF Installed("closed") THEN @ + 1 ELSE @]
    /\ remote' = [remote EXCEPT !.error = error]
    /\ IF Installed("closed") THEN Enter("closed", Empty) ELSE UNCHANGED app
    /\ UNCHANGED <<gate, inbox, flow, deferred, sh, stop, popped>>

DrainSendQueue_Silent ==
    /\ app.pc = "idle" /\ ses.queue > 0
    /\ ses' = [ses EXCEPT !.queue = 0]
    /\ UNCHANGED <<gate, inbox, flow, deferred, sh, app, remote, stop, popped>>
DrainSendQueue ==
    /\ app.pc = "idle" /\ ses.queue > 0
    /\ LET notify == ses.queue >= session_limit /\ Installed("writable")
       IN  /\ ses' = [ses EXCEPT !.queue = 0, !.in_flight = IF notify THEN @ + 1 ELSE @]
           /\ IF notify THEN Enter("writable", Empty) ELSE UNCHANGED app
    /\ UNCHANGED <<gate, inbox, flow, deferred, sh, remote, stop, popped>>

(* The callbacks of BindSessionCallbacks; only the data callback looks at   *)
(* what TryPost returned.                                                   *)
AppPost ==
    /\ app.pc = "post"
    /\ TryPost(IF app.op = "data" THEN Data(app.lease) ELSE Plain(app.op))
    /\ app' = IF app.op # "data" THEN [app EXCEPT !.pc = "finish"]
              ELSE IF Posted THEN [app EXCEPT !.pc = "finish", !.lease = Empty]
              ELSE [app EXCEPT !.pc = "isActive"]
    /\ UNCHANGED <<ses, gate, flow, deferred, sh, remote, stop, popped>>
AppIsActive ==
    /\ app.pc = "isActive" /\ ~gate.held
    /\ app' = IF gate.active THEN [app EXCEPT !.pc = "store"] ELSE [app EXCEPT !.pc = "finish", !.lease = Empty]
    /\ UNCHANGED <<ses, gate, inbox, flow, deferred, sh, remote, stop, popped>>
AppStore ==
    /\ app.pc = "store"
    /\ ses' = [ses EXCEPT !.pending = IF ~ses.closed /\ @ = Empty THEN app.lease ELSE @]
    /\ remote' = [remote EXCEPT !.paused = TRUE]
    /\ app' = [app EXCEPT !.pc = "finish", !.lease = Empty]
    /\ UNCHANGED <<gate, inbox, flow, deferred, sh, stop, popped>>
AppFinish ==
    /\ app.pc = "finish"
    /\ ses' = [ses EXCEPT !.in_flight = @ - 1]
    /\ app' = Idle
    /\ UNCHANGED <<gate, inbox, flow, deferred, sh, remote, stop, popped>>

App == AppPost \/ AppIsActive \/ AppStore \/ AppFinish

-----------------------------------------------------------------------------
(* What the shard does to the PCB. *)

Goto(pc) == sh' = [sh EXCEPT !.pc = pc]

(* DrainSession: into the session until it is full; a session that refuses  *)
(* is let go.  r = [ses, flow].                                             *)
DrainSession(s, f) ==
    LET n == Min({f.ready, session_limit - s.queue})
    IN  IF ~f.session \/ f.ready = 0 \/ f.blocked THEN [ses |-> s, flow |-> f]
        ELSE IF s.closed \/ s.write_shutdown THEN [ses |-> s, flow |-> [f EXCEPT !.session = FALSE]]
        ELSE [ses  |-> [s EXCEPT !.queue = @ + n],
              flow |-> [f EXCEPT !.ready = @ - n, !.blocked = n < f.ready]]

(* EnqueueRemoteData: what the send buffer has no room for comes back. *)
Accepted_Keeps(lease) ==
    IF flow.state \notin {"Established", "CloseWait"} \/ flow.send_closed THEN 0
    ELSE Min({Len(lease), send_limit - Len(flow.unsent)})
Accepted(lease) ==
    IF flow.state \notin {"Established", "CloseWait"} THEN Len(lease)
    ELSE IF flow.send_closed THEN 0 ELSE Min({Len(lease), send_limit - Len(flow.unsent)})
EnqueueRemoteData(lease) ==
    LET n == Accepted(lease)
    IN  /\ flow' = IF flow.state \in {"Established", "CloseWait"}
                   THEN [flow EXCEPT !.unsent = @ \o SubSeq(lease, 1, n)] ELSE flow
        /\ deferred' = SubSeq(lease, n + 1, Len(lease))

CloseFlow(f) ==
    IF f.state \notin {"Established", "CloseWait"} THEN f
    ELSE [f EXCEPT !.state = IF @ = "Established" THEN "FinWait1" ELSE "LastAck"]

(* RemoveAt: a session still held has its three callbacks cleared first,    *)
(* each waiting for those in flight; `after' is where the shard goes on.    *)
RemoveAt(f, after) ==
    IF f.session THEN /\ sh' = [sh EXCEPT !.pc = "clear", !.clearing = Callbacks, !.after = after]
                      /\ flow' = f
    ELSE /\ sh' = [sh EXCEPT !.pc = after]
         /\ flow' = [f EXCEPT !.state = "gone", !.unsent = Empty]

Clear ==
    /\ sh.pc = "clear"
    /\ ses' = [ses EXCEPT !.installed = @ \ {Head(sh.clearing)}]
    /\ Goto("wait")
    /\ UNCHANGED <<gate, inbox, flow, deferred, app, remote, stop, popped>>
Wait_Hasty ==
    /\ sh.pc = "wait"
    /\ ses' = [ses EXCEPT !.pending = IF Head(sh.clearing) = "data" THEN Empty ELSE @]
    /\ IF Len(sh.clearing) > 1
       THEN sh' = [sh EXCEPT !.pc = "clear", !.clearing = Tail(@)] /\ UNCHANGED <<flow, gate>>
       ELSE /\ sh' = [sh EXCEPT !.pc = sh.after, !.clearing = Empty]
            /\ flow' = [flow EXCEPT !.session = FALSE, !.state = "gone", !.unsent = Empty]
            /\ gate' = [gate EXCEPT !.held = FALSE]
    /\ UNCHANGED <<inbox, deferred, app, remote, stop, popped>>
Wait ==
    /\ sh.pc = "wait" /\ ses.in_flight = 0
    /\ ses' = [ses EXCEPT !.pending = IF Head(sh.clearing) = "data" THEN Empty ELSE @]
    /\ IF Len(sh.clearing) > 1
       THEN sh' = [sh EXCEPT !.pc = "clear", !.clearing = Tail(@)] /\ UNCHANGED <<flow, gate>>
       ELSE /\ sh' = [sh EXCEPT !.pc = sh.after, !.clearing = Empty]
            /\ flow' = [flow EXCEPT !.session = FALSE, !.state = "gone", !.unsent = Empty]
            /\ gate' = [gate EXCEPT !.held = FALSE]
    /\ UNCHANGED <<inbox, deferred, app, remote, stop, popped>>

-----------------------------------------------------------------------------
(* The event loop, in its order: segments, the deferred data, the control   *)
(* inbox, timers, sending, resuming.                                        *)

Receive(segment) ==
    /\ sh.pc = "rx"
    /\ CASE segment = "none" -> Goto("deferred") /\ UNCHANGED <<ses, inbox, flow>>
         [] segment = "payload" ->
              /\ flow.state \in {"Established", "FinWait1", "FinWait2"} /\ flow.sent < MaxReady
              /\ LET r == DrainSession(ses, [flow EXCEPT !.ready = @ + 1, !.sent = @ + 1])
                 IN  ses' = r.ses /\ flow' = r.flow
              /\ Goto("deferred") /\ UNCHANGED inbox
         [] segment = "fin" ->
              \* handle_fin: ShutdownWrite, which calls the writable callback
              /\ ClientFins /\ ~flow.fin /\ flow.state \in {"Established", "FinWait1", "FinWait2"}
              /\ flow' = [flow EXCEPT !.fin = TRUE,
                            !.state = CASE @ = "Established" -> "CloseWait" [] @ = "FinWait1" -> "Closing"
                                        [] OTHER -> "TimeWait"]
              /\ ses' = [ses EXCEPT !.write_shutdown = @ \/ flow.session]
              /\ IF flow.session /\ Installed("writable") THEN TryPost(Plain("writable")) ELSE UNCHANGED inbox
              /\ Goto("deferred")
         [] segment = "finAck" ->
              /\ flow.state \in {"FinWait1", "Closing", "LastAck"} /\ flow.unsent = Empty /\ ~flow.send_closed
              /\ IF flow.state = "LastAck" THEN RemoveAt(flow, "deferred")
                 ELSE /\ flow' = [flow EXCEPT !.state = IF @ = "FinWait1" THEN "FinWait2" ELSE "TimeWait"]
                      /\ Goto("deferred")
              /\ UNCHANGED <<ses, inbox>>
    /\ UNCHANGED <<gate, deferred, app, remote, stop, popped>>

(* The data a full send buffer turned away; while it blocks, the control    *)
(* inbox waits.                                                             *)
Deferred_GoesOn ==
    /\ sh.pc = "deferred"
    /\ IF deferred = Empty THEN UNCHANGED <<flow, deferred>> ELSE EnqueueRemoteData(deferred)
    /\ popped' = 0
    /\ Goto("control")
    /\ UNCHANGED <<ses, gate, inbox, app, remote, stop>>
Deferred ==
    /\ sh.pc = "deferred"
    /\ IF deferred = Empty THEN UNCHANGED <<flow, deferred>> ELSE EnqueueRemoteData(deferred)
    /\ popped' = 0
    /\ Goto(IF deferred' = Empty THEN "control" ELSE "timers")
    /\ UNCHANGED <<ses, gate, inbox, app, remote, stop>>

Control ==
    LET msg == Head(inbox)
    IN  /\ sh.pc = "control" /\ popped < kControlInboxBudget /\ inbox # Empty
        /\ inbox' = Tail(inbox) /\ popped' = popped + 1
        /\ CASE msg.type = "stop" ->
                  Goto("exit") /\ UNCHANGED <<ses, flow, deferred>>
             [] msg.type = "writable" ->
                  /\ LET open == flow.state # "TimeWait" /\ flow.session
                         r == DrainSession(ses, [flow EXCEPT !.blocked = FALSE])
                     IN  IF open THEN ses' = r.ses /\ flow' = r.flow ELSE UNCHANGED <<ses, flow>>
                  /\ UNCHANGED sh /\ UNCHANGED deferred
             [] msg.type = "closed" ->
                  /\ LET f == [flow EXCEPT !.session = FALSE]
                         clean == remote.error = "RemoteClosed"
                     IN  IF flow.state = "gone" THEN flow' = flow /\ UNCHANGED sh
                         ELSE IF clean \/ flow.state \in Closings \cup {"TimeWait"}
                         THEN flow' = CloseFlow(f) /\ UNCHANGED sh
                         ELSE RemoveAt(f, "control")
                  /\ UNCHANGED <<ses, deferred>>
             [] msg.type = "data" ->
                  /\ EnqueueRemoteData(msg.lease)
                  /\ Goto(IF deferred' = Empty THEN "control" ELSE "timers")
                  /\ UNCHANGED ses
             [] msg.type = "flowClose" ->
                  flow' = CloseFlow(flow) /\ UNCHANGED sh /\ UNCHANGED <<ses, deferred>>
        /\ UNCHANGED <<gate, app, remote, stop>>
ControlDone ==
    /\ sh.pc = "control" /\ (inbox = Empty \/ popped = kControlInboxBudget)
    /\ Goto(IF stop.requested THEN "exit" ELSE "timers")
    /\ UNCHANGED <<ses, gate, inbox, flow, deferred, app, remote, stop, popped>>

(* The TIME-WAIT timer's callback runs inside CallbackGate::TryRun. *)
Timers(due) ==
    /\ sh.pc = "timers"
    /\ IF stop.requested THEN Goto("exit") /\ UNCHANGED <<gate, flow>>
       ELSE IF due /\ flow.state = "TimeWait"
       THEN gate' = [gate EXCEPT !.held = flow.session] /\ RemoveAt(flow, "pump")
       ELSE Goto("pump") /\ UNCHANGED <<gate, flow>>
    /\ UNCHANGED <<ses, inbox, deferred, app, remote, stop, popped>>

(* PumpSendPaths: outcome `idle' is a closed window, `exhausted' the end of *)
(* the retransmissions.                                                     *)
Pump(outcome) ==
    /\ sh.pc = "pump"
    /\ IF flow.send_closed /\ flow.state \in Closings THEN RemoveAt(flow, "resume")
       ELSE /\ Goto("resume")
            /\ flow' = IF outcome = "idle" \/ flow.state \in {"gone", "TimeWait"} \/ flow.send_closed THEN flow
                       ELSE IF outcome = "exhausted" THEN [flow EXCEPT !.send_closed = TRUE, !.unsent = Empty]
                       ELSE [flow EXCEPT !.wire = @ \o flow.unsent, !.unsent = Empty]
    /\ UNCHANGED <<ses, gate, inbox, deferred, app, remote, stop, popped>>

(* ResumeSessionReceives and TcpSession::ResumeReceive, which runs the data *)
(* callback on the shard's own thread.                                      *)
Backlog == Cardinality({i \in DOMAIN inbox : inbox[i].type = "data"}) + (IF deferred # Empty THEN 1 ELSE 0)
Resume ==
    /\ sh.pc = "resume"
    /\ IF /\ Backlog < Max({1, inbox_capacity \div 2})
          /\ flow.session /\ Len(flow.unsent) < Max({1, send_limit \div 2})
          /\ ~ses.closed /\ ses.pending # Empty /\ Installed("data")
       THEN /\ ses' = [ses EXCEPT !.pending = Empty, !.in_flight = @ + 1]
            /\ sh' = [sh EXCEPT !.pc = "repost", !.lease = ses.pending]
       ELSE Goto("rx") /\ UNCHANGED ses
    /\ UNCHANGED <<gate, inbox, flow, deferred, app, remote, stop, popped>>
Repost ==
    /\ sh.pc = "repost"
    /\ TryPost(Data(sh.lease))
    /\ sh' = IF Posted THEN [sh EXCEPT !.pc = "resumed", !.lease = Empty] ELSE [sh EXCEPT !.pc = "restore"]
    /\ UNCHANGED <<ses, gate, flow, deferred, app, remote, stop, popped>>
Restore ==
    /\ sh.pc = "restore"
    /\ ses' = [ses EXCEPT !.pending = IF ~ses.closed /\ @ = Empty THEN sh.lease ELSE @]
    /\ sh' = [sh EXCEPT !.pc = "resumed", !.lease = Empty]
    /\ UNCHANGED <<gate, inbox, flow, deferred, app, remote, stop, popped>>
(* The adapter reads on once its retained lease is gone. *)
Resumed ==
    /\ sh.pc = "resumed"
    /\ ses' = [ses EXCEPT !.in_flight = @ - 1]
    /\ remote' = [remote EXCEPT !.paused = ses.pending # Empty]
    /\ Goto("rx")
    /\ UNCHANGED <<gate, inbox, flow, deferred, app, stop, popped>>

(* Leaving Run: Shutdown deactivates the gate, removes the PCB, and what is *)
(* left in the inbox is released.                                           *)
Exit ==
    /\ sh.pc = "exit" /\ ~gate.held
    /\ gate' = [gate EXCEPT !.active = FALSE]
    /\ IF flow.state = "gone" THEN Goto("release") /\ UNCHANGED flow ELSE RemoveAt(flow, "release")
    /\ UNCHANGED <<ses, inbox, deferred, app, remote, stop, popped>>
Release ==
    /\ sh.pc = "release"
    /\ inbox' = Empty /\ deferred' = Empty
    /\ Goto("exited")
    /\ UNCHANGED <<ses, gate, flow, app, remote, stop, popped>>

-----------------------------------------------------------------------------
(* StackShard::Stop: a full inbox sets the flag instead. *)
Stop ==
    /\ ~stop.called
    /\ IF Full THEN UNCHANGED inbox /\ stop' = [called |-> TRUE, requested |-> TRUE]
       ELSE Push(Plain("stop")) /\ stop' = [stop EXCEPT !.called = TRUE]
    /\ UNCHANGED <<ses, gate, flow, deferred, sh, app, remote, popped>>

PostFlowClose ==
    /\ AppCloses /\ ~stop.called /\ ~Full /\ flow.state = "Established"
    /\ \A i \in DOMAIN inbox : inbox[i].type # "flowClose"
    /\ Push(Plain("flowClose"))
    /\ UNCHANGED <<ses, gate, flow, deferred, sh, app, remote, stop, popped>>

NewSession ==
    [closed |-> FALSE, pending |-> Empty, installed |-> Range(Callbacks), in_flight |-> 0,
     queue |-> 0, write_shutdown |-> FALSE]

NewGate == [active |-> TRUE, held |-> FALSE]

Init ==
    /\ ses = NewSession
    /\ gate = NewGate
    /\ inbox = Empty /\ deferred = Empty
    /\ flow = [state |-> "Established", session |-> TRUE, unsent |-> Empty, wire |-> Empty, send_closed |-> FALSE,
               ready |-> 0, blocked |-> FALSE, fin |-> FALSE, sent |-> 0]
    /\ sh = [pc |-> "rx", lease |-> Empty, clearing |-> Empty, after |-> "rx"]
    /\ popped = 0
    /\ app = Idle
    /\ remote = [read |-> 0, paused |-> FALSE, error |-> "none"]
    /\ stop = [called |-> FALSE, requested |-> FALSE]

ShardTurns == \/ \E s \in {"none", "payload", "fin", "finAck"} : Receive(s)
              \/ \E due \in BOOLEAN : Timers(due)
              \/ \E o \in {"sent"} \cup (IF ClientReads THEN {} ELSE {"idle", "exhausted"}) : Pump(o)
              \/ Deferred \/ Control \/ ControlDone \/ Resume \/ Repost \/ Restore \/ Resumed
              \/ Clear \/ Wait \/ Exit \/ Release

Next == \/ OnDataReceived \/ DrainSendQueue \/ App
        \/ \E error \in {"RemoteClosed", "Reset"}, abort \in BOOLEAN : OnClosed(error, abort)
        \/ ShardTurns
        \/ Stop \/ PostFlowClose

(* The shard's loop keeps turning, a thread inside a callback gets on, and  *)
(* the adapter takes what the session holds for it.                         *)
Fairness == WF_vars(ShardTurns) /\ WF_vars(App) /\ WF_vars(DrainSendQueue)

Spec == Init /\ [][Next]_vars /\ Fairness

-----------------------------------------------------------------------------
(* Types, the bound of the inbox, and the callback count as the number of   *)
(* threads inside one.                                                      *)
TypeOK ==
    /\ Len(inbox) <= inbox_capacity /\ popped \in 0..kControlInboxBudget
    /\ Len(flow.unsent) <= send_limit /\ ses.queue \in 0..session_limit
    /\ ses.in_flight = (IF app.pc = "idle" THEN 0 ELSE 1)
                       + (IF sh.pc \in {"repost", "restore", "resumed"} THEN 1 ELSE 0)
    /\ gate.held => sh.pc \in {"clear", "wait"}

FirstOctets(n) == [i \in 1..n |-> i]

(* The remote octets the client gets are a prefix of those the remote peer  *)
(* sent, however leases are retained, resumed and split.                    *)
RemoteInOrder == flow.wire \o flow.unsent = FirstOctets(Len(flow.wire \o flow.unsent))

(* Until either side closes, every octet the session took is on its way:    *)
(* in the send buffer, deferred, in the inbox or retained, in that order.   *)
Carried == [i \in DOMAIN inbox |-> inbox[i].lease]
Octets(m) == LET before[i \in 0..Len(m)] == IF i = 0 THEN Empty ELSE before[i - 1] \o m[i] IN before[Len(m)]
Waiting == deferred \o Octets(Carried) \o sh.lease \o ses.pending \o app.lease
NothingLost ==
    flow.state \in {"Established", "CloseWait"} /\ ~flow.send_closed /\ ~ses.closed /\ gate.active
       => flow.wire \o flow.unsent \o Waiting = FirstOctets(remote.read)

(* The octets of the remote peer reach the client's send buffer in order,   *)
(* and until either side closes none is lost, however the inbox refuses     *)
(* leases and the send buffer splits them (TryPost, EnqueueRemoteData,      *)
(* ResumeReceive).                                                          *)
RemoteIntact == TypeOK /\ RemoteInOrder /\ NothingLost

(* Once RemoveAt has cleared a session's callbacks, the adapter is inside   *)
(* none and the session retains no lease, and neither comes back; and once  *)
(* the shard's thread has ended nobody puts a message into the inbox.       *)
Quiesced ==
    /\ ses.installed = {} /\ sh.pc # "wait" => app = Idle /\ ses.pending = Empty
    /\ sh.pc = "exited" => inbox = Empty

(* The shard never waits, gate in hand, for a callback that waits for the   *)
(* gate.                                                                    *)
NoEmbrace == ~(gate.held /\ sh.pc = "wait" /\ app.pc \in {"post", "isActive"})

(* When the shard's thread has ended the session retains no lease of a pool *)
(* that is about to go.                                                     *)
LeasesReleased == sh.pc = "exited" => ses.pending = Empty

(* A remote peer that closes cleanly has everything it sent before          *)
(* delivered.                                                               *)
CleanCloseDelivers ==
    flow.state \in Closings /\ remote.error = "RemoteClosed" => Len(flow.wire \o flow.unsent \o deferred) = remote.read

(* Stop returns. *)
StopCompletes == stop.called ~> sh.pc = "exited"

(* The close of a session reaches its connection. *)
CloseArrives == ses.closed ~> (~flow.session \/ sh.pc = "exited")

(* A session that was full and has been drained takes the client's octets   *)
(* again.                                                                   *)
WritableArrives == flow.blocked ~> (~flow.blocked \/ ~flow.session \/ sh.pc = "exited")

=============================================================================
