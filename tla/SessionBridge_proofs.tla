------------------------ MODULE SessionBridge_proofs ------------------------
(***************************************************************************)
(* Quiesced and RemoteIntact, for any capacity of the inbox and any number *)
(* of octets.  Quiesced: when RemoveAt has cleared the three callbacks,    *)
(* waiting after each one for those in flight, no thread is left inside    *)
(* any of them.  RemoteIntact: the octets on their way, read from the send *)
(* buffer back to the adapter, count on without a gap; a step moves octets *)
(* from the front of one holder to the back of the next.                   *)
(***************************************************************************)
EXTENDS SessionBridge, ArithmeticLemmas, TLAPS

AllCallbacks == {"writable", "data", "closed"}
Reposting == {"repost", "restore", "resumed"}
Removing == {"clear", "wait"}
Leases == Seq(Nat)
Message == [type : {"writable", "data", "closed", "stop", "flowClose"}, lease : Leases]
AppState == [pc : {"idle", "post", "isActive", "store", "finish"},
             op : {"none"} \cup AllCallbacks, lease : Leases]

(* What the steps below need of the types; the rest of the records is open. *)
Shapes ==
    /\ DOMAIN ses = {"closed", "pending", "installed", "in_flight", "queue", "write_shutdown"}
    /\ ses.pending \in Leases /\ ses.installed \subseteq AllCallbacks /\ ses.in_flight \in Int
    /\ DOMAIN flow = {"state", "session", "unsent", "wire", "send_closed", "ready", "blocked", "fin", "sent"}
    /\ DOMAIN sh = {"pc", "lease", "clearing", "after"} /\ sh.lease \in Leases
    /\ DOMAIN gate = {"active", "held"}
    /\ app \in AppState
    /\ DOMAIN remote = {"read", "paused", "error"} /\ remote.read \in Nat
    /\ stop \in [called : BOOLEAN, requested : BOOLEAN]
    /\ inbox \in Seq(Message)

(* The callbacks in flight are those of the two threads that can be in one. *)
Counted ==
    ses.in_flight = (IF app.pc = "idle" THEN 0 ELSE 1) + (IF sh.pc \in Reposting THEN 1 ELSE 0)

(* What the adapter is doing, and that only its data callback has a lease.  *)
Doing ==
    /\ app.pc = "idle" => app = Idle
    /\ app.pc # "idle" => app.op # "none"
    /\ app.op # "data" => app.lease = Empty /\ app.pc \in {"idle", "post", "finish"}

(* How far RemoveAt has come; only it clears callbacks, and once.           *)
Progress ==
    IF sh.pc \in Removing
    THEN /\ flow.session
         /\ sh.after \in {"deferred", "control", "pump", "resume", "release"}
         /\ \/ sh.clearing = Callbacks /\ ses.installed = AllCallbacks \ (IF sh.pc = "wait" THEN {"writable"} ELSE {})
            \/ sh.clearing = <<"data", "closed">> /\ ses.installed = {"closed"} \cup (IF sh.pc = "wait" THEN {} ELSE {"data"})
            \/ sh.clearing = <<"closed">> /\ ses.installed = IF sh.pc = "wait" THEN {} ELSE {"closed"}
    ELSE /\ ses.installed \in {AllCallbacks, {}}
         /\ flow.session \/ sh.pc \in Reposting => ses.installed = AllCallbacks

(* When the wait for the data callback is over no lease is left, and when   *)
(* the last wait is over no callback runs.                                  *)
DataGone ==
    "data" \notin ses.installed /\ ~(sh.pc = "wait" /\ sh.clearing = <<"data", "closed">>)
        => ses.pending = Empty /\ app.op # "data"
AllGone == ses.installed = {} /\ sh.pc # "wait" => app = Idle

(* The shard leaves its loop only after Stop was called, and the gate is    *)
(* inactive from then on.                                                   *)
Ended ==
    /\ stop.requested \/ ~gate.active \/ sh.pc = "exit" \/ (\E i \in DOMAIN inbox : inbox[i].type = "stop")
          => stop.called
    /\ sh.pc \in {"release", "exited"} \/ (sh.pc \in Removing /\ sh.after = "release") => ~gate.active
    /\ sh.pc = "exited" => inbox = Empty

IInv == Shapes /\ Counted /\ Doing /\ Progress /\ DataGone /\ AllGone /\ Ended

(* The invariant is enough. *)
LEMMA IInvQuiesced == IInv => Quiesced
  BY ZenonT(60) DEF IInv, Shapes, Progress, DataGone, AllGone, Ended, Quiesced, Empty, Idle, AllCallbacks, Removing

-----------------------------------------------------------------------------
(* Steps that several actions share. *)

Loop == {"rx", "deferred", "control", "timers", "pump", "resume"}
Afters == {"deferred", "control", "pump", "resume", "release"}

(* What a step of the shard's loop does to the inbox and to the connection. *)
InboxKept == inbox' \in Seq(Message) /\ \A i \in DOMAIN inbox' : inbox'[i].type = "stop" => stop.called
FlowKept(f) == DOMAIN f = DOMAIN flow /\ (f.session => flow.session)
SessionKept(s) ==
    /\ DOMAIN s = DOMAIN ses
    /\ s.pending = ses.pending /\ s.installed = ses.installed /\ s.in_flight = ses.in_flight

Moves(p) ==
    /\ DOMAIN sh' = DOMAIN sh
    /\ sh'.pc = p /\ sh'.lease = sh.lease /\ sh'.clearing = sh.clearing /\ sh'.after = sh.after

(* The shard goes on in its loop, or leaves it after Stop was called.       *)
LEMMA LoopStep ==
  ASSUME IInv, NEW p, p \in Loop \/ (p = "exit" /\ stop.called), sh.pc \in Loop, Moves(p),
         SessionKept(ses'), FlowKept(flow'), InboxKept, UNCHANGED <<gate, app, remote, stop>>
  PROVE  IInv'
<1> USE DEF Loop
<1>0. /\ sh'.pc = p /\ sh'.lease = sh.lease /\ sh'.clearing = sh.clearing /\ sh'.after = sh.after
      /\ DOMAIN sh' = DOMAIN sh
      /\ p \notin Reposting \cup Removing \cup {"release", "exited"}
      /\ sh.pc \notin Reposting \cup Removing \cup {"release", "exited", "exit"}
  BY ZenonT(60) DEF Moves, Reposting, Removing
<1>1. Shapes'
  BY ZenonT(60), <1>0 DEF IInv, Shapes, SessionKept, FlowKept, InboxKept
<1>2. Counted'
  BY ZenonT(60), <1>0 DEF IInv, Counted, SessionKept
<1>3. Doing'
  BY ZenonT(60) DEF IInv, Doing
<1>4. Progress'
  BY ZenonT(60), <1>0 DEF IInv, Progress, SessionKept, FlowKept
<1>5. DataGone' /\ AllGone'
  BY ZenonT(60), <1>0 DEF IInv, DataGone, AllGone, SessionKept, Removing
<1>6. Ended'
  BY ZenonT(60), <1>0 DEF IInv, Ended, InboxKept
<1> QED
  BY <1>1, <1>2, <1>3, <1>4, <1>5, <1>6 DEF IInv

(* RemoveAt begins to clear the callbacks of a session, or has none to      *)
(* clear.                                                                   *)
LEMMA RemoveAtStep ==
  ASSUME IInv, NEW f, FlowKept(f), NEW after \in Afters, RemoveAt(f, after), sh.pc \in Loop \cup {"exit"},
         ses' = ses, InboxKept, UNCHANGED <<app, remote, stop>>,
         DOMAIN gate' = DOMAIN gate, ~gate'.active => stop.called,
         after = "release" => ~gate'.active
  PROVE  IInv'
<1> USE DEF Loop, Afters
<1>0. /\ DOMAIN sh' = DOMAIN sh /\ sh'.lease = sh.lease
      /\ sh.pc \notin Reposting \cup Removing \cup {"release", "exited"}
      /\ after \notin Reposting \cup Removing \cup {"exit", "exited"}
      /\ DOMAIN flow' = DOMAIN flow /\ (flow'.session => flow.session)
      /\ \/ f.session /\ flow' = f /\ sh'.pc = "clear" /\ sh'.clearing = Callbacks /\ sh'.after = after
         \/ ~f.session /\ ~flow'.session /\ sh'.pc = after
  BY DEF IInv, Shapes, RemoveAt, Reposting, Removing, FlowKept
<1>1. Shapes'
  BY ZenonT(60), <1>0 DEF IInv, Shapes, InboxKept
<1>2. Counted'
  BY ZenonT(60), <1>0 DEF IInv, Counted, Reposting, Removing
<1>3. Doing'
  BY ZenonT(60) DEF IInv, Doing
<1>4. Progress'
  BY ZenonT(60), <1>0 DEF IInv, Progress, Removing, FlowKept, AllCallbacks, Reposting
<1>5. DataGone' /\ AllGone'
  BY ZenonT(60), <1>0 DEF IInv, DataGone, AllGone, Progress, Removing, AllCallbacks
<1>6. Ended'
  BY ZenonT(60), <1>0 DEF IInv, Ended, InboxKept, Removing
<1> QED
  BY <1>1, <1>2, <1>3, <1>4, <1>5, <1>6 DEF IInv

LEMMA GotoMoves ==
  ASSUME Shapes, NEW p
  PROVE  /\ Goto(p) => Moves(p)
         /\ UNCHANGED sh => Moves(sh.pc)
  BY ZenonT(60) DEF Shapes, Goto, Moves

-----------------------------------------------------------------------------
(* The initial state. *)
LEMMA InitIInv == Init => IInv
<1> SUFFICES ASSUME Init PROVE IInv
  BY ZenonT(60)
<1>1. ses.installed = AllCallbacks
  <2>1. Callbacks = <<"writable", "data", "closed">> /\ DOMAIN Callbacks = 1..3
    BY DEF Callbacks
  <2>2. Range(Callbacks) = {Callbacks[1], Callbacks[2], Callbacks[3]}
    BY <2>1 DEF Range
  <2> QED
    BY ZenonT(60), <2>1, <2>2 DEF Init, NewSession, AllCallbacks
<1>2. Empty \in Leases /\ Empty \in Seq(Message)
  BY DEF Empty, Leases
<1>3. Shapes
  BY <1>1, <1>2 DEF Init, NewSession, NewGate, Shapes, AppState, Idle
<1>4. Counted /\ Doing
  BY DEF Init, NewSession, Counted, Doing, Idle, Reposting
<1>5. Progress /\ DataGone /\ AllGone
  BY ZenonT(60), <1>1 DEF Init, NewSession, Progress, DataGone, AllGone, Removing, Reposting, AllCallbacks
<1>6. Ended
  BY DEF Init, NewGate, Ended, Removing, Empty
<1> QED
  BY <1>3, <1>4, <1>5, <1>6 DEF IInv

-----------------------------------------------------------------------------
(* The adapter thread. *)

LEMMA EmptyLease == Empty \in Leases
  BY DEF Empty, Leases

LEMMA LeaseType == ASSUME NEW n \in Nat PROVE Lease(n) \in Leases
  BY BridgeAssumption DEF Lease, Leases

(* A post leaves the inbox well formed, and adds nothing once the gate is   *)
(* inactive.                                                                *)
LEMMA TryPostInbox ==
  ASSUME IInv, NEW m \in Message, m.type # "stop", TryPost(m)
  PROVE  InboxKept /\ (~gate.active => inbox' = inbox)
<1>1. inbox \in Seq(Message) /\ \A i \in DOMAIN inbox : inbox[i].type = "stop" => stop.called
  BY ZenonT(60) DEF IInv, Shapes, Ended
<1>2. CASE inbox' = inbox
  BY ZenonT(60), <1>1, <1>2 DEF InboxKept
<1>3. CASE gate.active /\ inbox' = Append(inbox, m)
  BY <1>1, <1>3 DEF InboxKept
<1> QED
  BY ZenonT(60), <1>2, <1>3 DEF TryPost, Push

(* A callback begins: it was installed, so RemoveAt has not come to it.     *)
LEMMA EnterStep ==
  ASSUME IInv, NEW op \in ses.installed, NEW lease \in Leases, op # "data" => lease = Empty,
         app.pc = "idle", Enter(op, lease),
         DOMAIN ses' = DOMAIN ses, ses'.in_flight = ses.in_flight + 1, ses'.installed = ses.installed,
         ses'.pending \in {ses.pending, Empty}, DOMAIN remote' = DOMAIN remote, remote'.read \in Nat,
         UNCHANGED <<gate, inbox, flow, sh, stop>>
  PROVE  IInv'
<1>0. op \in AllCallbacks /\ app' = [pc |-> "post", op |-> op, lease |-> lease] /\ Empty \in Leases
  BY ZenonT(60), EmptyLease DEF IInv, Shapes, Enter
<1>1. Shapes'
  BY <1>0 DEF IInv, Shapes, AppState
<1>2. Counted'
  BY <1>0 DEF IInv, Counted
<1>3. Doing'
  BY ZenonT(60), <1>0 DEF IInv, Doing, AllCallbacks
<1>4. Progress'
  BY ZenonT(60) DEF IInv, Progress
<1>5. DataGone' /\ AllGone'
  BY ZenonT(60), <1>0 DEF IInv, DataGone, AllGone
<1>6. Ended'
  BY ZenonT(60) DEF IInv, Ended
<1> QED
  BY <1>1, <1>2, <1>3, <1>4, <1>5, <1>6 DEF IInv

(* The session changes, and the threads do not.                             *)
LEMMA SessionStep ==
  ASSUME IInv, DOMAIN ses' = DOMAIN ses, ses'.in_flight = ses.in_flight, ses'.installed = ses.installed,
         ses'.pending \in {ses.pending, Empty}, DOMAIN remote' = DOMAIN remote, remote'.read \in Nat,
         UNCHANGED <<gate, inbox, flow, sh, stop, app>>
  PROVE  IInv'
<1>1. Shapes'
  BY ZenonT(60), EmptyLease DEF IInv, Shapes
<1>2. Counted' /\ Doing' /\ Progress'
  BY ZenonT(60) DEF IInv, Counted, Doing, Progress
<1>3. DataGone' /\ AllGone' /\ Ended'
  BY ZenonT(60) DEF IInv, DataGone, AllGone, Ended
<1> QED
  BY ZenonT(60), <1>1, <1>2, <1>3 DEF IInv

LEMMA OnDataReceivedIInv == ASSUME IInv, OnDataReceived PROVE IInv'
<1>1. Lease(remote.read) \in Leases
  BY ZenonT(60), LeaseType DEF IInv, Shapes
<1>2. /\ DOMAIN ses' = DOMAIN ses /\ ses'.in_flight = ses.in_flight + 1
      /\ ses'.installed = ses.installed /\ ses'.pending = ses.pending
      /\ DOMAIN remote' = DOMAIN remote /\ remote'.read \in Nat
  BY BridgeAssumption DEF OnDataReceived, IInv, Shapes
<1> QED
  BY <1>1, <1>2, EnterStep DEF OnDataReceived, Installed

LEMMA OnClosedIInv == ASSUME IInv, NEW error, NEW abort, OnClosed(error, abort) PROVE IInv'
<1>1. /\ DOMAIN ses' = DOMAIN ses /\ ses'.installed = ses.installed /\ ses'.pending = Empty
      /\ ses'.in_flight = IF Installed("closed") THEN ses.in_flight + 1 ELSE ses.in_flight
      /\ DOMAIN remote' = DOMAIN remote /\ remote'.read \in Nat
  BY ZenonT(60) DEF OnClosed, IInv, Shapes
<1>2. CASE Installed("closed")
  BY ZenonT(60), <1>1, <1>2, EnterStep, EmptyLease DEF OnClosed, Installed
<1>3. CASE ~Installed("closed")
  BY ZenonT(60), <1>1, <1>3, SessionStep DEF OnClosed
<1> QED
  BY ZenonT(60), <1>2, <1>3

LEMMA DrainSendQueueIInv == ASSUME IInv, DrainSendQueue PROVE IInv'
<1> DEFINE notify == ses.queue >= session_limit /\ Installed("writable")
<1>1. /\ DOMAIN ses' = DOMAIN ses /\ ses'.installed = ses.installed /\ ses'.pending = ses.pending
      /\ ses'.in_flight = IF notify THEN ses.in_flight + 1 ELSE ses.in_flight
      /\ DOMAIN remote' = DOMAIN remote /\ remote'.read \in Nat
  BY ZenonT(60) DEF DrainSendQueue, IInv, Shapes
<1>2. CASE notify
  BY <1>1, <1>2, EnterStep, EmptyLease DEF DrainSendQueue, Installed
<1>3. CASE ~notify
  BY <1>1, <1>3, SessionStep DEF DrainSendQueue
<1> QED
  BY ZenonT(60), <1>2, <1>3

(* A callback of the adapter gets on; only that of the data may retain a    *)
(* lease.                                                                   *)
LEMMA CallbackStep ==
  ASSUME IInv, app.pc # "idle", app' \in AppState, app'.pc # "idle", app'.op = app.op,
         app.op # "data" => app'.lease = Empty /\ app'.pc = "finish",
         DOMAIN ses' = DOMAIN ses, ses'.in_flight = ses.in_flight, ses'.installed = ses.installed,
         ses'.pending \in Leases, app.op # "data" => ses'.pending = ses.pending,
         InboxKept, ~gate.active => inbox' = inbox,
         DOMAIN remote' = DOMAIN remote, remote'.read \in Nat, UNCHANGED <<gate, flow, sh, stop>>
  PROVE  IInv'
<1>1. Shapes'
  BY ZenonT(60) DEF IInv, Shapes, InboxKept
<1>2. Counted' /\ Doing' /\ Progress'
  BY ZenonT(60) DEF IInv, Counted, Doing, Progress
<1>3. DataGone' /\ AllGone'
  BY DEF IInv, DataGone, AllGone, Idle
<1>4. Ended'
  BY ZenonT(60) DEF IInv, Ended, InboxKept
<1> QED
  BY <1>1, <1>2, <1>3, <1>4 DEF IInv

LEMMA InboxStays == ASSUME IInv, UNCHANGED <<inbox, stop>> PROVE InboxKept
  BY ZenonT(60) DEF IInv, Shapes, Ended, InboxKept

LEMMA AppPostIInv == ASSUME IInv, AppPost PROVE IInv'
<1> DEFINE m == IF app.op = "data" THEN Data(app.lease) ELSE Plain(app.op)
<1>1. app \in AppState /\ app.pc = "post" /\ app.op \in AllCallbacks /\ (app.op # "data" => app.lease = Empty)
  BY ZenonT(60) DEF IInv, Shapes, Doing, AppPost, AppState
<1>2. m \in Message /\ m.type # "stop"
  BY ZenonT(60), <1>1, EmptyLease DEF Message, Data, Plain, AllCallbacks, AppState
<1>3. InboxKept /\ (~gate.active => inbox' = inbox)
  BY ZenonT(60), <1>2, TryPostInbox DEF AppPost
<1>4. /\ app' \in AppState /\ app'.pc # "idle" /\ app'.op = app.op
      /\ app.op # "data" => app'.lease = Empty /\ app'.pc = "finish"
  BY ZenonT(60), <1>1, EmptyLease DEF AppPost, AppState
<1> QED
  BY ZenonT(60), <1>1, <1>3, <1>4, CallbackStep DEF AppPost, IInv, Shapes

LEMMA AppIsActiveIInv == ASSUME IInv, AppIsActive PROVE IInv'
<1>1. app \in AppState /\ app.pc = "isActive" /\ app.op = "data"
  BY ZenonT(60) DEF IInv, Shapes, Doing, AppIsActive
<1>2. app' \in AppState /\ app'.pc # "idle" /\ app'.op = app.op
  BY <1>1, EmptyLease DEF AppIsActive, AppState
<1> QED
  BY <1>1, <1>2, InboxStays, CallbackStep DEF AppIsActive, IInv, Shapes

LEMMA AppStoreIInv == ASSUME IInv, AppStore PROVE IInv'
<1>1. app \in AppState /\ app.pc = "store" /\ app.op = "data" /\ app.lease \in Leases
  BY ZenonT(60) DEF IInv, Shapes, Doing, AppStore, AppState
<1>2. app' \in AppState /\ app'.pc # "idle" /\ app'.op = app.op
  BY <1>1, EmptyLease DEF AppStore, AppState
<1>3. /\ DOMAIN ses' = DOMAIN ses /\ ses'.in_flight = ses.in_flight /\ ses'.installed = ses.installed
      /\ ses'.pending \in Leases /\ DOMAIN remote' = DOMAIN remote /\ remote'.read \in Nat
  BY ZenonT(60), <1>1 DEF AppStore, IInv, Shapes
<1> QED
  BY <1>1, <1>2, <1>3, InboxStays, CallbackStep DEF AppStore

LEMMA AppFinishIInv == ASSUME IInv, AppFinish PROVE IInv'
<1>0. /\ DOMAIN ses' = DOMAIN ses /\ ses'.in_flight = ses.in_flight - 1 /\ ses'.installed = ses.installed
      /\ ses'.pending = ses.pending /\ app' = Idle /\ app.pc = "finish"
  BY ZenonT(60) DEF AppFinish, IInv, Shapes
<1>1. Shapes'
  BY <1>0, EmptyLease DEF AppFinish, IInv, Shapes, Idle, AppState
<1>2. Counted' /\ Doing' /\ Progress'
  BY <1>0 DEF AppFinish, IInv, Shapes, Counted, Doing, Progress, Idle
<1>3. DataGone' /\ AllGone' /\ Ended'
  BY <1>0 DEF AppFinish, IInv, DataGone, AllGone, Ended, Idle
<1> QED
  BY <1>1, <1>2, <1>3 DEF IInv

-----------------------------------------------------------------------------
(* The shard's loop. *)

LEMMA DrainSessionKept ==
  ASSUME Shapes, NEW f, FlowKept(f)
  PROVE  SessionKept(DrainSession(ses, f).ses) /\ FlowKept(DrainSession(ses, f).flow)
  BY ZenonT(60) DEF Shapes, FlowKept, SessionKept, DrainSession

LEMMA EnqueueKept ==
  ASSUME Shapes, NEW lease, EnqueueRemoteData(lease)
  PROVE  FlowKept(flow')
  BY ZenonT(60) DEF Shapes, FlowKept, EnqueueRemoteData

LEMMA CloseFlowKept ==
  ASSUME Shapes, NEW f, FlowKept(f)
  PROVE  FlowKept(CloseFlow(f))
  BY ZenonT(60) DEF Shapes, FlowKept, CloseFlow

LEMMA GateStays ==
  ASSUME IInv, UNCHANGED gate
  PROVE  DOMAIN gate' = DOMAIN gate /\ (~gate'.active => stop.called)
  BY ZenonT(60) DEF IInv, Shapes, Ended

LEMMA ReceiveIInv ==
  ASSUME IInv, NEW segment \in {"none", "payload", "fin", "finAck"}, Receive(segment)
  PROVE  IInv'
<1>0. Shapes /\ sh.pc \in Loop /\ "deferred" \in Loop /\ "deferred" \in Afters /\ SessionKept(ses) /\ FlowKept(flow)
  BY ZenonT(60) DEF IInv, Receive, Loop, Afters, SessionKept, FlowKept
<1>1. UNCHANGED <<gate, app, remote, stop>>
  BY ZenonT(60) DEF Receive
<1>2. CASE segment = "none"
  BY ZenonT(60), <1>0, <1>1, <1>2, GotoMoves, InboxStays, LoopStep DEF Receive
<1>3. CASE segment = "payload"
  <2> DEFINE f == [flow EXCEPT !.ready = @ + 1, !.sent = @ + 1]
  <2>1. FlowKept(f)
    BY ZenonT(60), <1>0 DEF Shapes, FlowKept
  <2>2. ses' = DrainSession(ses, f).ses /\ flow' = DrainSession(ses, f).flow /\ Goto("deferred") /\ UNCHANGED inbox
    BY ZenonT(60), <1>3 DEF Receive
  <2>3. SessionKept(ses') /\ FlowKept(flow')
    BY <1>0, <2>1, <2>2, DrainSessionKept
  <2> QED
    BY <1>0, <1>1, <2>2, <2>3, GotoMoves, InboxStays, LoopStep
<1>4. CASE segment = "fin"
  <2>1. SessionKept(ses') /\ FlowKept(flow') /\ Goto("deferred")
    BY <1>0, <1>4 DEF Receive, Shapes, SessionKept, FlowKept
  <2>2. Plain("writable") \in Message /\ Plain("writable").type # "stop"
    BY ZenonT(60), EmptyLease DEF Plain, Message
  <2>3. TryPost(Plain("writable")) \/ UNCHANGED inbox
    BY ZenonT(60), <1>4 DEF Receive
  <2>4. InboxKept
    BY <1>1, <2>2, <2>3, TryPostInbox, InboxStays
  <2> QED
    BY <1>0, <1>1, <2>1, <2>4, GotoMoves, LoopStep
<1>5. CASE segment = "finAck"
  <2>1. UNCHANGED <<ses, inbox>>
    BY ZenonT(60), <1>5 DEF Receive
  <2>2. CASE RemoveAt(flow, "deferred")
    BY <1>0, <1>1, <2>1, <2>2, GateStays, InboxStays, RemoveAtStep
  <2>3. CASE Goto("deferred") /\ flow' = [flow EXCEPT !.state = IF @ = "FinWait1" THEN "FinWait2" ELSE "TimeWait"]
    <3>1. FlowKept(flow') /\ SessionKept(ses')
      BY ZenonT(60), <1>0, <2>1, <2>3 DEF Shapes, FlowKept, SessionKept
    <3> QED
      BY <1>0, <1>1, <2>1, <2>3, <3>1, GotoMoves, InboxStays, LoopStep
  <2> QED
    BY ZenonT(60), <1>5, <2>2, <2>3 DEF Receive
<1> QED
  BY ZenonT(60), <1>2, <1>3, <1>4, <1>5

LEMMA DeferredIInv == ASSUME IInv, Deferred PROVE IInv'
<1>0. Shapes /\ sh.pc \in Loop /\ SessionKept(ses') /\ FlowKept(flow)
  BY ZenonT(60) DEF IInv, Deferred, Loop, SessionKept, FlowKept
<1>1. FlowKept(flow')
  BY ZenonT(60), <1>0, EnqueueKept DEF Deferred
<1>2. PICK p \in Loop : Goto(p)
  BY ZenonT(60) DEF Deferred, Loop
<1> QED
  BY <1>0, <1>1, <1>2, GotoMoves, InboxStays, LoopStep DEF Deferred

LEMMA TimersIInv == ASSUME IInv, NEW due \in BOOLEAN, Timers(due) PROVE IInv'
<1>0. /\ Shapes /\ sh.pc \in Loop /\ "pump" \in Loop /\ "pump" \in Afters /\ SessionKept(ses') /\ FlowKept(flow)
      /\ UNCHANGED <<ses, inbox, app, remote, stop>>
  BY ZenonT(60) DEF IInv, Timers, Loop, Afters, SessionKept, FlowKept
<1>1. CASE stop.requested /\ Goto("exit") /\ UNCHANGED <<gate, flow>>
  <2>1. stop.called
    BY ZenonT(60), <1>1 DEF IInv, Ended
  <2> QED
    BY <1>0, <1>1, <2>1, GotoMoves, InboxStays, LoopStep
<1>2. CASE gate' = [gate EXCEPT !.held = flow.session] /\ RemoveAt(flow, "pump")
  <2>1. DOMAIN gate' = DOMAIN gate /\ gate'.active = gate.active
    BY ZenonT(60), <1>0, <1>2 DEF Shapes
  <2>2. ~gate'.active => stop.called
    BY ZenonT(60), <2>1 DEF IInv, Ended
  <2> QED
    BY <1>0, <1>2, <2>1, <2>2, InboxStays, RemoveAtStep
<1>3. CASE Goto("pump") /\ UNCHANGED <<gate, flow>>
  BY <1>0, <1>3, GotoMoves, InboxStays, LoopStep
<1> QED
  BY ZenonT(60), <1>1, <1>2, <1>3 DEF Timers

LEMMA PumpIInv == ASSUME IInv, NEW outcome, Pump(outcome) PROVE IInv'
<1>0. /\ Shapes /\ sh.pc \in Loop /\ "resume" \in Loop /\ "resume" \in Afters /\ SessionKept(ses') /\ FlowKept(flow)
      /\ UNCHANGED <<ses, gate, inbox, app, remote, stop>>
  BY ZenonT(60) DEF IInv, Pump, Loop, Afters, SessionKept, FlowKept
<1>1. CASE RemoveAt(flow, "resume")
  BY <1>0, <1>1, GateStays, InboxStays, RemoveAtStep
<1>2. CASE ~(flow.send_closed /\ flow.state \in Closings)
  <2>1. FlowKept(flow') /\ Goto("resume")
    BY <1>0, <1>2 DEF Pump, Shapes, FlowKept
  <2> QED
    BY <1>0, <2>1, GotoMoves, InboxStays, LoopStep
<1> QED
  BY ZenonT(60), <1>1, <1>2 DEF Pump

LEMMA ControlDoneIInv == ASSUME IInv, ControlDone PROVE IInv'
<1>0. /\ Shapes /\ sh.pc \in Loop /\ "timers" \in Loop /\ SessionKept(ses') /\ FlowKept(flow')
      /\ UNCHANGED <<inbox, gate, app, remote, stop>>
  BY ZenonT(60) DEF IInv, ControlDone, Loop, SessionKept, FlowKept
<1>1. stop.requested => stop.called
  BY ZenonT(60) DEF IInv, Ended
<1>2. CASE stop.requested
  BY <1>0, <1>1, <1>2, GotoMoves, InboxStays, LoopStep DEF ControlDone
<1>3. CASE ~stop.requested
  BY <1>0, <1>3, GotoMoves, InboxStays, LoopStep DEF ControlDone
<1> QED
  BY <1>2, <1>3

(* A message taken from the inbox: one of Stop says that it was called.     *)
LEMMA TakeMessage ==
  ASSUME IInv, inbox # Empty, inbox' = Tail(inbox)
  PROVE  InboxKept /\ Head(inbox) \in Message /\ (Head(inbox).type = "stop" => stop.called)
<1>1. inbox \in Seq(Message) /\ inbox # << >> /\ \A i \in DOMAIN inbox : inbox[i].type = "stop" => stop.called
  BY ZenonT(60) DEF IInv, Shapes, Ended, Empty
<1>2. Head(inbox) = inbox[1] /\ 1 \in DOMAIN inbox /\ Tail(inbox) \in Seq(Message) /\ inbox[1] \in Message
  BY <1>1
<1>3. \A i \in DOMAIN Tail(inbox) : i + 1 \in DOMAIN inbox /\ Tail(inbox)[i] = inbox[i + 1]
  BY <1>1
<1> QED
  BY <1>1, <1>2, <1>3 DEF InboxKept

LEMMA ControlIInv == ASSUME IInv, Control PROVE IInv'
<1> DEFINE msg == Head(inbox)
<1>0. /\ Shapes /\ sh.pc = "control" /\ sh.pc \in Loop /\ "control" \in Afters /\ "timers" \in Loop
      /\ SessionKept(ses) /\ FlowKept(flow) /\ UNCHANGED <<gate, app, remote, stop>>
  BY ZenonT(60) DEF IInv, Control, Loop, Afters, SessionKept, FlowKept
<1>1. InboxKept /\ msg \in Message /\ (msg.type = "stop" => stop.called)
  BY ZenonT(60), TakeMessage DEF Control
<1>2. CASE msg.type = "stop"
  <2>1. Goto("exit") /\ UNCHANGED <<ses, flow>>
    BY ZenonT(60), <1>2 DEF Control
  <2> QED
    BY <1>0, <1>1, <1>2, <2>1, GotoMoves, LoopStep
<1>3. CASE msg.type = "writable"
  <2> DEFINE f == [flow EXCEPT !.blocked = FALSE]
  <2>1. FlowKept(f)
    BY ZenonT(60), <1>0 DEF Shapes, FlowKept
  <2>2. SessionKept(DrainSession(ses, f).ses) /\ FlowKept(DrainSession(ses, f).flow)
    BY <1>0, <2>1, DrainSessionKept
  <2>3. /\ UNCHANGED sh
        /\ \/ ses' = DrainSession(ses, f).ses /\ flow' = DrainSession(ses, f).flow
           \/ UNCHANGED <<ses, flow>>
    BY <1>3 DEF Control
  <2>4. SessionKept(ses') /\ FlowKept(flow')
    BY <1>0, <2>2, <2>3
  <2> QED
    BY <1>0, <1>1, <2>3, <2>4, GotoMoves, LoopStep
<1>4. CASE msg.type = "closed"
  <2> DEFINE f == [flow EXCEPT !.session = FALSE]
  <2>1. FlowKept(f)
    BY ZenonT(60), <1>0 DEF Shapes, FlowKept
  <2>2. ses' = ses /\ SessionKept(ses')
    BY <1>0, <1>4 DEF Control
  <2>3. CASE UNCHANGED sh /\ flow' \in {flow, CloseFlow(f)}
    <3>1. FlowKept(flow')
      BY <1>0, <2>1, <2>3, CloseFlowKept
    <3> QED
      BY <1>0, <1>1, <2>2, <2>3, <3>1, GotoMoves, LoopStep
  <2>4. CASE RemoveAt(f, "control")
    BY <1>0, <1>1, <2>1, <2>2, <2>4, GateStays, RemoveAtStep
  <2> QED
    BY <1>4, <2>3, <2>4 DEF Control
<1>5. CASE msg.type = "data"
  <2>1. EnqueueRemoteData(msg.lease) /\ UNCHANGED ses /\ (Goto("control") \/ Goto("timers"))
    BY ZenonT(60), <1>5 DEF Control
  <2>2. FlowKept(flow') /\ SessionKept(ses')
    BY <1>0, <2>1, EnqueueKept
  <2> QED
    BY <1>0, <1>1, <2>1, <2>2, GotoMoves, LoopStep
<1>6. CASE msg.type = "flowClose"
  <2>1. flow' = CloseFlow(flow) /\ UNCHANGED sh /\ UNCHANGED ses
    BY ZenonT(60), <1>6 DEF Control
  <2>2. FlowKept(flow') /\ SessionKept(ses')
    BY <1>0, <2>1, CloseFlowKept
  <2> QED
    BY <1>0, <1>1, <2>1, <2>2, GotoMoves, LoopStep
<1> QED
  BY <1>1, <1>2, <1>3, <1>4, <1>5, <1>6 DEF Message

-----------------------------------------------------------------------------
(* The data callback on the shard's own thread. *)

LEMMA ResumeIInv == ASSUME IInv, Resume PROVE IInv'
<1>0. Shapes /\ sh.pc = "resume" /\ sh.pc \in Loop /\ "rx" \in Loop /\ UNCHANGED <<gate, inbox, flow, app, remote, stop>>
  BY ZenonT(60) DEF IInv, Resume, Loop
<1>1. CASE Goto("rx") /\ UNCHANGED ses
  <2>1. SessionKept(ses') /\ FlowKept(flow')
    BY <1>0, <1>1 DEF SessionKept, FlowKept
  <2> QED
    BY <1>0, <1>1, <2>1, GotoMoves, InboxStays, LoopStep
<1>2. CASE /\ flow.session /\ Installed("data")
           /\ ses' = [ses EXCEPT !.pending = Empty, !.in_flight = @ + 1]
           /\ sh' = [sh EXCEPT !.pc = "repost", !.lease = ses.pending]
  <2>1. /\ DOMAIN ses' = DOMAIN ses /\ ses'.installed = ses.installed /\ ses'.pending = Empty
        /\ ses'.in_flight = ses.in_flight + 1
        /\ DOMAIN sh' = DOMAIN sh /\ sh'.pc = "repost" /\ sh'.lease = ses.pending
    BY <1>0, <1>2 DEF Shapes
  <2>2. Shapes'
    BY <1>0, <2>1, EmptyLease DEF Shapes
  <2>3. Counted' /\ Doing'
    BY <1>0, <2>1 DEF IInv, Shapes, Counted, Doing, Reposting
  <2>4. Progress'
    BY ZenonT(60), <1>0, <1>2, <2>1 DEF IInv, Progress, Removing, Reposting
  <2>5. DataGone' /\ AllGone'
    BY <1>0, <2>1 DEF IInv, DataGone, AllGone
  <2>6. Ended'
    BY <1>0, <2>1 DEF IInv, Ended, Removing
  <2> QED
    BY <2>2, <2>3, <2>4, <2>5, <2>6 DEF IInv
<1> QED
  BY <1>1, <1>2 DEF Resume

(* The shard stays inside the callback, with every callback installed.      *)
LEMMA RepostingStep ==
  ASSUME IInv, sh.pc \in Reposting, sh'.pc \in Reposting, DOMAIN sh' = DOMAIN sh, sh'.lease \in Leases,
         DOMAIN ses' = DOMAIN ses, ses'.in_flight = ses.in_flight, ses'.installed = ses.installed,
         ses'.pending \in Leases, InboxKept, UNCHANGED <<gate, flow, app, remote, stop>>
  PROVE  IInv'
<1>0. /\ sh.pc \notin Removing \cup {"release", "exit", "exited"}
      /\ sh'.pc \notin Removing \cup {"release", "exit", "exited"}
      /\ ses.installed = AllCallbacks
  BY ZenonT(60) DEF IInv, Progress, Reposting, Removing
<1>1. Shapes'
  BY ZenonT(60) DEF IInv, Shapes, InboxKept
<1>2. Counted' /\ Doing' /\ Progress'
  BY ZenonT(60), <1>0 DEF IInv, Counted, Doing, Progress
<1>3. DataGone' /\ AllGone'
  BY ZenonT(60), <1>0 DEF DataGone, AllGone, AllCallbacks
<1>4. Ended'
  BY ZenonT(60), <1>0 DEF IInv, Ended, InboxKept
<1> QED
  BY <1>1, <1>2, <1>3, <1>4 DEF IInv

LEMMA RepostIInv == ASSUME IInv, Repost PROVE IInv'
<1>1. Data(sh.lease) \in Message /\ Data(sh.lease).type # "stop"
  BY ZenonT(60) DEF IInv, Shapes, Message, Data
<1>2. InboxKept
  BY <1>1, TryPostInbox DEF Repost
<1>3. sh.pc \in Reposting /\ sh'.pc \in Reposting /\ DOMAIN sh' = DOMAIN sh /\ sh'.lease \in Leases
  BY ZenonT(60), EmptyLease DEF Repost, IInv, Shapes, Reposting
<1> QED
  BY <1>2, <1>3, RepostingStep DEF Repost, IInv, Shapes

LEMMA RestoreIInv == ASSUME IInv, Restore PROVE IInv'
<1>1. sh.pc \in Reposting /\ sh'.pc \in Reposting /\ DOMAIN sh' = DOMAIN sh /\ sh'.lease \in Leases
  BY ZenonT(60), EmptyLease DEF Restore, IInv, Shapes, Reposting
<1>2. /\ DOMAIN ses' = DOMAIN ses /\ ses'.in_flight = ses.in_flight /\ ses'.installed = ses.installed
      /\ ses'.pending \in Leases
  BY ZenonT(60) DEF Restore, IInv, Shapes
<1> QED
  BY <1>1, <1>2, InboxStays, RepostingStep DEF Restore

LEMMA ResumedIInv == ASSUME IInv, Resumed PROVE IInv'
<1>0. /\ DOMAIN ses' = DOMAIN ses /\ ses'.in_flight = ses.in_flight - 1 /\ ses'.installed = ses.installed
      /\ ses'.pending = ses.pending /\ sh.pc = "resumed" /\ sh'.pc = "rx" /\ DOMAIN sh' = DOMAIN sh
      /\ sh'.lease = sh.lease /\ DOMAIN remote' = DOMAIN remote /\ remote'.read = remote.read
      /\ UNCHANGED <<gate, inbox, flow, app, stop>>
  BY ZenonT(60) DEF Resumed, Goto, IInv, Shapes
<1>1. Shapes'
  BY <1>0 DEF IInv, Shapes
<1>2. Counted' /\ Doing'
  BY <1>0 DEF IInv, Shapes, Counted, Doing, Reposting
<1>3. Progress'
  BY ZenonT(60), <1>0 DEF IInv, Progress, Removing, Reposting
<1>4. DataGone' /\ AllGone' /\ Ended'
  BY ZenonT(60), <1>0 DEF IInv, DataGone, AllGone, Ended, Removing
<1> QED
  BY <1>1, <1>2, <1>3, <1>4 DEF IInv

-----------------------------------------------------------------------------
(* RemoveAt. *)

LEMMA Order ==
  /\ Head(Callbacks) = "writable" /\ Tail(Callbacks) = <<"data", "closed">> /\ Len(Callbacks) = 3
  /\ Head(<<"data", "closed">>) = "data" /\ Tail(<<"data", "closed">>) = <<"closed">> /\ Len(<<"data", "closed">>) = 2
  /\ Head(<<"closed">>) = "closed" /\ Len(<<"closed">>) = 1
  BY DEF Callbacks

LEMMA ClearIInv == ASSUME IInv, Clear PROVE IInv'
<1>0. /\ DOMAIN ses' = DOMAIN ses /\ ses'.in_flight = ses.in_flight /\ ses'.pending = ses.pending
      /\ ses'.installed = ses.installed \ {Head(sh.clearing)} /\ Moves("wait") /\ sh.pc = "clear"
      /\ UNCHANGED <<gate, inbox, flow, app, remote, stop>>
  BY ZenonT(60), GotoMoves DEF Clear, IInv, Shapes
<1>1. Shapes'
  BY ZenonT(60), <1>0 DEF IInv, Shapes, Moves
<1>2. Counted' /\ Doing'
  BY ZenonT(60), <1>0 DEF IInv, Counted, Doing, Reposting, Moves
<1>3. Progress' /\ DataGone'
  <2>1. flow.session /\ sh.after \in {"deferred", "control", "pump", "resume", "release"}
    BY ZenonT(60), <1>0 DEF IInv, Progress, Removing
  <2>2. CASE sh.clearing = Callbacks /\ ses.installed = AllCallbacks
    <3>1. ses'.installed = AllCallbacks \ {"writable"}
      BY <1>0, <2>2, Order
    <3> QED
      BY <1>0, <2>1, <2>2, <3>1 DEF Progress, DataGone, Removing, Moves, AllCallbacks
  <2>3. CASE sh.clearing = <<"data", "closed">> /\ ses.installed = {"closed", "data"}
    <3>1. ses'.installed = {"closed"}
      BY ZenonT(60), <1>0, <2>3, Order
    <3> QED
      BY <1>0, <2>1, <2>3, <3>1 DEF Progress, DataGone, Removing, Moves
  <2>4. CASE sh.clearing = <<"closed">> /\ ses.installed = {"closed"}
    <3>1. ses'.installed = {}
      BY <1>0, <2>4, Order
    <3>2. ses.pending = Empty /\ app.op # "data"
      BY ZenonT(60), <1>0, <2>4 DEF IInv, DataGone
    <3> QED
      BY <1>0, <2>1, <2>4, <3>1, <3>2 DEF Progress, DataGone, Removing, Moves
  <2> QED
    BY <1>0, <2>2, <2>3, <2>4 DEF IInv, Progress, Removing, AllCallbacks
<1>4. AllGone' /\ Ended'
  BY ZenonT(60), <1>0 DEF IInv, AllGone, Ended, Removing, Moves
<1> QED
  BY <1>1, <1>2, <1>3, <1>4 DEF IInv

LEMMA WaitIInv == ASSUME IInv, Wait PROVE IInv'
<1>0. /\ DOMAIN ses' = DOMAIN ses /\ ses'.in_flight = ses.in_flight /\ ses'.installed = ses.installed
      /\ ses'.pending = IF Head(sh.clearing) = "data" THEN Empty ELSE ses.pending
      /\ sh.pc = "wait" /\ UNCHANGED <<inbox, app, remote, stop>>
  BY ZenonT(60) DEF Wait, IInv, Shapes
<1>1. app = Idle /\ app.pc = "idle" /\ app.op = "none"
  BY <1>0 DEF Wait, IInv, Counted, Doing, Reposting, Idle
<1>2. /\ flow.session /\ sh.after \in {"deferred", "control", "pump", "resume", "release"}
      /\ \/ sh.clearing = Callbacks /\ ses.installed = {"data", "closed"}
         \/ sh.clearing = <<"data", "closed">> /\ ses.installed = {"closed"}
         \/ sh.clearing = <<"closed">> /\ ses.installed = {}
  BY ZenonT(60), <1>0 DEF IInv, Progress, Removing, AllCallbacks
<1>3. CASE sh.clearing # <<"closed">>
  <2>0. sh.clearing = Callbacks \/ sh.clearing = <<"data", "closed">>
    BY ZenonT(60), <1>2, <1>3
  <2>1. Len(sh.clearing) > 1
    <3>1. CASE sh.clearing = Callbacks
      BY <3>1, Order
    <3>2. CASE sh.clearing = <<"data", "closed">>
      BY <3>2, Order
    <3> QED
      BY ZenonT(60), <2>0, <3>1, <3>2
  <2>2. UNCHANGED <<flow, gate>> /\ sh' = [sh EXCEPT !.pc = "clear", !.clearing = Tail(sh.clearing)]
    BY ZenonT(60), <2>1 DEF Wait
  <2>3. /\ DOMAIN sh' = DOMAIN sh /\ sh'.pc = "clear" /\ sh'.clearing = Tail(sh.clearing)
        /\ sh'.lease = sh.lease /\ sh'.after = sh.after
    BY ZenonT(60), <2>2 DEF IInv, Shapes
  <2>4. Shapes'
    BY <1>0, <2>2, <2>3, EmptyLease DEF IInv, Shapes
  <2>5. Counted' /\ Doing'
    BY <1>0, <2>3 DEF IInv, Counted, Doing, Reposting
  <2>6. Progress' /\ DataGone'
    <3>1. CASE sh.clearing = Callbacks
      <4>1. ses'.installed = {"data", "closed"} /\ sh'.clearing = <<"data", "closed">>
        BY ZenonT(60), <1>0, <1>2, <2>3, <3>1, Order
      <4> QED
        BY <1>2, <2>2, <2>3, <4>1 DEF Progress, DataGone, Removing
    <3>2. CASE sh.clearing = <<"data", "closed">>
      <4>1. ses'.installed = {"closed"} /\ sh'.clearing = <<"closed">> /\ ses'.pending = Empty
        BY ZenonT(60), <1>0, <1>2, <2>3, <3>2, Order
      <4> QED
        BY <1>0, <1>1, <1>2, <2>2, <2>3, <4>1 DEF Progress, DataGone, Removing
    <3> QED
      BY ZenonT(60), <2>0, <3>1, <3>2
  <2>7. AllGone' /\ Ended'
    BY ZenonT(60), <1>0, <1>1, <2>2, <2>3 DEF IInv, AllGone, Ended, Removing
  <2> QED
    BY ZenonT(60), <2>4, <2>5, <2>6, <2>7 DEF IInv
<1>4. CASE sh.clearing = <<"closed">>
  <2>1. /\ sh' = [sh EXCEPT !.pc = sh.after, !.clearing = Empty]
        /\ flow' = [flow EXCEPT !.session = FALSE, !.state = "gone", !.unsent = Empty]
        /\ gate' = [gate EXCEPT !.held = FALSE]
    BY <1>4, Order DEF Wait
  <2>2. /\ DOMAIN sh' = DOMAIN sh /\ sh'.pc = sh.after /\ sh'.lease = sh.lease
        /\ DOMAIN flow' = DOMAIN flow /\ ~flow'.session /\ DOMAIN gate' = DOMAIN gate /\ gate'.active = gate.active
    BY ZenonT(60), <2>1 DEF IInv, Shapes
  <2>3. ses.installed = {} /\ ses'.pending = Empty
    BY ZenonT(60), <1>0, <1>2, <1>4, Order DEF IInv, DataGone
  <2>4. sh'.pc \notin Removing \cup Reposting \cup {"exit", "exited"}
    BY ZenonT(60), <1>2, <2>2 DEF Removing, Reposting
  <2>5. Shapes'
    BY ZenonT(60), <1>0, <2>2, <2>3, EmptyLease DEF IInv, Shapes
  <2>6. Counted' /\ Doing'
    BY <1>0, <1>1, <2>4 DEF IInv, Counted, Doing, Reposting
  <2>7. Progress' /\ DataGone' /\ AllGone'
    BY <1>0, <1>1, <2>2, <2>3, <2>4 DEF Progress, DataGone, AllGone
  <2>8. Ended'
    BY <1>0, <2>2, <2>4 DEF IInv, Ended, Removing
  <2> QED
    BY ZenonT(60), <2>5, <2>6, <2>7, <2>8 DEF IInv
<1> QED
  BY <1>3, <1>4

LEMMA ExitIInv == ASSUME IInv, Exit PROVE IInv'
<1>0. /\ Shapes /\ sh.pc = "exit" /\ sh.pc \in Loop \cup {"exit"} /\ "release" \in Afters /\ FlowKept(flow) /\ stop.called
      /\ UNCHANGED <<ses, inbox, app, remote, stop>>
  BY ZenonT(60) DEF IInv, Ended, Exit, Afters, FlowKept
<1>1. DOMAIN gate' = DOMAIN gate /\ ~gate'.active
  BY ZenonT(60), <1>0 DEF Exit, Shapes
<1>2. CASE RemoveAt(flow, "release")
  BY <1>0, <1>1, <1>2, InboxStays, RemoveAtStep
<1>3. CASE Goto("release") /\ UNCHANGED flow
  <2>1. Moves("release")
    BY ZenonT(60), <1>0, <1>3, GotoMoves
  <2>2. Shapes'
    BY <1>0, <1>1, <1>3, <2>1 DEF Shapes, Moves
  <2>3. Counted' /\ Doing'
    BY <1>0, <2>1 DEF IInv, Counted, Doing, Reposting, Moves
  <2>4. Progress' /\ DataGone' /\ AllGone'
    BY <1>0, <1>3, <2>1 DEF IInv, Progress, DataGone, AllGone, Removing, Reposting, Moves
  <2>5. Ended'
    BY <1>0, <1>1, <2>1 DEF IInv, Ended, Removing, Moves
  <2> QED
    BY ZenonT(60), <2>2, <2>3, <2>4, <2>5 DEF IInv
<1> QED
  BY ZenonT(60), <1>2, <1>3 DEF Exit

LEMMA ReleaseIInv == ASSUME IInv, Release PROVE IInv'
<1>0. /\ Shapes /\ sh.pc = "release" /\ inbox' = Empty /\ UNCHANGED <<ses, gate, flow, app, remote, stop>>
  BY ZenonT(60) DEF IInv, Release
<1>1. Moves("exited")
  BY ZenonT(60), <1>0, GotoMoves DEF Release
<1>2. Shapes'
  BY <1>0, <1>1 DEF Shapes, Moves, Empty
<1>3. Counted' /\ Doing'
  BY <1>0, <1>1 DEF IInv, Counted, Doing, Reposting, Moves
<1>4. Progress' /\ DataGone' /\ AllGone'
  BY <1>0, <1>1 DEF IInv, Progress, DataGone, AllGone, Removing, Reposting, Moves
<1>5. Ended'
  <2>1. DOMAIN inbox' = {}
    BY <1>0 DEF Empty
  <2> QED
    BY ZenonT(60), <1>0, <1>1, <2>1 DEF IInv, Ended, Removing, Moves
<1> QED
  BY ZenonT(60), <1>2, <1>3, <1>4, <1>5 DEF IInv

-----------------------------------------------------------------------------
(* Callers from outside. *)

(* Stop and PostFlowClose put a message at the end of the inbox, before     *)
(* the shard's thread can have ended.                                       *)
LEMMA PushStep ==
  ASSUME IInv, NEW m \in Message, ~stop.called, inbox' \in {inbox, Append(inbox, m)}, m.type = "stop" => stop'.called,
         stop' \in [called : BOOLEAN, requested : BOOLEAN], stop'.requested => stop'.called,
         UNCHANGED <<ses, gate, flow, sh, app, remote>>
  PROVE  IInv'
<1>0. gate.active /\ ~stop.requested /\ sh.pc # "exit" /\ inbox \in Seq(Message) /\ \A i \in DOMAIN inbox : inbox[i].type # "stop"
  BY ZenonT(60) DEF IInv, Ended, Shapes
<1>1. inbox' \in Seq(Message) /\ \A i \in DOMAIN inbox' : inbox'[i].type = "stop" => stop'.called
  <2>1. CASE inbox' = inbox
    BY ZenonT(60), <1>0, <2>1
  <2>2. CASE inbox' = Append(inbox, m)
    BY <1>0, <2>2
  <2> QED
    BY ZenonT(60), <2>1, <2>2
<1>2. Shapes'
  BY ZenonT(60), <1>1 DEF IInv, Shapes
<1>3. Counted' /\ Doing' /\ Progress'
  BY ZenonT(60) DEF IInv, Counted, Doing, Progress
<1>4. DataGone' /\ AllGone'
  BY ZenonT(60) DEF IInv, DataGone, AllGone
<1>5. Ended'
  BY ZenonT(60), <1>0, <1>1 DEF IInv, Ended
<1> QED
  BY ZenonT(60), <1>2, <1>3, <1>4, <1>5 DEF IInv

LEMMA StopIInv == ASSUME IInv, Stop PROVE IInv'
<1>1. Plain("stop") \in Message /\ stop \in [called : BOOLEAN, requested : BOOLEAN]
  BY EmptyLease DEF Plain, Message, IInv, Shapes
<1>2. stop' \in [called : BOOLEAN, requested : BOOLEAN] /\ stop'.called
  <2>1. CASE stop' = [called |-> TRUE, requested |-> TRUE]
    BY <2>1
  <2>2. CASE stop' = [stop EXCEPT !.called = TRUE]
    BY <1>1, <2>2
  <2> QED
    BY ZenonT(60), <2>1, <2>2 DEF Stop
<1> QED
  BY ZenonT(60), <1>1, <1>2, PushStep DEF Stop, Push

LEMMA PostFlowCloseIInv == ASSUME IInv, PostFlowClose PROVE IInv'
<1>1. Plain("flowClose") \in Message /\ Plain("flowClose").type # "stop"
  BY EmptyLease DEF Plain, Message
<1>2. stop' = stop /\ stop \in [called : BOOLEAN, requested : BOOLEAN] /\ (stop.requested => stop.called)
  BY ZenonT(60) DEF PostFlowClose, IInv, Shapes, Ended
<1> QED
  BY ZenonT(60), <1>1, <1>2, PushStep DEF PostFlowClose, Push

-----------------------------------------------------------------------------
LEMMA StutterIInv == ASSUME IInv, UNCHANGED vars PROVE IInv'
<1>1. Shapes' /\ Counted' /\ Doing'
  BY ZenonT(60) DEF vars, IInv, Shapes, Counted, Doing
<1>2. Progress' /\ DataGone' /\ AllGone' /\ Ended'
  BY ZenonT(60) DEF vars, IInv, Progress, DataGone, AllGone, Ended
<1> QED
  BY ZenonT(60), <1>1, <1>2 DEF IInv

LEMMA NextIInv == ASSUME IInv, [Next]_vars PROVE IInv'
<1>1. CASE App
  BY ZenonT(60), <1>1, AppPostIInv, AppIsActiveIInv, AppStoreIInv, AppFinishIInv DEF App
<1>2. ASSUME NEW error \in {"RemoteClosed", "Reset"}, NEW abort \in BOOLEAN, OnClosed(error, abort)
      PROVE  IInv'
  BY ZenonT(60), <1>2, OnClosedIInv
<1>3. ASSUME NEW s \in {"none", "payload", "fin", "finAck"}, Receive(s)
      PROVE  IInv'
  BY ZenonT(60), <1>3, ReceiveIInv
<1>4. ASSUME NEW due \in BOOLEAN, Timers(due)
      PROVE  IInv'
  BY ZenonT(60), <1>4, TimersIInv
<1>5. ASSUME NEW o, Pump(o)
      PROVE  IInv'
  BY ZenonT(60), <1>5, PumpIInv
<1>6. CASE ShardTurns
  BY ZenonT(60), <1>3, <1>4, <1>5, <1>6, DeferredIInv, ControlIInv, ControlDoneIInv, ResumeIInv, RepostIInv, RestoreIInv,
     ResumedIInv, ClearIInv, WaitIInv, ExitIInv, ReleaseIInv DEF ShardTurns
<1> QED
  BY ZenonT(60), <1>1, <1>2, <1>6, OnDataReceivedIInv, DrainSendQueueIInv, StopIInv, PostFlowCloseIInv, StutterIInv DEF Next

(* RemoveAt's promise to whoever destroys a session or a pool: once the     *)
(* callbacks of a session are cleared, no thread runs one, the session      *)
(* retains no lease, and none comes back; and nothing is posted to a shard  *)
(* whose thread has ended.                                                  *)
THEOREM SessionIsQuiet == Spec => []Quiesced
<1>1. Init => IInv
  BY InitIInv
<1>2. IInv /\ [Next]_vars => IInv'
  BY NextIInv
<1>3. IInv => Quiesced
  BY IInvQuiesced
<1> QED
  BY <1>1, <1>2, <1>3, PTL DEF Spec

-----------------------------------------------------------------------------
(* Strings of octets under concatenation. *)
LEMMA CatType ==
  ASSUME NEW x \in Seq(Nat), NEW y \in Seq(Nat)
  PROVE  x \o y \in Seq(Nat) /\ Len(x \o y) = Len(x) + Len(y)
BY SMT

LEMMA CatMember ==
  ASSUME NEW x \in Seq(Nat), NEW y \in Seq(Nat)
  PROVE  \A i \in 1..(Len(x) + Len(y)) : (x \o y)[i] = IF i <= Len(x) THEN x[i] ELSE y[i - Len(x)]
BY SMT

LEMMA CatEmpty ==
  ASSUME NEW x \in Seq(Nat)
  PROVE  x \o << >> = x /\ << >> \o x = x
BY SMT

LEMMA SameString ==
  ASSUME NEW x \in Seq(Nat), NEW y \in Seq(Nat), Len(x) = Len(y), \A i \in 1..Len(x) : x[i] = y[i]
  PROVE  x = y
<1>1. x = [i \in 1..Len(x) |-> x[i]] /\ y = [i \in 1..Len(y) |-> y[i]]
  BY SMT
<1> QED BY ZenonT(60), <1>1

LEMMA CatAssoc ==
  ASSUME NEW x \in Seq(Nat), NEW y \in Seq(Nat), NEW z \in Seq(Nat)
  PROVE  (x \o y) \o z = x \o (y \o z)
<1> DEFINE a == x \o y
           b == y \o z
           l == a \o z
           r == x \o b
<1>1. Len(x) \in Nat /\ Len(y) \in Nat /\ Len(z) \in Nat
  BY SMT
<1>2. /\ a \in Seq(Nat) /\ Len(a) = Len(x) + Len(y)
      /\ \A i \in 1..(Len(x) + Len(y)) : a[i] = IF i <= Len(x) THEN x[i] ELSE y[i - Len(x)]
  BY SMT
<1>3. /\ b \in Seq(Nat) /\ Len(b) = Len(y) + Len(z)
      /\ \A i \in 1..(Len(y) + Len(z)) : b[i] = IF i <= Len(y) THEN y[i] ELSE z[i - Len(y)]
  BY SMT
<1> HIDE DEF a, b
<1>4. /\ l \in Seq(Nat) /\ Len(l) = Len(a) + Len(z)
      /\ \A i \in 1..(Len(a) + Len(z)) : l[i] = IF i <= Len(a) THEN a[i] ELSE z[i - Len(a)]
  BY ZenonT(60), <1>2, CatType, CatMember
<1>5. /\ r \in Seq(Nat) /\ Len(r) = Len(x) + Len(b)
      /\ \A i \in 1..(Len(x) + Len(b)) : r[i] = IF i <= Len(x) THEN x[i] ELSE b[i - Len(x)]
  BY ZenonT(60), <1>3, CatType, CatMember
<1> HIDE DEF l, r
<1> DEFINE p == Len(x)
           q == Len(y)
           n == Len(z)
<1>6. Len(l) = (p + q) + n /\ Len(r) = p + (q + n) /\ p \in Nat /\ q \in Nat /\ n \in Nat
  BY ZenonT(60), <1>1, <1>2, <1>3, <1>4, <1>5
<1>7. Len(l) = Len(r)
  <2> HIDE DEF p, q, n
  <2> QED BY <1>6
<1>8. \A i \in 1..Len(l) : l[i] = r[i]
  <2> TAKE i \in 1..Len(l)
  <2>1. l[i] = IF i <= p + q THEN a[i] ELSE z[i - (p + q)]
    BY ZenonT(60), <1>2, <1>4
  <2>2. r[i] = IF i <= p THEN x[i] ELSE b[i - p]
    BY ZenonT(60), <1>7, <1>3, <1>5
  <2> HIDE DEF p, q, n
  <2>3. CASE i <= p
    <3>1. i \in 1..(p + q) /\ i <= p + q
      BY <1>6, <2>3
    <3>2. a[i] = x[i]
      BY ZenonT(60), <3>1, <2>3, <1>2 DEF p, q
    <3> QED BY ZenonT(60), <3>1, <3>2, <2>1, <2>2, <2>3
  <2>4. CASE p < i /\ i <= p + q
    <3>1. i \in 1..(p + q) /\ ~(i <= p) /\ i - p \in 1..(q + n) /\ i - p <= q
      BY <1>6, <2>4
    <3>2. a[i] = y[i - p]
      BY ZenonT(60), <3>1, <1>2 DEF p, q
    <3>3. b[i - p] = y[i - p]
      BY ZenonT(60), <3>1, <1>3 DEF q, n
    <3> QED BY ZenonT(60), <3>1, <3>2, <3>3, <2>1, <2>2, <2>4
  <2>5. CASE p + q < i
    <3>1. ~(i <= p) /\ ~(i <= p + q) /\ i - p \in 1..(q + n) /\ ~(i - p <= q) /\ (i - p) - q = i - (p + q)
      BY <1>6, <2>5
    <3>2. b[i - p] = z[(i - p) - q]
      BY ZenonT(60), <3>1, <1>3 DEF q, n
    <3> QED BY ZenonT(60), <3>1, <3>2, <2>1, <2>2
  <2>6. i <= p \/ (p < i /\ i <= p + q) \/ p + q < i
    BY <1>6
  <2> QED BY ZenonT(60), <2>3, <2>4, <2>5, <2>6
<1>9. l = r
  BY ZenonT(60), <1>4, <1>5, <1>7, <1>8, SameString
<1> QED BY ZenonT(60), <1>9 DEF l, r, a, b

LEMMA EmptyString == << >> \in Seq(Nat)
BY SMT

(* The octets of the messages up to each of them. *)
Strings(m) == CHOOSE f : f = [i \in 0..Len(m) |-> IF i = 0 THEN << >> ELSE f[i - 1] \o m[i]]
Upto(m, f, i) == IF i = 0 THEN << >> ELSE f[i - 1] \o m[i]

LEMMA OctetsIs ==
  ASSUME NEW m
  PROVE  Octets(m) = Strings(m)[Len(m)]
BY ZenonT(60) DEF Octets, Strings, Empty

LEMMA NextPlace ==
  ASSUME NEW n \in Nat
  PROVE  /\ n \in 0..n /\ 0 \in 0..n /\ n + 1 \in 0..(n + 1) /\ n + 1 # 0 /\ (n + 1) - 1 = n
         /\ \A i \in 0..n : i \in 0..(n + 1) /\ i \in Nat
         /\ \A i \in 0..(n + 1) : i # 0 => i - 1 \in 0..n /\ i \in 1..(n + 1)
         /\ \A i \in 0..n : i # 0 => i - 1 \in 0..n /\ i - 1 \in Nat /\ i \in 1..n
BY SMT

(* The recursion has a solution on the first n members.                     *)
LEMMA StringsUpTo ==
  ASSUME NEW m \in Seq(Seq(Nat)), NEW n \in Nat, n <= Len(m)
  PROVE  \E f \in [0..n -> Seq(Nat)] : \A i \in 0..n : f[i] = Upto(m, f, i)
<1> DEFINE Solves(f, k) == \A i \in 0..k : f[i] = Upto(m, f, i)
           K == {k \in Nat : k <= Len(m) => \E f \in [0..k -> Seq(Nat)] : Solves(f, k)}
<1>0. Len(m) \in Nat /\ \A i \in 1..Len(m) : m[i] \in Seq(Nat)
  BY SMT
<1>1. 0 \in K
  <2> DEFINE f == [i \in 0..0 |-> << >>]
  <2>0. \A i \in 0..0 : i = 0
    BY SMT
  <2>1. f \in [0..0 -> Seq(Nat)]
    BY ZenonT(60), EmptyString
  <2>2. Solves(f, 0)
    BY ZenonT(60), <2>0 DEF Upto
  <2>3. 0 \in Nat
    BY SMT
  <2> HIDE DEF f, Solves
  <2> QED BY ZenonT(60), <2>1, <2>2, <2>3
<1>2. ASSUME NEW k \in Nat, k \in K PROVE k + 1 \in K
  <2>a. k + 1 \in Nat
    BY SMT
  <2> SUFFICES ASSUME k + 1 <= Len(m) PROVE \E f \in [0..(k + 1) -> Seq(Nat)] : Solves(f, k + 1)
    BY ZenonT(60), <2>a
  <2>0. k <= Len(m) /\ \A i \in 1..(k + 1) : i \in 1..Len(m)
    BY <1>0
  <2>1. PICK f \in [0..k -> Seq(Nat)] : Solves(f, k)
    BY ZenonT(60), <1>2, <2>0
  <2> DEFINE h == [i \in 0..(k + 1) |-> Upto(m, f, i)]
  <2>2. \A i \in 0..(k + 1) : i # 0 => m[i] \in Seq(Nat) /\ i - 1 \in 0..k
    BY ZenonT(60), <1>0, <2>0, NextPlace
  <2>3. h \in [0..(k + 1) -> Seq(Nat)]
    <3> SUFFICES ASSUME NEW i \in 0..(k + 1) PROVE Upto(m, f, i) \in Seq(Nat)
      BY ZenonT(60)
    <3>1. i # 0 => m[i] \in Seq(Nat) /\ f[i - 1] \in Seq(Nat)
      BY ZenonT(60), <2>2
    <3> QED BY ZenonT(60), <3>1, EmptyString, CatType DEF Upto
  <2>5. \A i \in 0..k : h[i] = f[i]
    BY ZenonT(60), <2>1, NextPlace
  <2>6. \A i \in 0..(k + 1) : h[i] = Upto(m, h, i)
    <3> TAKE i \in 0..(k + 1)
    <3>1. h[i] = Upto(m, f, i)
      BY ZenonT(60)
    <3>2. i # 0 => h[i - 1] = f[i - 1]
      BY ZenonT(60), <2>2, <2>5
    <3> HIDE DEF h
    <3> QED BY ZenonT(60), <3>1, <3>2 DEF Upto
  <2> HIDE DEF h
  <2> QED BY ZenonT(60), <2>3, <2>6
<1>3. n \in K
  <2> HIDE DEF K
  <2> QED BY ZenonT(60), <1>1, <1>2, NatSetInduction
<1> QED BY ZenonT(60), <1>3

(* So the recursion of Octets is defined, and gives sequences.               *)
LEMMA StringsSolve ==
  ASSUME NEW m \in Seq(Seq(Nat))
  PROVE  \A i \in 0..Len(m) : Strings(m)[i] = Upto(m, Strings(m), i) /\ Strings(m)[i] \in Seq(Nat)
<1>0. Len(m) \in Nat /\ Len(m) <= Len(m) /\ \A i \in 1..Len(m) : m[i] \in Seq(Nat)
  BY SMT
<1>1. PICK f \in [0..Len(m) -> Seq(Nat)] : \A i \in 0..Len(m) : f[i] = Upto(m, f, i)
  BY ZenonT(60), <1>0, StringsUpTo
<1>2. f = [i \in 0..Len(m) |-> IF i = 0 THEN << >> ELSE f[i - 1] \o m[i]]
  BY ZenonT(60), <1>1 DEF Upto
<1> DEFINE g == Strings(m)
<1>3. g = [i \in 0..Len(m) |-> IF i = 0 THEN << >> ELSE g[i - 1] \o m[i]]
  BY ZenonT(60), <1>2 DEF Strings
<1> HIDE DEF g
<1>4. \A i \in 0..Len(m) : g[i] = Upto(m, g, i)
  BY ZenonT(60), <1>3 DEF Upto
<1> DEFINE K == {k \in Nat : k \in 0..Len(m) => g[k] \in Seq(Nat)}
<1>5. 0 \in K
  <2>1. 0 \in Nat /\ 0 \in 0..Len(m)
    BY <1>0
  <2> QED BY ZenonT(60), <2>1, <1>4, EmptyString DEF Upto
<1>6. ASSUME NEW k \in Nat, k \in K PROVE k + 1 \in K
  <2>a. k + 1 \in Nat
    BY SMT
  <2> SUFFICES ASSUME k + 1 \in 0..Len(m) PROVE g[k + 1] \in Seq(Nat)
    BY ZenonT(60), <2>a
  <2>1. k \in 0..Len(m) /\ k + 1 \in 1..Len(m) /\ k + 1 # 0 /\ (k + 1) - 1 = k
    BY <1>0
  <2>2. g[k] \in Seq(Nat)
    BY ZenonT(60), <2>1, <1>6
  <2>3. g[k + 1] = g[k] \o m[k + 1] /\ m[k + 1] \in Seq(Nat)
    BY ZenonT(60), <2>1, <1>0, <1>4 DEF Upto
  <2> QED BY ZenonT(60), <2>2, <2>3, CatType
<1>7. Nat \subseteq K
  <2> HIDE DEF K
  <2> QED BY ZenonT(60), <1>5, <1>6, NatSetInduction
<1>8. \A i \in 0..Len(m) : g[i] \in Seq(Nat)
  BY ZenonT(60), <1>0, <1>7, NextPlace
<1> QED BY ZenonT(60), <1>4, <1>8 DEF g

LEMMA OctetsType ==
  ASSUME NEW m \in Seq(Seq(Nat))
  PROVE  Octets(m) \in Seq(Nat)
<1>1. Len(m) \in Nat
  BY SMT
<1> QED BY ZenonT(60), <1>1, NextPlace, OctetsIs, StringsSolve

LEMMA OctetsEmpty == Octets(<< >>) = << >>
<1>1. << >> \in Seq(Seq(Nat)) /\ Len(<< >>) = 0 /\ 0 \in 0..0
  BY SMT
<1> QED BY ZenonT(60), <1>1, OctetsIs, StringsSolve DEF Upto

(* A message more.                                                           *)
LEMMA OctetsAppend ==
  ASSUME NEW m \in Seq(Seq(Nat)), NEW x \in Seq(Nat)
  PROVE  Octets(Append(m, x)) = Octets(m) \o x
<1> DEFINE p == Append(m, x)
           n == Len(m)
           g == Strings(m)
           h == Strings(p)
<1>0. /\ n \in Nat /\ Len(p) = n + 1 /\ p \in Seq(Seq(Nat)) /\ p[n + 1] = x
      /\ \A i \in 1..n : p[i] = m[i]
  BY SMT
<1> HIDE DEF p
<1>1. \A i \in 0..n : g[i] = Upto(m, g, i) /\ g[i] \in Seq(Nat)
  BY ZenonT(60), StringsSolve
<1>2. \A i \in 0..(n + 1) : h[i] = Upto(p, h, i) /\ h[i] \in Seq(Nat)
  BY ZenonT(60), <1>0, StringsSolve
<1>3. Octets(m) = g[n] /\ Octets(p) = h[n + 1]
  BY ZenonT(60), <1>0, OctetsIs
<1> HIDE DEF g, h, n
<1> DEFINE K == {k \in Nat : k \in 0..n => h[k] = g[k]}
<1>4. 0 \in K
  <2>1. 0 \in Nat /\ 0 \in 0..n /\ 0 \in 0..(n + 1)
    BY <1>0
  <2> QED BY ZenonT(60), <2>1, <1>1, <1>2 DEF Upto
<1>5. ASSUME NEW k \in Nat, k \in K PROVE k + 1 \in K
  <2>a. k + 1 \in Nat
    BY SMT
  <2> SUFFICES ASSUME k + 1 \in 0..n PROVE h[k + 1] = g[k + 1]
    BY ZenonT(60), <2>a
  <2>1. k \in 0..n /\ k + 1 \in 1..n /\ k + 1 \in 0..(n + 1) /\ k + 1 # 0 /\ (k + 1) - 1 = k
    BY <1>0
  <2>2. h[k] = g[k] /\ p[k + 1] = m[k + 1]
    BY ZenonT(60), <2>1, <1>0, <1>5
  <2> QED BY ZenonT(60), <2>1, <2>2, <1>1, <1>2 DEF Upto
<1>6. Nat \subseteq K
  <2> HIDE DEF K
  <2> QED BY ZenonT(60), <1>4, <1>5, NatSetInduction
<1>7. h[n] = g[n]
  BY ZenonT(60), <1>0, <1>6, NextPlace
<1>8. h[n + 1] = h[n] \o x
  BY ZenonT(60), <1>0, <1>2, NextPlace DEF Upto
<1> QED BY ZenonT(60), <1>3, <1>7, <1>8 DEF p

(* The first message and the others.                                         *)
LEMMA OctetsTail ==
  ASSUME NEW m \in Seq(Seq(Nat)), m # << >>
  PROVE  Octets(m) = Head(m) \o Octets(Tail(m))
<1> DEFINE t == Tail(m)
           n == Len(t)
           g == Strings(t)
           h == Strings(m)
<1>0. /\ n \in Nat /\ Len(m) = n + 1 /\ t \in Seq(Seq(Nat)) /\ Head(m) = m[1] /\ m[1] \in Seq(Nat)
      /\ \A i \in 1..n : t[i] = m[i + 1] /\ t[i] \in Seq(Nat)
  BY SMT
<1> HIDE DEF t
<1>1. \A i \in 0..n : g[i] = Upto(t, g, i) /\ g[i] \in Seq(Nat)
  BY ZenonT(60), <1>0, StringsSolve
<1>2. \A i \in 0..(n + 1) : h[i] = Upto(m, h, i) /\ h[i] \in Seq(Nat)
  BY ZenonT(60), <1>0, StringsSolve
<1>3. Octets(t) = g[n] /\ Octets(m) = h[n + 1]
  BY ZenonT(60), <1>0, OctetsIs
<1> HIDE DEF g, h, n
<1> DEFINE K == {k \in Nat : k \in 0..n => h[k + 1] = m[1] \o g[k]}
<1>4. 0 \in K
  <2>1. 0 \in Nat /\ 0 \in 0..n /\ 0 \in 0..(n + 1) /\ 1 \in 0..(n + 1) /\ 1 # 0 /\ 1 - 1 = 0 /\ 0 + 1 = 1
    BY <1>0
  <2>2. h[0] = << >> /\ g[0] = << >> /\ h[1] = h[0] \o m[1]
    BY ZenonT(60), <2>1, <1>1, <1>2 DEF Upto
  <2>3. h[0 + 1] = m[1] \o g[0]
    BY ZenonT(60), <2>1, <2>2, <1>0, CatEmpty
  <2> QED BY ZenonT(60), <2>1, <2>3
<1>5. ASSUME NEW k \in Nat, k \in K PROVE k + 1 \in K
  <2>a. k + 1 \in Nat
    BY SMT
  <2> SUFFICES ASSUME k + 1 \in 0..n PROVE h[(k + 1) + 1] = m[1] \o g[k + 1]
    BY ZenonT(60), <2>a
  <2>1. /\ k \in 0..n /\ k + 1 \in 1..n /\ k + 1 # 0 /\ (k + 1) - 1 = k
        /\ (k + 1) + 1 \in 0..(n + 1) /\ (k + 1) + 1 # 0 /\ ((k + 1) + 1) - 1 = k + 1
    BY <1>0
  <2>2. h[k + 1] = m[1] \o g[k] /\ g[k] \in Seq(Nat) /\ t[k + 1] = m[(k + 1) + 1] /\ t[k + 1] \in Seq(Nat)
    BY ZenonT(60), <2>1, <1>0, <1>1, <1>5
  <2>3. h[(k + 1) + 1] = h[k + 1] \o t[k + 1]
    BY ZenonT(60), <2>1, <2>2, <1>2 DEF Upto
  <2>4. g[k + 1] = g[k] \o t[k + 1]
    BY ZenonT(60), <2>1, <1>1 DEF Upto
  <2>5. (m[1] \o g[k]) \o t[k + 1] = m[1] \o (g[k] \o t[k + 1])
    BY ZenonT(60), <1>0, <2>2, CatAssoc
  <2> QED BY ZenonT(60), <2>2, <2>3, <2>4, <2>5
<1>6. Nat \subseteq K
  <2> HIDE DEF K
  <2> QED BY ZenonT(60), <1>4, <1>5, NatSetInduction
<1>7. h[n + 1] = m[1] \o g[n]
  BY ZenonT(60), <1>0, <1>6, NextPlace
<1> QED BY ZenonT(60), <1>0, <1>3, <1>7 DEF t

-----------------------------------------------------------------------------
(* The remote peer's octets.                                                *)

(* What TypeOK bounds, and the types of the octets on their way. *)
Bounds ==
    /\ flow.wire \in Leases /\ flow.unsent \in Leases /\ deferred \in Leases
    /\ Len(flow.unsent) <= send_limit /\ flow.ready \in Nat /\ ses.queue \in 0..session_limit
    /\ Len(inbox) <= inbox_capacity /\ popped \in 0..kControlInboxBudget
    /\ gate.held => sh.pc \in Removing
    /\ \A i \in DOMAIN inbox : inbox[i].type # "data" => inbox[i].lease = Empty

(* A lease is with one of the inbox, the shard, the session and the         *)
(* adapter: the adapter reads on only when the session retains none and the *)
(* shard reposts none.                                                      *)
Carrying == app.op = "data" /\ app.pc \in {"post", "isActive", "store"}
Handed ==
    /\ sh.lease # Empty => sh.pc \in {"repost", "restore"}
    /\ ses.pending # Empty \/ sh.pc \in Reposting => remote.paused
    /\ sh.pc \in {"repost", "restore"} => ses.pending = Empty
    /\ app.lease # Empty => Carrying
    /\ Carrying => ~remote.paused

(* The control inbox is read only when nothing is deferred, RemoveAt is at  *)
(* work only on a connection that is closed or a shard that leaves, and the *)
(* gate closes when the shard leaves.                                       *)
Live == {"Established", "CloseWait"}
Placed ==
    /\ sh.pc = "control" => deferred = Empty
    /\ sh.pc \in Removing => sh.after # "control" /\ (~gate.active \/ flow.state \notin Live)
    /\ ~gate.active => sh.pc \in {"release", "exited"} \/ (sh.pc \in Removing /\ sh.after = "release")

(* The octets in the send buffer are the first ones, and as long as the     *)
(* connection takes more, those on their way come after them.               *)
Sent == flow.wire \o flow.unsent
Line == Sent \o Waiting
Counting(s) == s = FirstOctets(Len(s))
Open == flow.state \in Live /\ ~flow.send_closed /\ gate.active
Ordered ==
    /\ Counting(Sent)
    /\ Open => Counting(Line) /\ (~ses.closed => Len(Line) = remote.read)

RInv == Bounds /\ Handed /\ Placed /\ Ordered

-----------------------------------------------------------------------------
(* Helpers. *)

LEMMA MinPair ==
  ASSUME NEW x \in Int, NEW y \in Int
  PROVE  Min({x, y}) \in {x, y} /\ Min({x, y}) <= x /\ Min({x, y}) <= y
<1>1. \E z \in {x, y} : \A w \in {x, y} : z <= w
  <2>1. CASE x <= y
    BY <2>1
  <2>2. CASE y <= x
    BY <2>2
  <2> QED BY <2>1, <2>2
<1>2. Min({x, y}) \in {x, y} /\ \A w \in {x, y} : Min({x, y}) <= w
  BY ZenonT(60), <1>1 DEF Min
<1> QED BY ZenonT(60), <1>2

(* The first octets. *)
LEMMA CountingPrefix ==
  ASSUME NEW x \in Leases, NEW y \in Leases, Counting(x \o y)
  PROVE  Counting(x)
<1> DEFINE s == x \o y
<1>1. /\ Len(s) = Len(x) + Len(y) /\ Len(x) \in Nat /\ Len(y) \in Nat
      /\ \A i \in 1..(Len(x) + Len(y)) : s[i] = IF i <= Len(x) THEN x[i] ELSE y[i - Len(x)]
  <2>1. Len(x) \in Nat /\ Len(y) \in Nat
    BY DEF Leases
  <2> QED BY ZenonT(60), <2>1, CatType, CatMember DEF Leases
<1>2. s = [i \in 1..Len(s) |-> i]
  BY ZenonT(60) DEF Counting, FirstOctets
<1> HIDE DEF s
<1>3. \A i \in 1..Len(x) : x[i] = i
  <2> TAKE i \in 1..Len(x)
  <2>1. i \in 1..(Len(x) + Len(y)) /\ i <= Len(x)
    BY <1>1
  <2>2. s[i] = i
    BY ZenonT(60), <2>1, <1>1, <1>2
  <2> QED BY ZenonT(60), <2>1, <2>2, <1>1
<1>4. x = [i \in 1..Len(x) |-> x[i]]
  BY DEF Leases
<1>5. x = [i \in 1..Len(x) |-> i]
  BY ZenonT(60), <1>3, <1>4
<1> QED BY ZenonT(60), <1>5 DEF Counting, FirstOctets

LEMMA CountingNext ==
  ASSUME NEW x \in Leases, NEW n \in Nat, Counting(x), Len(x) = n
  PROVE  /\ Counting(x \o Lease(n)) /\ Len(x \o Lease(n)) = n + LeaseOctets
<1> DEFINE y == Lease(n)
           s == x \o y
<1>1. y \in Leases /\ Len(y) = LeaseOctets /\ LeaseOctets \in Nat /\ \A i \in 1..LeaseOctets : y[i] = n + i
  BY BridgeAssumption DEF Lease, Leases
<1> HIDE DEF y
<1>2. /\ s \in Leases /\ Len(s) = n + LeaseOctets
      /\ \A i \in 1..(n + LeaseOctets) : s[i] = IF i <= n THEN x[i] ELSE y[i - n]
  BY ZenonT(60), <1>1, CatType, CatMember DEF Leases
<1>3. \A i \in 1..n : x[i] = i
  BY ZenonT(60) DEF Counting, FirstOctets
<1> HIDE DEF s
<1>4. \A i \in 1..(n + LeaseOctets) : s[i] = i
  <2> TAKE i \in 1..(n + LeaseOctets)
  <2>1. CASE i <= n
    <3>1. i \in 1..n
      BY <2>1, <1>1
    <3> QED BY ZenonT(60), <3>1, <2>1, <1>2, <1>3
  <2>2. CASE ~(i <= n)
    <3>1. i - n \in 1..LeaseOctets /\ n + (i - n) = i
      BY <2>2, <1>1
    <3> QED BY ZenonT(60), <3>1, <2>2, <1>1, <1>2
  <2> QED BY <2>1, <2>2
<1>5. s = [i \in 1..Len(s) |-> s[i]]
  BY <1>2 DEF Leases
<1>6. s = [i \in 1..Len(s) |-> i]
  BY ZenonT(60), <1>2, <1>4, <1>5
<1>7. Counting(s)
  BY ZenonT(60), <1>6 DEF Counting, FirstOctets
<1> QED BY ZenonT(60), <1>2, <1>7 DEF s, y

(* The octets in the inbox, as it takes a message and gives one. *)
Packed == Octets(Carried)

LEMMA CarriedType ==
  ASSUME NEW q \in Seq(Message)
  PROVE  [i \in DOMAIN q |-> q[i].lease] \in Seq(Leases)
<1>1. \A i \in 1..Len(q) : q[i] \in Message
  BY SMT
<1>2. \A i \in 1..Len(q) : q[i].lease \in Leases
  BY ZenonT(60), <1>1 DEF Message
<1>3. DOMAIN q = 1..Len(q) /\ Len(q) \in Nat
  BY SMT
<1> HIDE DEF Leases, Message
<1>4. [i \in 1..Len(q) |-> q[i].lease] \in [1..Len(q) -> Leases]
  BY ZenonT(60), <1>2
<1>5. [1..Len(q) -> Leases] \subseteq Seq(Leases)
  BY <1>3
<1> QED BY ZenonT(60), <1>3, <1>4, <1>5

LEMMA PackedType == IInv => Packed \in Leases
BY ZenonT(60), CarriedType, OctetsType DEF IInv, Shapes, Packed, Carried, Leases

LEMMA PackedSame == UNCHANGED inbox => Packed' = Packed
BY ZenonT(60) DEF Packed, Carried

LEMMA PackedPost ==
  ASSUME IInv, NEW m \in Message, inbox' = Append(inbox, m)
  PROVE  Packed' = Packed \o m.lease
<1>1. inbox \in Seq(Message)
  BY ZenonT(60) DEF IInv, Shapes
<1>2. Carried \in Seq(Leases) /\ m.lease \in Leases
  BY ZenonT(60), <1>1, CarriedType DEF Carried, Message
<1>3. Carried' = Append(Carried, m.lease)
  <2> HIDE DEF Message
  <2>1. Carried' = [i \in DOMAIN Append(inbox, m) |-> Append(inbox, m)[i].lease]
    BY ZenonT(60) DEF Carried
  <2>2. Carried = [i \in DOMAIN inbox |-> inbox[i].lease]
    BY ZenonT(60) DEF Carried
  <2> QED BY <1>1, <2>1, <2>2
<1> QED BY ZenonT(60), <1>2, <1>3, OctetsAppend DEF Packed, Leases

LEMMA PackedTake ==
  ASSUME IInv, inbox # Empty, inbox' = Tail(inbox)
  PROVE  Packed = Head(inbox).lease \o Packed' /\ Packed' \in Leases /\ Head(inbox) \in Message
<1>1. inbox \in Seq(Message) /\ inbox # << >>
  BY ZenonT(60) DEF IInv, Shapes, Empty
<1>2. Tail(inbox) \in Seq(Message) /\ Head(inbox) = inbox[1] /\ inbox[1] \in Message
  BY <1>1
<1>3. Carried \in Seq(Leases) /\ Carried' \in Seq(Leases)
  <2>1. inbox' \in Seq(Message)
    BY ZenonT(60), <1>2
  <2> QED BY ZenonT(60), <1>1, <2>1, CarriedType DEF Carried
<1>4. Carried # << >> /\ Head(Carried) = Head(inbox).lease /\ Tail(Carried) = Carried'
  <2> HIDE DEF Message
  <2>1. Carried' = [i \in DOMAIN Tail(inbox) |-> Tail(inbox)[i].lease]
    BY ZenonT(60) DEF Carried
  <2>2. Carried = [i \in DOMAIN inbox |-> inbox[i].lease]
    BY ZenonT(60) DEF Carried
  <2> QED BY <1>1, <2>1, <2>2
<1> QED BY ZenonT(60), <1>2, <1>3, <1>4, OctetsTail, OctetsType DEF Packed, Leases

-----------------------------------------------------------------------------
(* How the octets on their way change place.                                *)

(* Concatenation, as the steps below reason about it. *)
Cat(x, y) == x \o y

LEMMA CatIn == \A x, y \in Leases : Cat(x, y) \in Leases
BY ZenonT(60), CatType DEF Cat, Leases

LEMMA CatNone == \A x \in Leases : Cat(x, Empty) = x /\ Cat(Empty, x) = x
BY ZenonT(60), CatEmpty DEF Cat, Leases, Empty

LEMMA CatMoves == \A x, y, z \in Leases : Cat(Cat(x, y), z) = Cat(x, Cat(y, z))
BY ZenonT(60), CatAssoc DEF Cat, Leases

LEMMA CatFacts ==
  /\ Empty \in Leases
  /\ \A x, y \in Leases : Cat(x, y) \in Leases
  /\ \A x \in Leases : Cat(x, Empty) = x /\ Cat(Empty, x) = x
  /\ \A x, y, z \in Leases : Cat(Cat(x, y), z) = Cat(x, Cat(y, z))
BY ZenonT(60), CatIn, CatNone, CatMoves, EmptyLease

(* The octets of the connection, those deferred, those in the inbox, and    *)
(* those the shard, the session and the adapter hold.                       *)
Queue(w, u, d, p, s, r, a) == Cat(Cat(w, u), Cat(Cat(Cat(Cat(d, p), s), r), a))

LEMMA LineIs ==
  /\ Sent = Cat(flow.wire, flow.unsent) /\ Sent' = Cat(flow'.wire, flow'.unsent)
  /\ Line = Queue(flow.wire, flow.unsent, deferred, Packed, sh.lease, ses.pending, app.lease)
  /\ Line' = Queue(flow'.wire, flow'.unsent, deferred', Packed', sh'.lease, ses'.pending, app'.lease)
BY ZenonT(60) DEF Sent, Line, Waiting, Packed, Cat, Queue

LEMMA QueueType ==
  ASSUME NEW w \in Leases, NEW u \in Leases, NEW d \in Leases, NEW p \in Leases,
         NEW s \in Leases, NEW r \in Leases, NEW a \in Leases
  PROVE  /\ Cat(w, u) \in Leases /\ Queue(w, u, d, p, s, r, a) \in Leases
         /\ Queue(w, u, d, p, s, r, a) = Cat(Cat(w, u), Cat(Cat(Cat(Cat(d, p), s), r), a))
         /\ Cat(Cat(Cat(Cat(d, p), s), r), a) \in Leases
BY SMT, CatIn DEF Queue

(* A lease is handed on. *)
LEMMA QueueHand ==
  ASSUME NEW w \in Leases, NEW u \in Leases, NEW d \in Leases, NEW p \in Leases, NEW x \in Leases
  PROVE  /\ Queue(w, u, d, p, x, Empty, Empty) = Queue(w, u, d, Cat(p, x), Empty, Empty, Empty)
         /\ Queue(w, u, d, p, Empty, x, Empty) = Queue(w, u, d, Cat(p, x), Empty, Empty, Empty)
         /\ Queue(w, u, d, p, Empty, Empty, x) = Queue(w, u, d, Cat(p, x), Empty, Empty, Empty)
         /\ Queue(w, u, d, Cat(p, x), Empty, Empty, Empty) = Cat(Queue(w, u, d, p, Empty, Empty, Empty), x)
<1>1. Cat(d, p) \in Leases /\ Cat(d, Cat(p, x)) = Cat(Cat(d, p), x) /\ Cat(p, x) \in Leases
  BY SMT, CatFacts
<1>2. Queue(w, u, d, Cat(p, x), Empty, Empty, Empty) = Cat(Cat(w, u), Cat(Cat(d, p), x))
  BY SMT, <1>1, CatFacts DEF Queue
<1>3. Queue(w, u, d, p, Empty, Empty, Empty) = Cat(Cat(w, u), Cat(d, p))
  BY SMT, <1>1, CatFacts DEF Queue
<1>4. /\ Queue(w, u, d, p, x, Empty, Empty) = Cat(Cat(w, u), Cat(Cat(d, p), x))
      /\ Queue(w, u, d, p, Empty, x, Empty) = Cat(Cat(w, u), Cat(Cat(d, p), x))
      /\ Queue(w, u, d, p, Empty, Empty, x) = Cat(Cat(w, u), Cat(Cat(d, p), x))
  BY SMT, <1>1, CatFacts DEF Queue
<1>5. Cat(w, u) \in Leases /\ Cat(Cat(Cat(w, u), Cat(d, p)), x) = Cat(Cat(w, u), Cat(Cat(d, p), x))
  BY SMT, <1>1, CatFacts
<1> QED BY ZenonT(60), <1>2, <1>3, <1>4, <1>5

LEMMA QueueSend ==
  ASSUME NEW w \in Leases, NEW u \in Leases, NEW d, NEW p, NEW s, NEW r, NEW a
  PROVE  Queue(Cat(w, u), Empty, d, p, s, r, a) = Queue(w, u, d, p, s, r, a)
<1>1. Cat(Cat(w, u), Empty) = Cat(w, u)
  BY ZenonT(60), CatIn, CatNone
<1> QED BY ZenonT(60), <1>1 DEF Queue

LEMMA CountingCat ==
  ASSUME NEW x \in Leases, NEW y \in Leases, Counting(Cat(x, y))
  PROVE  Counting(x)
BY ZenonT(60), CountingPrefix DEF Cat

LEMMA RTypes ==
  ASSUME IInv, RInv
  PROVE  /\ flow.wire \in Leases /\ flow.unsent \in Leases /\ deferred \in Leases /\ Packed \in Leases
         /\ sh.lease \in Leases /\ ses.pending \in Leases /\ app.lease \in Leases
         /\ Sent \in Leases /\ Line \in Leases /\ remote.read \in Nat
<1>1. flow.wire \in Leases /\ flow.unsent \in Leases /\ deferred \in Leases
  BY ZenonT(60) DEF RInv, Bounds
<1>2. sh.lease \in Leases /\ ses.pending \in Leases /\ app.lease \in Leases /\ remote.read \in Nat
  BY ZenonT(60) DEF IInv, Shapes, AppState
<1>3. Packed \in Leases
  BY ZenonT(60), PackedType
<1>4. Sent \in Leases /\ Line \in Leases
  BY ZenonT(60), <1>1, <1>2, <1>3, QueueType, LineIs
<1> QED BY ZenonT(60), <1>1, <1>2, <1>3, <1>4

(* One of the shard, the session and the adapter holds a lease. *)
LEMMA Holders ==
  ASSUME IInv, RInv
  PROVE  /\ sh.pc \notin {"repost", "restore"} => sh.lease = Empty
         /\ ~remote.paused => ses.pending = Empty /\ sh.lease = Empty /\ sh.pc \notin Reposting
         /\ ~Carrying => app.lease = Empty
         /\ sh.pc \in {"repost", "restore"} => ses.pending = Empty /\ app.lease = Empty
         /\ ses.pending # Empty => app.lease = Empty /\ sh.lease = Empty
         /\ app.pc = "idle" => app.lease = Empty
         /\ Carrying => ses.pending = Empty /\ sh.lease = Empty /\ ~remote.paused /\ sh.pc \notin Reposting
BY ZenonT(60) DEF RInv, Handed, Carrying, Reposting

(* Nothing moves between the send buffer and what waits for it. *)
LEMMA KeptStep ==
  ASSUME IInv, RInv, Sent' = Sent, Open' => Open /\ Line' = Line /\ remote'.read = remote.read,
         ~ses'.closed => ~ses.closed
  PROVE  Ordered'
<1>1. Counting(Sent)'
  BY ZenonT(60) DEF RInv, Ordered, Counting, FirstOctets
<1>2. ASSUME Open' PROVE Counting(Line)' /\ (~ses'.closed => Len(Line)' = remote'.read)
  BY ZenonT(60), <1>2 DEF RInv, Ordered, Counting, FirstOctets
<1> QED BY ZenonT(60), <1>1, <1>2 DEF Ordered

(* The connection takes no more. *)
LEMMA ShutStep ==
  ASSUME IInv, RInv, ~Open', flow'.wire = flow.wire,
         flow'.unsent = flow.unsent \/ flow'.unsent = Empty
  PROVE  Ordered'
<1>1. CASE flow'.unsent = flow.unsent
  BY ZenonT(60), <1>1 DEF RInv, Ordered, Sent, Counting, FirstOctets
<1>2. CASE flow'.unsent = Empty
  <2>1. Sent' = flow.wire
    BY ZenonT(60), <1>2, RTypes, CatFacts, LineIs
  <2>2. Counting(flow.wire)
    BY ZenonT(60), RTypes, CountingPrefix DEF RInv, Ordered, Sent
  <2>3. Counting(Sent)'
    BY ZenonT(60), <2>1, <2>2 DEF Counting, FirstOctets
  <2> QED BY ZenonT(60), <2>3 DEF Ordered
<1> QED BY ZenonT(60), <1>1, <1>2

(* A closed session drops what is retained. *)
LEMMA DropStep ==
  ASSUME IInv, RInv, NEW x \in Leases, Line' \in Leases, Line = Cat(Line', x),
         Sent' = Sent, Open' => Open, ses'.closed
  PROVE  Ordered'
<1>1. Counting(Sent)'
  BY ZenonT(60) DEF RInv, Ordered, Counting, FirstOctets
<1>2. ASSUME Open' PROVE Counting(Line)'
  <2>1. Counting(Cat(Line', x))
    BY ZenonT(60), <1>2 DEF RInv, Ordered
  <2>2. Counting(Line')
    BY ZenonT(60), <2>1, CountingCat
  <2> QED BY ZenonT(60), <2>2 DEF Counting, FirstOctets
<1> QED BY ZenonT(60), <1>1, <1>2 DEF Ordered

-----------------------------------------------------------------------------
(* The adapter's steps. *)

(* What none of them changes. *)
LEMMA AdapterPlaced ==
  ASSUME RInv, UNCHANGED <<gate, flow, deferred, sh>>
  PROVE  Placed' /\ Sent' = Sent /\ (Open' <=> Open)
BY ZenonT(60) DEF RInv, Placed, Sent, Open

LEMMA AdapterBounds ==
  ASSUME RInv, UNCHANGED <<gate, flow, deferred, sh, popped>>,
         ses'.queue \in {ses.queue, 0}, inbox' = inbox
  PROVE  Bounds' /\ Packed' = Packed
<1>1. 0 \in 0..session_limit
  BY BridgeAssumption
<1>2. ses'.queue \in 0..session_limit
  BY ZenonT(60), <1>1 DEF RInv, Bounds
<1> QED BY ZenonT(60), <1>2, PackedSame DEF RInv, Bounds

(* A lease handed on, in the state at hand. *)
Hand(x, y, z) == Queue(flow.wire, flow.unsent, deferred, Packed, x, y, z)

LEMMA HandedOn ==
  ASSUME IInv, RInv, NEW x \in Leases
  PROVE  /\ Hand(Empty, Empty, Empty) \in Leases
         /\ Hand(x, Empty, Empty) = Cat(Hand(Empty, Empty, Empty), x)
         /\ Hand(Empty, x, Empty) = Cat(Hand(Empty, Empty, Empty), x)
         /\ Hand(Empty, Empty, x) = Cat(Hand(Empty, Empty, Empty), x)
         /\ Queue(flow.wire, flow.unsent, deferred, Cat(Packed, x), Empty, Empty, Empty)
               = Cat(Hand(Empty, Empty, Empty), x)
<1> DEFINE w == flow.wire
           u == flow.unsent
           d == deferred
           p == Packed
<1>1. w \in Leases /\ u \in Leases /\ d \in Leases /\ p \in Leases /\ Empty \in Leases
  BY ZenonT(60), RTypes, EmptyLease
<1> HIDE DEF w, u, d, p
<1>2. Queue(w, u, d, p, Empty, Empty, Empty) \in Leases
  BY SMT, <1>1, CatIn DEF Queue
<1>3. /\ Queue(w, u, d, p, x, Empty, Empty) = Cat(Queue(w, u, d, p, Empty, Empty, Empty), x)
      /\ Queue(w, u, d, p, Empty, x, Empty) = Cat(Queue(w, u, d, p, Empty, Empty, Empty), x)
      /\ Queue(w, u, d, p, Empty, Empty, x) = Cat(Queue(w, u, d, p, Empty, Empty, Empty), x)
      /\ Queue(w, u, d, Cat(p, x), Empty, Empty, Empty) = Cat(Queue(w, u, d, p, Empty, Empty, Empty), x)
  BY SMT, <1>1, QueueHand
<1> QED BY ZenonT(60), <1>2, <1>3 DEF Hand, w, u, d, p

LEMMA OnDataReceivedRInv == ASSUME IInv, RInv, OnDataReceived PROVE RInv'
<1>1. /\ ses'.queue = ses.queue /\ ses'.closed = ses.closed /\ ses'.pending = ses.pending
      /\ remote'.paused = remote.paused /\ remote'.read = remote.read + LeaseOctets
      /\ app' = [pc |-> "post", op |-> "data", lease |-> Lease(remote.read)]
      /\ ~remote.paused /\ ~ses.closed /\ app.pc = "idle"
  BY ZenonT(60) DEF OnDataReceived, IInv, Shapes, Enter
<1>2. Bounds' /\ Packed' = Packed
  BY ZenonT(60), <1>1, AdapterBounds DEF OnDataReceived
<1>3. Placed' /\ Sent' = Sent /\ (Open' <=> Open)
  BY ZenonT(60), AdapterPlaced DEF OnDataReceived
<1>4. ses.pending = Empty /\ sh.lease = Empty /\ app.lease = Empty /\ sh.pc \notin Reposting
  BY ZenonT(60), <1>1, Holders
<1>5. Handed'
  BY ZenonT(60), <1>1, <1>4 DEF Handed, Carrying, OnDataReceived, Reposting
<1>6. Ordered'
  <2> DEFINE x == Lease(remote.read)
  <2>1. x \in Leases /\ app'.lease = x
    BY ZenonT(60), <1>1, RTypes, LeaseType
  <2> HIDE DEF x
  <2>2. Line = Hand(Empty, Empty, Empty)
    BY ZenonT(60), <1>4, LineIs DEF Hand
  <2>3. Line' = Hand(Empty, Empty, x)
    BY ZenonT(60), <1>1, <1>2, <1>4, <2>1, LineIs DEF OnDataReceived, Hand
  <2>4. Line' = Cat(Line, x)
    BY ZenonT(60), <2>1, <2>2, <2>3, HandedOn
  <2>5. Counting(Sent)'
    BY ZenonT(60), <1>3 DEF RInv, Ordered, Counting, FirstOctets
  <2>6. ASSUME Open' PROVE Counting(Line)' /\ Len(Line)' = remote'.read
    <3>1. Counting(Line) /\ Len(Line) = remote.read
      BY ZenonT(60), <1>1, <1>3, <2>6 DEF RInv, Ordered
    <3>2. Counting(Line \o x) /\ Len(Line \o x) = remote.read + LeaseOctets
      BY ZenonT(60), <3>1, RTypes, CountingNext DEF x
    <3> QED BY ZenonT(60), <3>2, <2>4, <1>1 DEF Cat, Counting, FirstOctets
  <2> QED BY ZenonT(60), <2>5, <2>6 DEF Ordered
<1> QED BY ZenonT(60), <1>2, <1>3, <1>5, <1>6 DEF RInv

LEMMA OnClosedRInv == ASSUME IInv, RInv, NEW error, NEW abort, OnClosed(error, abort) PROVE RInv'
<1>1. /\ ses'.queue \in {ses.queue, 0} /\ ses'.closed /\ ses'.pending = Empty
      /\ remote'.paused = remote.paused /\ remote'.read = remote.read
      /\ app.pc = "idle"
  BY ZenonT(60) DEF OnClosed, IInv, Shapes
<1>a. (app'.lease = Empty /\ app'.op = "closed") \/ app' = app
  <2>1. app' = [pc |-> "post", op |-> "closed", lease |-> Empty] \/ app' = app
    BY ZenonT(60) DEF OnClosed, Enter
  <2> QED BY SMT, <2>1
<1>2. Bounds' /\ Packed' = Packed
  BY ZenonT(60), <1>1, AdapterBounds DEF OnClosed
<1>3. Placed' /\ Sent' = Sent /\ (Open' <=> Open)
  BY ZenonT(60), AdapterPlaced DEF OnClosed
<1>4. app.lease = Empty /\ app'.lease = Empty
  BY ZenonT(60), <1>1, <1>a, Holders
<1>5. Handed'
  BY ZenonT(60), <1>1, <1>a, <1>4 DEF Handed, Carrying, OnClosed, RInv
<1>6. Ordered'
  <2>1. CASE ses.pending = Empty
    <3>1. Line' = Line
      BY ZenonT(60), <2>1, <1>1, <1>2, <1>4, LineIs DEF OnClosed
    <3> QED BY ZenonT(60), <3>1, <1>1, <1>3, KeptStep
  <2>2. CASE ses.pending # Empty
    <3>1. sh.lease = Empty
      BY ZenonT(60), <2>2, Holders
    <3>2. Line = Hand(Empty, ses.pending, Empty)
      BY ZenonT(60), <3>1, <1>4, LineIs DEF Hand
    <3>3. Line' = Hand(Empty, Empty, Empty)
      BY ZenonT(60), <3>1, <1>1, <1>2, <1>4, LineIs DEF OnClosed, Hand
    <3>4. ses.pending \in Leases
      BY ZenonT(60), RTypes
    <3>5. Line' \in Leases
      BY ZenonT(60), <3>3, <3>4, HandedOn
    <3>6. Line = Cat(Line', ses.pending)
      BY ZenonT(60), <3>2, <3>3, <3>4, HandedOn
    <3> QED BY ZenonT(60), <3>4, <3>5, <3>6, <1>1, <1>3, DropStep
  <2> QED BY ZenonT(60), <2>1, <2>2
<1> QED BY ZenonT(60), <1>2, <1>3, <1>5, <1>6 DEF RInv

LEMMA DrainSendQueueRInv == ASSUME IInv, RInv, DrainSendQueue PROVE RInv'
<1>1. /\ ses'.queue = 0 /\ ses'.closed = ses.closed /\ ses'.pending = ses.pending
      /\ app.pc = "idle"
  BY ZenonT(60) DEF DrainSendQueue, IInv, Shapes
<1>a. (app'.lease = Empty /\ app'.op = "writable") \/ app' = app
  <2>1. app' = [pc |-> "post", op |-> "writable", lease |-> Empty] \/ app' = app
    BY ZenonT(60) DEF DrainSendQueue, Enter
  <2> QED BY SMT, <2>1
<1>2. Bounds' /\ Packed' = Packed
  BY ZenonT(60), <1>1, AdapterBounds DEF DrainSendQueue
<1>3. Placed' /\ Sent' = Sent /\ (Open' <=> Open)
  BY ZenonT(60), AdapterPlaced DEF DrainSendQueue
<1>4. app.lease = Empty /\ app'.lease = Empty
  BY ZenonT(60), <1>1, <1>a, Holders
<1>5. Handed'
  BY ZenonT(60), <1>1, <1>a, <1>4 DEF Handed, Carrying, DrainSendQueue, RInv
<1>6. Line' = Line
  BY ZenonT(60), <1>1, <1>2, <1>4, LineIs DEF DrainSendQueue
<1>7. Ordered'
  BY ZenonT(60), <1>1, <1>3, <1>6, KeptStep DEF DrainSendQueue
<1> QED BY ZenonT(60), <1>2, <1>3, <1>5, <1>7 DEF RInv

(* A message more in the inbox. *)
InboxBounds ==
    /\ Len(inbox) <= inbox_capacity
    /\ \A i \in DOMAIN inbox : inbox[i].type # "data" => inbox[i].lease = Empty

LEMMA PostBounds ==
  ASSUME IInv, RInv, NEW m \in Message, m.type # "data" => m.lease = Empty, ~Full, Push(m)
  PROVE  InboxBounds' /\ Packed' = Cat(Packed, m.lease)
<1>0. inbox \in Seq(Message) /\ inbox' = Append(inbox, m)
  BY ZenonT(60) DEF IInv, Shapes, Push
<1>1. Len(inbox') <= inbox_capacity
  BY <1>0, BridgeAssumption DEF Full
<1>2. \A i \in DOMAIN inbox' : inbox'[i] = m \/ (i \in DOMAIN inbox /\ inbox'[i] = inbox[i])
  <2> HIDE DEF Message
  <2> QED BY <1>0
<1>3. \A i \in DOMAIN inbox' : inbox'[i].type # "data" => inbox'[i].lease = Empty
  BY ZenonT(60), <1>2 DEF RInv, Bounds
<1>4. Packed' = Cat(Packed, m.lease)
  BY ZenonT(60), <1>0, PackedPost DEF Cat
<1> QED BY ZenonT(60), <1>1, <1>3, <1>4 DEF InboxBounds

LEMMA SameBounds ==
  ASSUME RInv, UNCHANGED inbox
  PROVE  InboxBounds' /\ Packed' = Packed
BY ZenonT(60), PackedSame DEF RInv, Bounds, InboxBounds

LEMMA PlainBounds ==
  ASSUME IInv, RInv, NEW t \in {"writable", "closed", "stop", "flowClose"}, ~Full, Push(Plain(t))
  PROVE  InboxBounds' /\ Packed' = Packed
<1>1. Plain(t) \in Message /\ Plain(t).lease = Empty
  BY EmptyLease DEF Plain, Message
<1>2. InboxBounds' /\ Packed' = Cat(Packed, Empty)
  BY ZenonT(60), <1>1, PostBounds
<1> QED BY ZenonT(60), <1>2, RTypes, CatNone

LEMMA TryPlainBounds ==
  ASSUME IInv, RInv, NEW t \in {"writable", "closed", "stop", "flowClose"}, TryPost(Plain(t))
  PROVE  InboxBounds' /\ Packed' = Packed
BY ZenonT(60), PlainBounds, SameBounds DEF TryPost

LEMMA CallbackBounds ==
  ASSUME RInv, UNCHANGED <<gate, flow, deferred, sh, popped>>, ses'.queue = ses.queue, InboxBounds'
  PROVE  Bounds'
BY ZenonT(60) DEF RInv, Bounds, InboxBounds

LEMMA AppPostRInv == ASSUME IInv, RInv, AppPost PROVE RInv'
<1>0. app \in AppState /\ app.pc = "post" /\ app.op \in AllCallbacks /\ (app.op # "data" => app.lease = Empty)
  BY ZenonT(60) DEF IInv, Shapes, Doing, AppPost, AppState
<1>1. Placed' /\ Sent' = Sent /\ (Open' <=> Open)
  BY ZenonT(60), AdapterPlaced DEF AppPost
<1>2. CASE app.op # "data"
  <2>1. app.op \in {"writable", "closed", "stop", "flowClose"} /\ TryPost(Plain(app.op))
    BY ZenonT(60), <1>0, <1>2 DEF AppPost, AllCallbacks
  <2>2. InboxBounds' /\ Packed' = Packed
    BY ZenonT(60), <2>1, TryPlainBounds
  <2>3. Bounds'
    BY ZenonT(60), <2>2, CallbackBounds DEF AppPost
  <2>4. app'.op = app.op /\ app'.lease = app.lease
    BY <1>0, <1>2 DEF AppPost, AppState
  <2>5. Handed'
    BY ZenonT(60), <1>0, <1>2, <2>4 DEF RInv, Handed, Carrying, AppPost
  <2>6. Line' = Line
    BY ZenonT(60), <2>2, <2>4, LineIs DEF AppPost
  <2>7. Ordered'
    BY ZenonT(60), <1>1, <2>6, KeptStep DEF AppPost
  <2> QED BY ZenonT(60), <1>1, <2>3, <2>5, <2>7 DEF RInv
<1>3. CASE app.op = "data" /\ Posted
  <2>1. /\ Data(app.lease) \in Message /\ Data(app.lease).lease = app.lease /\ Data(app.lease).type = "data"
    BY <1>0 DEF Data, Message, AppState
  <2>2. InboxBounds' /\ Packed' = Cat(Packed, app.lease)
    BY ZenonT(60), <1>3, <2>1, PostBounds DEF AppPost, TryPost, Posted
  <2>3. Bounds'
    BY ZenonT(60), <2>2, CallbackBounds DEF AppPost
  <2>4. app'.pc = "finish" /\ app'.lease = Empty
    BY <1>0, <1>3 DEF AppPost, AppState
  <2>5. Carrying /\ sh.lease = Empty /\ ses.pending = Empty
    BY ZenonT(60), <1>0, <1>3, Holders DEF Carrying
  <2>6. Handed'
    BY ZenonT(60), <2>4 DEF RInv, Handed, Carrying, AppPost
  <2>7. Line = Hand(Empty, Empty, app.lease)
    BY ZenonT(60), <2>5, LineIs DEF Hand
  <2>8. Line' = Queue(flow.wire, flow.unsent, deferred, Cat(Packed, app.lease), Empty, Empty, Empty)
    BY ZenonT(60), <2>2, <2>4, <2>5, LineIs DEF AppPost
  <2>9. Line' = Line
    BY ZenonT(60), <2>7, <2>8, RTypes, HandedOn
  <2>10. Ordered'
    BY ZenonT(60), <1>1, <2>9, KeptStep DEF AppPost
  <2> QED BY ZenonT(60), <1>1, <2>3, <2>6, <2>10 DEF RInv
<1>4. CASE app.op = "data" /\ ~Posted
  <2>1. InboxBounds' /\ Packed' = Packed
    BY ZenonT(60), <1>4, SameBounds DEF AppPost, TryPost, Posted
  <2>2. Bounds'
    BY ZenonT(60), <2>1, CallbackBounds DEF AppPost
  <2>3. app'.pc = "isActive" /\ app'.op = app.op /\ app'.lease = app.lease
    BY <1>0, <1>4 DEF AppPost, AppState
  <2>4. Handed'
    BY ZenonT(60), <1>0, <1>4, <2>3 DEF RInv, Handed, Carrying, AppPost
  <2>5. Line' = Line
    BY ZenonT(60), <2>1, <2>3, LineIs DEF AppPost
  <2>6. Ordered'
    BY ZenonT(60), <1>1, <2>5, KeptStep DEF AppPost
  <2> QED BY ZenonT(60), <1>1, <2>2, <2>4, <2>6 DEF RInv
<1> QED BY ZenonT(60), <1>2, <1>3, <1>4

LEMMA AppIsActiveRInv == ASSUME IInv, RInv, AppIsActive PROVE RInv'
<1>0. app \in AppState /\ app.pc = "isActive" /\ app.op = "data"
  BY ZenonT(60) DEF IInv, Shapes, Doing, AppIsActive
<1>1. Placed' /\ Sent' = Sent /\ (Open' <=> Open)
  BY ZenonT(60), AdapterPlaced DEF AppIsActive
<1>2. InboxBounds' /\ Packed' = Packed
  BY ZenonT(60), SameBounds DEF AppIsActive
<1>3. Bounds'
  BY ZenonT(60), <1>2, CallbackBounds DEF AppIsActive
<1>4. CASE gate.active
  <2>1. app'.pc = "store" /\ app'.op = app.op /\ app'.lease = app.lease
    BY <1>0, <1>4 DEF AppIsActive, AppState
  <2>2. Handed'
    BY ZenonT(60), <1>0, <2>1 DEF RInv, Handed, Carrying, AppIsActive
  <2>3. Line' = Line
    BY ZenonT(60), <1>2, <2>1, LineIs DEF AppIsActive
  <2>4. Ordered'
    BY ZenonT(60), <1>1, <2>3, KeptStep DEF AppIsActive
  <2> QED BY ZenonT(60), <1>1, <1>3, <2>2, <2>4 DEF RInv
<1>5. CASE ~gate.active
  <2>1. app'.pc = "finish" /\ app'.lease = Empty
    BY <1>0, <1>5 DEF AppIsActive, AppState
  <2>2. Handed'
    BY ZenonT(60), <2>1 DEF RInv, Handed, Carrying, AppIsActive
  <2>3. Ordered'
    BY ZenonT(60), <1>5, ShutStep DEF AppIsActive, Open
  <2> QED BY ZenonT(60), <1>1, <1>3, <2>2, <2>3 DEF RInv
<1> QED BY ZenonT(60), <1>4, <1>5

(* A lease goes back to the session, which keeps it unless it is closed.    *)
LEMMA ReturnStep ==
  ASSUME IInv, RInv, NEW x \in Leases, Line = Cat(Hand(Empty, Empty, Empty), x),
         Line' = Hand(Empty, IF ses.closed THEN Empty ELSE x, Empty),
         Sent' = Sent, Open' <=> Open, ses'.closed = ses.closed, remote'.read = remote.read
  PROVE  Ordered'
<1>1. CASE ses.closed
  <2>1. Line' = Hand(Empty, Empty, Empty)
    BY ZenonT(60), <1>1
  <2>2. Line' \in Leases
    BY ZenonT(60), <2>1, HandedOn
  <2>3. Line = Cat(Line', x)
    BY ZenonT(60), <2>1
  <2> QED BY ZenonT(60), <1>1, <2>2, <2>3, DropStep
<1>2. CASE ~ses.closed
  <2>1. Line' = Line
    BY ZenonT(60), <1>2, HandedOn
  <2> QED BY ZenonT(60), <2>1, KeptStep
<1> QED BY ZenonT(60), <1>1, <1>2

LEMMA AppStoreRInv == ASSUME IInv, RInv, AppStore PROVE RInv'
<1>0. app \in AppState /\ app.pc = "store" /\ app.op = "data" /\ app.lease \in Leases
  BY ZenonT(60) DEF IInv, Shapes, Doing, AppStore, AppState
<1>1. Placed' /\ Sent' = Sent /\ (Open' <=> Open)
  BY ZenonT(60), AdapterPlaced DEF AppStore
<1>2. InboxBounds' /\ Packed' = Packed
  BY ZenonT(60), SameBounds DEF AppStore
<1>3. Carrying /\ sh.lease = Empty /\ ses.pending = Empty /\ sh.pc \notin Reposting
  BY ZenonT(60), <1>0, Holders DEF Carrying
<1>4. /\ ses'.queue = ses.queue /\ ses'.closed = ses.closed /\ remote'.read = remote.read /\ remote'.paused
      /\ ses'.pending = IF ses.closed THEN Empty ELSE app.lease
  BY ZenonT(60), <1>3 DEF AppStore, IInv, Shapes
<1>5. app'.pc = "finish" /\ app'.lease = Empty
  BY <1>0 DEF AppStore, AppState
<1>6. Bounds'
  BY ZenonT(60), <1>2, <1>4, CallbackBounds DEF AppStore
<1>7. Handed'
  BY ZenonT(60), <1>3, <1>4, <1>5 DEF Handed, Carrying, Reposting, AppStore
<1>8. Line = Hand(Empty, Empty, app.lease)
  BY ZenonT(60), <1>3, LineIs DEF Hand
<1>9. Line = Cat(Hand(Empty, Empty, Empty), app.lease)
  BY ZenonT(60), <1>0, <1>8, HandedOn
<1>10. Line' = Hand(Empty, IF ses.closed THEN Empty ELSE app.lease, Empty)
  BY ZenonT(60), <1>2, <1>3, <1>4, <1>5, LineIs DEF AppStore, Hand
<1>11. Ordered'
  BY ZenonT(60), <1>0, <1>1, <1>4, <1>9, <1>10, ReturnStep
<1> QED BY ZenonT(60), <1>1, <1>6, <1>7, <1>11 DEF RInv

LEMMA AppFinishRInv == ASSUME IInv, RInv, AppFinish PROVE RInv'
<1>1. Placed' /\ Sent' = Sent /\ (Open' <=> Open)
  BY ZenonT(60), AdapterPlaced DEF AppFinish
<1>2. InboxBounds' /\ Packed' = Packed
  BY ZenonT(60), SameBounds DEF AppFinish
<1>3. /\ ses'.queue = ses.queue /\ ses'.closed = ses.closed /\ ses'.pending = ses.pending
      /\ app.pc = "finish"
  BY ZenonT(60) DEF AppFinish, IInv, Shapes
<1>4. app'.op = "none" /\ app'.lease = Empty /\ app.lease = Empty
  <2>1. app.lease = Empty
    BY ZenonT(60), <1>3, Holders DEF Carrying
  <2> QED BY <2>1 DEF AppFinish, Idle
<1>5. Bounds'
  BY ZenonT(60), <1>2, <1>3, CallbackBounds DEF AppFinish
<1>6. Handed'
  BY ZenonT(60), <1>3, <1>4 DEF RInv, Handed, Carrying, AppFinish
<1>7. Line' = Line
  BY ZenonT(60), <1>2, <1>3, <1>4, LineIs DEF AppFinish
<1>8. Ordered'
  BY ZenonT(60), <1>1, <1>3, <1>7, KeptStep DEF AppFinish
<1> QED BY ZenonT(60), <1>1, <1>5, <1>6, <1>8 DEF RInv

LEMMA PushRInv ==
  ASSUME IInv, RInv, InboxBounds', Packed' = Packed, UNCHANGED <<ses, gate, flow, deferred, sh, app, remote, popped>>
  PROVE  RInv'
<1>1. Placed' /\ Sent' = Sent /\ (Open' <=> Open)
  BY ZenonT(60), AdapterPlaced
<1>2. Bounds' /\ Handed'
  BY ZenonT(60), CallbackBounds DEF RInv, Handed, Carrying
<1>3. Line' = Line
  BY ZenonT(60), LineIs
<1>4. Ordered'
  BY ZenonT(60), <1>1, <1>3, KeptStep
<1> QED BY ZenonT(60), <1>1, <1>2, <1>4 DEF RInv

LEMMA StopRInv == ASSUME IInv, RInv, Stop PROVE RInv'
<1>1. InboxBounds' /\ Packed' = Packed
  BY ZenonT(60), SameBounds, PlainBounds DEF Stop
<1> QED BY ZenonT(60), <1>1, PushRInv DEF Stop

LEMMA PostFlowCloseRInv == ASSUME IInv, RInv, PostFlowClose PROVE RInv'
<1>1. InboxBounds' /\ Packed' = Packed
  BY ZenonT(60), PlainBounds DEF PostFlowClose
<1> QED BY ZenonT(60), <1>1, PushRInv DEF PostFlowClose

LEMMA StutterRInv == ASSUME IInv, RInv, UNCHANGED vars PROVE RInv'
<1>1. InboxBounds' /\ Packed' = Packed
  BY ZenonT(60), SameBounds DEF vars
<1> QED BY ZenonT(60), <1>1, PushRInv DEF vars

-----------------------------------------------------------------------------
(* The shard's steps with a lease, and RemoveAt. *)

LEMMA ShardBounds ==
  ASSUME RInv, UNCHANGED <<gate, flow, deferred, popped>>, ses'.queue = ses.queue, InboxBounds',
         gate.held => sh'.pc \in Removing
  PROVE  Bounds' /\ Sent' = Sent /\ (Open' <=> Open)
BY ZenonT(60) DEF RInv, Bounds, InboxBounds, Sent, Open

LEMMA NotHeld ==
  ASSUME RInv, sh.pc \notin Removing
  PROVE  gate.held => FALSE
BY ZenonT(60) DEF RInv, Bounds

LEMMA ResumeRInv == ASSUME IInv, RInv, Resume PROVE RInv'
<1>1. InboxBounds' /\ Packed' = Packed
  BY ZenonT(60), SameBounds DEF Resume
<1>2. sh.pc = "resume" /\ ses'.queue = ses.queue /\ ses'.closed = ses.closed
  BY ZenonT(60) DEF Resume, IInv, Shapes
<1>3. Bounds' /\ Sent' = Sent /\ (Open' <=> Open)
  BY ZenonT(60), <1>1, <1>2, NotHeld, ShardBounds DEF Resume, Removing
<1>4. gate.active /\ sh.lease = Empty
  BY ZenonT(60), <1>2, Holders DEF RInv, Placed, Removing
<1>5. CASE ses'.pending = Empty /\ sh'.pc = "repost" /\ sh'.lease = ses.pending /\ ses.pending # Empty
  <2>1. remote.paused /\ app.lease = Empty /\ ~Carrying
    BY ZenonT(60), <1>5, Holders DEF RInv, Handed
  <2>2. Handed' /\ Placed'
    BY ZenonT(60), <1>4, <1>5, <2>1 DEF Handed, Placed, Carrying, Resume, Removing, Reposting
  <2>3. Line = Hand(Empty, ses.pending, Empty) /\ Line' = Hand(ses.pending, Empty, Empty)
    BY ZenonT(60), <1>1, <1>4, <1>5, <2>1, LineIs DEF Hand, Resume
  <2>4. Line' = Line
    BY ZenonT(60), <2>3, RTypes, HandedOn
  <2>5. Ordered'
    BY ZenonT(60), <1>2, <1>3, <2>4, KeptStep DEF Resume
  <2> QED BY ZenonT(60), <1>3, <2>2, <2>5 DEF RInv
<1>6. CASE ses' = ses /\ sh'.pc = "rx" /\ sh'.lease = sh.lease
  <2>1. Handed' /\ Placed'
    BY ZenonT(60), <1>2, <1>4, <1>6 DEF RInv, Handed, Placed, Carrying, Resume, Removing, Reposting
  <2>2. Line' = Line
    BY ZenonT(60), <1>1, <1>6, LineIs DEF Resume
  <2>3. Ordered'
    BY ZenonT(60), <1>2, <1>3, <2>2, KeptStep DEF Resume
  <2> QED BY ZenonT(60), <1>3, <2>1, <2>3 DEF RInv
<1> QED BY ZenonT(60), <1>5, <1>6 DEF Resume, Goto, IInv, Shapes

LEMMA RepostRInv == ASSUME IInv, RInv, Repost PROVE RInv'
<1>1. sh.pc = "repost" /\ sh.lease \in Leases /\ ses.pending = Empty /\ app.lease = Empty /\ remote.paused /\ ~Carrying
  BY ZenonT(60), RTypes, Holders DEF Repost, RInv, Handed, Reposting
<1>2. gate.active
  BY ZenonT(60), <1>1 DEF RInv, Placed, Removing
<1>3. CASE Posted
  <2>1. Data(sh.lease) \in Message /\ Data(sh.lease).lease = sh.lease /\ Data(sh.lease).type = "data"
    BY <1>1 DEF Data, Message
  <2>2. InboxBounds' /\ Packed' = Cat(Packed, sh.lease)
    BY ZenonT(60), <1>3, <2>1, PostBounds DEF Repost, TryPost, Posted
  <2>3. sh'.pc = "resumed" /\ sh'.lease = Empty
    BY ZenonT(60), <1>3 DEF Repost, IInv, Shapes
  <2>4. Bounds' /\ Sent' = Sent /\ (Open' <=> Open)
    BY ZenonT(60), <1>1, <2>2, NotHeld, ShardBounds DEF Repost, Removing
  <2>5. Handed' /\ Placed'
    BY ZenonT(60), <1>1, <1>2, <2>3 DEF Handed, Placed, Carrying, Repost, Removing
  <2>6. Line = Hand(sh.lease, Empty, Empty)
    BY ZenonT(60), <1>1, LineIs DEF Hand
  <2>7. Line' = Queue(flow.wire, flow.unsent, deferred, Cat(Packed, sh.lease), Empty, Empty, Empty)
    BY ZenonT(60), <1>1, <2>2, <2>3, LineIs DEF Repost
  <2>8. Line' = Line
    BY ZenonT(60), <1>1, <2>6, <2>7, HandedOn
  <2>9. Ordered'
    BY ZenonT(60), <2>4, <2>8, KeptStep DEF Repost
  <2> QED BY ZenonT(60), <2>4, <2>5, <2>9 DEF RInv
<1>4. CASE ~Posted
  <2>1. InboxBounds' /\ Packed' = Packed
    BY ZenonT(60), <1>4, SameBounds DEF Repost, TryPost, Posted
  <2>2. sh'.pc = "restore" /\ sh'.lease = sh.lease
    BY ZenonT(60), <1>4 DEF Repost, IInv, Shapes
  <2>3. Bounds' /\ Sent' = Sent /\ (Open' <=> Open)
    BY ZenonT(60), <1>1, <2>1, NotHeld, ShardBounds DEF Repost, Removing
  <2>4. Handed' /\ Placed'
    BY ZenonT(60), <1>1, <1>2, <2>2 DEF Handed, Placed, Carrying, Repost, Removing
  <2>5. Line' = Line
    BY ZenonT(60), <2>1, <2>2, LineIs DEF Repost
  <2>6. Ordered'
    BY ZenonT(60), <2>3, <2>5, KeptStep DEF Repost
  <2> QED BY ZenonT(60), <2>3, <2>4, <2>6 DEF RInv
<1> QED BY ZenonT(60), <1>3, <1>4

LEMMA RestoreRInv == ASSUME IInv, RInv, Restore PROVE RInv'
<1>1. sh.pc = "restore" /\ sh.lease \in Leases /\ ses.pending = Empty /\ app.lease = Empty /\ remote.paused /\ ~Carrying
  BY ZenonT(60), RTypes, Holders DEF Restore, RInv, Handed, Reposting
<1>2. gate.active
  BY ZenonT(60), <1>1 DEF RInv, Placed, Removing
<1>3. InboxBounds' /\ Packed' = Packed
  BY ZenonT(60), SameBounds DEF Restore
<1>4. /\ ses'.queue = ses.queue /\ ses'.closed = ses.closed
      /\ ses'.pending = IF ses.closed THEN Empty ELSE sh.lease
      /\ sh'.pc = "resumed" /\ sh'.lease = Empty
  BY ZenonT(60), <1>1 DEF Restore, IInv, Shapes
<1>5. Bounds' /\ Sent' = Sent /\ (Open' <=> Open)
  BY ZenonT(60), <1>1, <1>3, <1>4, NotHeld, ShardBounds DEF Restore, Removing
<1>6. Handed' /\ Placed'
  BY ZenonT(60), <1>1, <1>2, <1>4 DEF Handed, Placed, Carrying, Restore, Removing
<1>7. Line = Hand(sh.lease, Empty, Empty)
  BY ZenonT(60), <1>1, LineIs DEF Hand
<1>8. Line = Cat(Hand(Empty, Empty, Empty), sh.lease)
  BY ZenonT(60), <1>1, <1>7, HandedOn
<1>9. Line' = Hand(Empty, IF ses.closed THEN Empty ELSE sh.lease, Empty)
  BY ZenonT(60), <1>1, <1>3, <1>4, LineIs DEF Restore, Hand
<1>10. Ordered'
  BY ZenonT(60), <1>1, <1>4, <1>5, <1>8, <1>9, ReturnStep DEF Restore
<1> QED BY ZenonT(60), <1>5, <1>6, <1>10 DEF RInv

LEMMA ResumedRInv == ASSUME IInv, RInv, Resumed PROVE RInv'
<1>1. sh.pc = "resumed" /\ remote.paused /\ ~Carrying /\ sh.lease = Empty
  BY ZenonT(60), Holders DEF Resumed, RInv, Handed, Reposting
<1>2. gate.active
  BY ZenonT(60), <1>1 DEF RInv, Placed, Removing
<1>3. InboxBounds' /\ Packed' = Packed
  BY ZenonT(60), SameBounds DEF Resumed
<1>4. /\ ses'.queue = ses.queue /\ ses'.closed = ses.closed /\ ses'.pending = ses.pending
      /\ remote'.read = remote.read /\ remote'.paused = (ses.pending # Empty)
      /\ sh'.pc = "rx" /\ sh'.lease = sh.lease
  BY ZenonT(60) DEF Resumed, Goto, IInv, Shapes
<1>5. Bounds' /\ Sent' = Sent /\ (Open' <=> Open)
  BY ZenonT(60), <1>1, <1>3, <1>4, NotHeld, ShardBounds DEF Resumed, Removing
<1>6. Handed' /\ Placed'
  BY ZenonT(60), <1>1, <1>2, <1>4 DEF RInv, Handed, Placed, Carrying, Resumed, Removing, Reposting
<1>7. Line' = Line
  BY ZenonT(60), <1>3, <1>4, LineIs DEF Resumed
<1>8. Ordered'
  BY ZenonT(60), <1>4, <1>5, <1>7, KeptStep DEF Resumed
<1> QED BY ZenonT(60), <1>5, <1>6, <1>8 DEF RInv

(* RemoveAt begins, or has no callbacks to clear: the connection takes no   *)
(* more either way.                                                         *)
LEMMA RemoveRInv ==
  ASSUME IInv, RInv, NEW f, NEW after \in Afters, RemoveAt(f, after), sh.pc \in Loop \cup {"exit"},
         DOMAIN f = DOMAIN flow, f.wire = flow.wire, f.unsent = flow.unsent, f.ready = flow.ready,
         f.state \notin Live \/ ~f.session \/ ~gate'.active, gate'.held => f.session, ~gate'.active <=> after = "release",
         after = "control" => ~f.session /\ deferred = Empty,
         InboxBounds', popped' \in 0..kControlInboxBudget, UNCHANGED <<ses, deferred, app, remote>>
  PROVE  RInv'
<1>1. /\ sh'.lease = sh.lease
      /\ \/ f.session /\ flow' = f /\ sh'.pc = "clear" /\ sh'.after = after
         \/ ~f.session /\ flow' = [f EXCEPT !.state = "gone", !.unsent = Empty] /\ sh'.pc = after
  BY ZenonT(60) DEF RemoveAt, IInv, Shapes
<1>2. /\ flow'.wire = flow.wire /\ flow'.ready = flow.ready
      /\ flow'.unsent = flow.unsent \/ flow'.unsent = Empty
      /\ (f.session /\ flow'.state = f.state) \/ flow'.state = "gone"
  BY ZenonT(60), <1>1 DEF IInv, Shapes
<1>3. Len(flow'.unsent) <= send_limit
  <2>1. Len(Empty) <= send_limit
    BY BridgeAssumption DEF Empty
  <2> QED BY ZenonT(60), <1>2, <2>1 DEF RInv, Bounds
<1>4. Bounds'
  BY ZenonT(60), <1>1, <1>2, <1>3, EmptyLease DEF RInv, Bounds, InboxBounds, Removing
<1>5. sh.pc \notin Reposting /\ sh'.pc \notin Reposting /\ sh.lease = Empty
  BY ZenonT(60), <1>1, Holders DEF Loop, Afters, Reposting
<1>6. Handed'
  BY ZenonT(60), <1>1, <1>5 DEF RInv, Handed, Carrying, Reposting
<1>7. Placed'
  BY ZenonT(60), <1>1, <1>2 DEF Placed, Removing, Afters, Live
<1>8. ~Open'
  BY ZenonT(60), <1>1, <1>2 DEF Open, Live
<1>9. Ordered'
  BY ZenonT(60), <1>2, <1>8, ShutStep
<1> QED BY ZenonT(60), <1>4, <1>6, <1>7, <1>9 DEF RInv

LEMMA ExitRInv == ASSUME IInv, RInv, Exit PROVE RInv'
<1>1. InboxBounds' /\ Packed' = Packed
  BY ZenonT(60), SameBounds DEF Exit
<1>2. sh.pc = "exit" /\ ~gate'.active /\ ~gate'.held /\ sh.lease = Empty
  BY ZenonT(60), Holders DEF Exit, IInv, Shapes
<1>3. popped' \in 0..kControlInboxBudget
  BY ZenonT(60) DEF Exit, RInv, Bounds
<1>4. CASE flow.state = "gone"
  <2>1. sh'.pc = "release" /\ sh'.lease = Empty /\ flow' = flow
    BY ZenonT(60), <1>2, <1>4 DEF Exit, Goto, IInv, Shapes
  <2>2. Bounds'
    BY ZenonT(60), <1>1, <1>2, <2>1 DEF Exit, RInv, Bounds, InboxBounds
  <2>3. Handed' /\ Placed'
    BY ZenonT(60), <1>2, <2>1 DEF Exit, RInv, Handed, Placed, Carrying, Reposting, Removing
  <2>4. Ordered'
    BY ZenonT(60), <1>2, <2>1, ShutStep DEF Open
  <2> QED BY ZenonT(60), <2>2, <2>3, <2>4 DEF RInv
<1>5. CASE flow.state # "gone"
  <2>1. RemoveAt(flow, "release") /\ UNCHANGED <<ses, deferred, app, remote>>
    BY ZenonT(60), <1>5 DEF Exit
  <2> QED BY ZenonT(60), <1>1, <1>2, <1>3, <2>1, RemoveRInv DEF Afters
<1> QED BY ZenonT(60), <1>4, <1>5

LEMMA ClearRInv == ASSUME IInv, RInv, Clear PROVE RInv'
<1>1. InboxBounds' /\ Packed' = Packed
  BY ZenonT(60), SameBounds DEF Clear
<1>2. /\ sh.pc = "clear" /\ sh'.pc = "wait" /\ sh'.lease = sh.lease /\ sh'.after = sh.after
      /\ ses'.queue = ses.queue /\ ses'.closed = ses.closed /\ ses'.pending = ses.pending
  BY ZenonT(60) DEF Clear, Goto, IInv, Shapes
<1>3. Bounds' /\ Sent' = Sent /\ (Open' <=> Open)
  BY ZenonT(60), <1>1, <1>2, ShardBounds DEF Clear, Removing
<1>4. Handed' /\ Placed'
  BY ZenonT(60), <1>2 DEF Clear, RInv, Handed, Placed, Carrying, Reposting, Removing
<1>5. Line' = Line
  BY ZenonT(60), <1>1, <1>2, LineIs DEF Clear
<1>6. Ordered'
  BY ZenonT(60), <1>2, <1>3, <1>5, KeptStep DEF Clear
<1> QED BY ZenonT(60), <1>3, <1>4, <1>6 DEF RInv

LEMMA WaitRInv == ASSUME IInv, RInv, Wait PROVE RInv'
<1>1. InboxBounds' /\ Packed' = Packed
  BY ZenonT(60), SameBounds DEF Wait
<1>2. /\ sh.pc = "wait" /\ ses'.queue = ses.queue /\ ses'.closed = ses.closed
      /\ ses'.pending = ses.pending \/ ses'.pending = Empty
  BY ZenonT(60) DEF Wait, IInv, Shapes
<1>3. /\ sh.lease = Empty /\ sh.after \in Afters \ {"control"} /\ (~gate.active \/ flow.state \notin Live)
      /\ ~gate.active => sh.after = "release"
  BY ZenonT(60), <1>2, Holders DEF RInv, Placed, IInv, Progress, Removing, Afters
<1>4. CASE sh'.pc = "clear" /\ sh'.lease = sh.lease /\ sh'.after = sh.after /\ UNCHANGED <<flow, gate>>
  <2>1. Bounds' /\ Sent' = Sent /\ (Open' <=> Open)
    BY ZenonT(60), <1>1, <1>2, <1>4, ShardBounds DEF Wait, Removing
  <2>2. Handed' /\ Placed'
    BY ZenonT(60), <1>2, <1>3, <1>4 DEF Wait, RInv, Handed, Placed, Carrying, Reposting, Removing
  <2>3. Ordered'
    BY ZenonT(60), <1>3, <1>4, ShutStep DEF Open
  <2> QED BY ZenonT(60), <2>1, <2>2, <2>3 DEF RInv
<1>5. CASE /\ sh'.pc = sh.after /\ sh'.lease = sh.lease
           /\ flow' = [flow EXCEPT !.session = FALSE, !.state = "gone", !.unsent = Empty]
           /\ gate' = [gate EXCEPT !.held = FALSE]
  <2>1. /\ flow'.state = "gone" /\ flow'.unsent = Empty /\ flow'.wire = flow.wire /\ flow'.ready = flow.ready
        /\ ~gate'.held /\ gate'.active = gate.active
    BY ZenonT(60), <1>5 DEF IInv, Shapes
  <2>2. Len(flow'.unsent) <= send_limit
    BY <2>1, BridgeAssumption DEF Empty
  <2>3. Bounds'
    BY ZenonT(60), <1>1, <1>2, <2>1, <2>2, EmptyLease DEF Wait, RInv, Bounds, InboxBounds
  <2>4. Handed' /\ Placed'
    BY ZenonT(60), <1>2, <1>3, <1>5, <2>1 DEF Wait, RInv, Handed, Placed, Carrying, Reposting, Removing, Afters, Live
  <2>5. Ordered'
    BY ZenonT(60), <2>1, ShutStep DEF Open, Live
  <2> QED BY ZenonT(60), <2>3, <2>4, <2>5 DEF RInv
<1>6. \/ sh' = [sh EXCEPT !.pc = "clear", !.clearing = Tail(@)] /\ UNCHANGED <<flow, gate>>
      \/ /\ sh' = [sh EXCEPT !.pc = sh.after, !.clearing = Empty]
         /\ flow' = [flow EXCEPT !.session = FALSE, !.state = "gone", !.unsent = Empty]
         /\ gate' = [gate EXCEPT !.held = FALSE]
  BY ZenonT(60) DEF Wait
<1> QED BY ZenonT(60), <1>4, <1>5, <1>6 DEF IInv, Shapes

LEMMA ReleaseRInv == ASSUME IInv, RInv, Release PROVE RInv'
<1>1. sh.pc = "release" /\ sh'.pc = "exited" /\ sh'.lease = sh.lease /\ ~gate.active /\ sh.lease = Empty
  BY ZenonT(60), Holders DEF Release, Goto, IInv, Shapes, Ended
<1>2. InboxBounds'
  BY BridgeAssumption DEF InboxBounds, Release, Empty
<1>3. Bounds'
  BY ZenonT(60), <1>1, <1>2, NotHeld, EmptyLease DEF Release, RInv, Bounds, InboxBounds, Removing
<1>4. Handed' /\ Placed'
  BY ZenonT(60), <1>1 DEF Release, RInv, Handed, Placed, Carrying, Reposting, Removing
<1>5. Ordered'
  BY ZenonT(60), <1>1, ShutStep DEF Open, Release
<1> QED BY ZenonT(60), <1>3, <1>4, <1>5 DEF RInv

-----------------------------------------------------------------------------
(* The shard's loop. *)

(* What a turn of the loop leaves: the leases where they are, the gate, and *)
(* the bounds of what it changes.                                           *)
FlowBounds(f) == f.wire \in Leases /\ f.unsent \in Leases /\ Len(f.unsent) <= send_limit /\ f.ready \in Nat

LEMMA LoopRInv ==
  ASSUME IInv, RInv, sh.pc \in Loop, sh'.pc \in Loop \cup {"exit"}, sh'.lease = sh.lease,
         sh'.pc = "control" => deferred' = Empty, deferred' \in Leases,
         ses'.pending = ses.pending, ses'.queue \in 0..session_limit,
         FlowBounds(flow'), InboxBounds', popped' \in 0..kControlInboxBudget,
         UNCHANGED <<gate, app, remote>>, Ordered'
  PROVE  RInv'
<1>1. sh.pc \notin Reposting \cup Removing /\ sh'.pc \notin Reposting \cup Removing /\ gate.active
  BY ZenonT(60) DEF Loop, Reposting, Removing, RInv, Placed
<1>2. ~gate.held /\ sh.lease = Empty
  BY ZenonT(60), <1>1, NotHeld, Holders DEF Reposting
<1>3. Bounds'
  BY ZenonT(60), <1>1, <1>2 DEF RInv, Bounds, InboxBounds, FlowBounds
<1>4. Handed' /\ Placed'
  BY ZenonT(60), <1>1, <1>2 DEF RInv, Handed, Placed, Carrying, Reposting
<1> QED BY ZenonT(60), <1>3, <1>4 DEF RInv

LEMMA BoundsHeld == ASSUME RInv PROVE /\ FlowBounds(flow) /\ ses.queue \in 0..session_limit /\ deferred \in Leases
                                      /\ popped \in 0..kControlInboxBudget
BY ZenonT(60) DEF RInv, Bounds, FlowBounds

LEMMA ControlDoneRInv == ASSUME IInv, RInv, ControlDone PROVE RInv'
<1>1. /\ sh.pc \in Loop /\ sh'.pc \in Loop \cup {"exit"} /\ sh'.lease = sh.lease /\ sh'.pc # "control"
  BY ZenonT(60) DEF ControlDone, Goto, IInv, Shapes, Loop
<1>2. InboxBounds' /\ Packed' = Packed
  BY ZenonT(60), SameBounds DEF ControlDone
<1>3. Line' = Line /\ Sent' = Sent /\ (Open' <=> Open)
  BY ZenonT(60), <1>1, <1>2, LineIs DEF ControlDone, Sent, Open
<1>4. Ordered'
  BY ZenonT(60), <1>3, KeptStep DEF ControlDone
<1> QED BY ZenonT(60), <1>1, <1>2, <1>4, BoundsHeld, LoopRInv DEF ControlDone

LEMMA TimersRInv == ASSUME IInv, RInv, NEW due \in BOOLEAN, Timers(due) PROVE RInv'
<1>1. sh.pc \in Loop /\ sh.pc = "timers"
  BY ZenonT(60) DEF Timers, Loop
<1>2. InboxBounds' /\ Packed' = Packed
  BY ZenonT(60), SameBounds DEF Timers
<1>3. CASE due /\ flow.state = "TimeWait" /\ ~stop.requested
  <2>1. /\ RemoveAt(flow, "pump") /\ gate'.held = flow.session /\ gate'.active = gate.active
        /\ UNCHANGED <<ses, deferred, app, remote, popped>>
    BY ZenonT(60), <1>3 DEF Timers, IInv, Shapes
  <2>2. gate.active
    BY ZenonT(60), <1>1 DEF RInv, Placed, Removing
  <2> QED BY ZenonT(60), <1>1, <1>2, <1>3, <2>1, <2>2, BoundsHeld, RemoveRInv DEF Afters, Live
<1>4. CASE ~(due /\ flow.state = "TimeWait" /\ ~stop.requested)
  <2>1. /\ sh'.pc \in Loop \cup {"exit"} /\ sh'.lease = sh.lease /\ sh'.pc # "control"
        /\ UNCHANGED <<ses, gate, flow, deferred, app, remote, popped>>
    BY ZenonT(60), <1>4 DEF Timers, Goto, IInv, Shapes, Loop
  <2>2. Line' = Line /\ Sent' = Sent /\ (Open' <=> Open)
    BY ZenonT(60), <1>2, <2>1, LineIs DEF Sent, Open
  <2>3. Ordered'
    BY ZenonT(60), <2>1, <2>2, KeptStep
  <2> QED BY ZenonT(60), <1>1, <1>2, <2>1, <2>3, BoundsHeld, LoopRInv
<1> QED BY ZenonT(60), <1>3, <1>4

LEMMA PumpRInv == ASSUME IInv, RInv, NEW outcome, Pump(outcome) PROVE RInv'
<1>1. sh.pc \in Loop /\ sh.pc = "pump"
  BY ZenonT(60) DEF Pump, Loop
<1>2. InboxBounds' /\ Packed' = Packed
  BY ZenonT(60), SameBounds DEF Pump
<1>a. gate.active /\ ~gate.held
  BY ZenonT(60), <1>1, NotHeld DEF RInv, Placed, Removing
<1>3. CASE flow.send_closed /\ flow.state \in Closings
  <2>1. RemoveAt(flow, "resume") /\ UNCHANGED <<ses, gate, deferred, app, remote, popped>>
    BY ZenonT(60), <1>3 DEF Pump
  <2>2. flow.state \notin Live
    BY ZenonT(60), <1>3 DEF Live, Closings
  <2> QED BY ZenonT(60), <1>1, <1>2, <1>a, <2>1, <2>2, BoundsHeld, RemoveRInv DEF Afters
<1>4. CASE ~(flow.send_closed /\ flow.state \in Closings)
  <2>1. /\ sh'.pc = "resume" /\ sh'.lease = sh.lease
        /\ UNCHANGED <<ses, gate, deferred, app, remote, popped>>
        /\ \/ flow' = flow
           \/ flow' = [flow EXCEPT !.send_closed = TRUE, !.unsent = Empty]
           \/ flow' = [flow EXCEPT !.wire = @ \o flow.unsent, !.unsent = Empty]
    BY ZenonT(60), <1>4 DEF Pump, Goto, IInv, Shapes
  <2>0. Len(Empty) <= send_limit
    BY BridgeAssumption DEF Empty
  <2>2. CASE flow' = flow
    <3>1. Line' = Line /\ Sent' = Sent /\ (Open' <=> Open)
      BY ZenonT(60), <1>2, <2>1, <2>2, LineIs DEF Sent, Open
    <3>2. Ordered'
      BY ZenonT(60), <2>1, <3>1, KeptStep
    <3> QED BY ZenonT(60), <1>1, <1>2, <2>1, <2>2, <3>2, BoundsHeld, LoopRInv DEF Loop
  <2>3. CASE flow' = [flow EXCEPT !.send_closed = TRUE, !.unsent = Empty]
    <3>1. flow'.send_closed /\ flow'.unsent = Empty /\ flow'.wire = flow.wire /\ flow'.ready = flow.ready
      BY ZenonT(60), <2>3 DEF IInv, Shapes
    <3>2. Ordered'
      BY ZenonT(60), <3>1, ShutStep DEF Open
    <3>3. FlowBounds(flow')
      BY ZenonT(60), <2>0, <3>1, BoundsHeld, EmptyLease DEF FlowBounds
    <3> QED BY ZenonT(60), <1>1, <1>2, <2>1, <3>2, <3>3, BoundsHeld, LoopRInv DEF Loop
  <2>4. CASE flow' = [flow EXCEPT !.wire = @ \o flow.unsent, !.unsent = Empty]
    <3>1. /\ flow'.send_closed = flow.send_closed /\ flow'.unsent = Empty /\ flow'.ready = flow.ready
          /\ flow'.wire = Cat(flow.wire, flow.unsent) /\ flow'.state = flow.state
      BY ZenonT(60), <2>4 DEF IInv, Shapes, Cat
    <3>2. FlowBounds(flow')
      BY ZenonT(60), <2>0, <3>1, BoundsHeld, EmptyLease, CatIn DEF FlowBounds
    <3>3. Sent' = Sent
      BY ZenonT(60), <3>1, RTypes, CatNone, LineIs
    <3>4. Line' = Line
      <4> DEFINE w == flow.wire
                 u == flow.unsent
                 d == deferred
                 p == Packed
                 s == sh.lease
                 r == ses.pending
                 a == app.lease
      <4>1. /\ w \in Leases /\ u \in Leases /\ d \in Leases /\ p \in Leases
            /\ s \in Leases /\ r \in Leases /\ a \in Leases
        BY ZenonT(60), RTypes
      <4>2. Line = Queue(w, u, d, p, s, r, a)
        BY ZenonT(60), LineIs
      <4>3. Line' = Queue(Cat(w, u), Empty, d, p, s, r, a)
        BY ZenonT(60), <1>2, <2>1, <3>1, LineIs
      <4> HIDE DEF w, u, d, p, s, r, a
      <4>4. Queue(Cat(w, u), Empty, d, p, s, r, a) = Queue(w, u, d, p, s, r, a)
        BY SMT, <4>1, QueueSend
      <4> QED BY ZenonT(60), <4>2, <4>3, <4>4
    <3>5. Ordered'
      BY ZenonT(60), <2>1, <3>1, <3>3, <3>4, KeptStep DEF Open
    <3> QED BY ZenonT(60), <1>1, <1>2, <2>1, <3>2, <3>5, BoundsHeld, LoopRInv DEF Loop
  <2> QED BY ZenonT(60), <2>1, <2>2, <2>3, <2>4
<1> QED BY ZenonT(60), <1>3, <1>4

(* The two parts of a lease. *)
LEMMA SplitLease ==
  ASSUME NEW x \in Leases, NEW n \in Nat, n <= Len(x)
  PROVE  /\ SubSeq(x, 1, n) \in Leases /\ SubSeq(x, n + 1, Len(x)) \in Leases
         /\ Len(SubSeq(x, 1, n)) = n
         /\ Cat(SubSeq(x, 1, n), SubSeq(x, n + 1, Len(x))) = x
         /\ n = Len(x) => SubSeq(x, n + 1, Len(x)) = Empty
<1> DEFINE k == Len(x)
           y == SubSeq(x, 1, n)
           z == SubSeq(x, n + 1, Len(x))
<1>1. /\ k \in Nat /\ y \in Seq(Nat) /\ Len(y) = n /\ \A i \in 1..n : y[i] = x[i]
  BY DEF Leases
<1>2. /\ z \in Seq(Nat) /\ Len(z) = k - n /\ \A i \in 1..(k - n) : z[i] = x[n + i]
  BY DEF Leases
<1>3. n = k => z = << >>
  BY <1>1, <1>2
<1> HIDE DEF y, z
<1> DEFINE c == y \o z
<1>4. /\ c \in Seq(Nat) /\ Len(c) = Len(y) + Len(z)
      /\ \A i \in 1..(Len(y) + Len(z)) : c[i] = IF i <= Len(y) THEN y[i] ELSE z[i - Len(y)]
  BY ZenonT(60), <1>1, <1>2, CatType, CatMember
<1> HIDE DEF c
<1>a. c \in Seq(Nat) /\ Len(c) = n + (k - n) /\ \A i \in 1..(n + (k - n)) : c[i] = IF i <= n THEN y[i] ELSE z[i - n]
  BY ZenonT(60), <1>1, <1>2, <1>4
<1> HIDE DEF k
<1>5. n + (k - n) = k
  BY <1>1
<1>6. \A i \in 1..k : c[i] = x[i]
  <2> TAKE i \in 1..k
  <2>1. CASE i <= n
    <3>1. i \in 1..n
      BY <1>1, <2>1
    <3> QED BY ZenonT(60), <1>1, <1>5, <1>a, <2>1, <3>1
  <2>2. CASE ~(i <= n)
    <3>1. i - n \in 1..(k - n) /\ n + (i - n) = i
      BY <1>1, <2>2
    <3> QED BY ZenonT(60), <1>2, <1>5, <1>a, <2>2, <3>1
  <2> QED BY ZenonT(60), <2>1, <2>2
<1>7. c = x
  BY ZenonT(60), <1>5, <1>6, <1>a, SameString DEF Leases, k
<1> QED BY ZenonT(60), <1>1, <1>2, <1>3, <1>7 DEF c, y, z, k, Cat, Leases, Empty

(* The send buffer takes x, and d is deferred. *)
LEMMA TakeLine ==
  ASSUME IInv, RInv, NEW x \in Leases, NEW d \in Leases, NEW p \in Leases
  PROVE  Queue(flow.wire, Cat(flow.unsent, x), d, p, sh.lease, ses.pending, app.lease)
            = Queue(flow.wire, flow.unsent, Cat(x, d), p, sh.lease, ses.pending, app.lease)
<1> DEFINE w == flow.wire
           u == flow.unsent
           s == sh.lease
           r == ses.pending
           a == app.lease
<1>1. w \in Leases /\ u \in Leases /\ s \in Leases /\ r \in Leases /\ a \in Leases
  BY ZenonT(60), RTypes
<1> HIDE DEF w, u, s, r, a
<1>2. /\ Cat(u, x) \in Leases /\ Cat(x, d) \in Leases /\ Cat(w, u) \in Leases /\ Cat(d, p) \in Leases
      /\ Cat(Cat(d, p), s) \in Leases /\ Cat(Cat(Cat(d, p), s), r) \in Leases
  BY SMT, <1>1, CatIn
<1> DEFINE z == Cat(Cat(Cat(Cat(d, p), s), r), a)
<1>3. z \in Leases
  BY SMT, <1>1, <1>2, CatIn
<1>4. Cat(Cat(Cat(Cat(Cat(x, d), p), s), r), a) = Cat(x, z)
  <2>1. Cat(Cat(x, d), p) = Cat(x, Cat(d, p))
    BY SMT, CatMoves
  <2>2. Cat(Cat(x, Cat(d, p)), s) = Cat(x, Cat(Cat(d, p), s))
    BY SMT, <1>1, <1>2, CatMoves
  <2>3. Cat(Cat(x, Cat(Cat(d, p), s)), r) = Cat(x, Cat(Cat(Cat(d, p), s), r))
    BY SMT, <1>1, <1>2, CatMoves
  <2>4. Cat(Cat(x, Cat(Cat(Cat(d, p), s), r)), a) = Cat(x, z)
    BY SMT, <1>1, <1>2, CatMoves
  <2> QED BY ZenonT(60), <2>1, <2>2, <2>3, <2>4
<1>5. Cat(Cat(w, Cat(u, x)), z) = Cat(Cat(w, u), Cat(x, z))
  <2> HIDE DEF z
  <2> QED BY SMT, <1>1, <1>2, <1>3, CatMoves
<1>6. Queue(w, Cat(u, x), d, p, s, r, a) = Queue(w, u, Cat(x, d), p, s, r, a)
  <2> HIDE DEF z
  <2> QED BY ZenonT(60), <1>4, <1>5 DEF Queue, z
<1> QED BY ZenonT(60), <1>6 DEF w, u, s, r, a

(* EnqueueRemoteData takes what fits and defers the rest, or, when the      *)
(* connection takes no more, nothing.                                       *)
LEMMA Enqueued ==
  ASSUME IInv, RInv, NEW x \in Leases, EnqueueRemoteData(x)
  PROVE  /\ deferred' \in Leases /\ FlowBounds(flow') /\ flow'.wire = flow.wire
         /\ flow'.state = flow.state /\ flow'.send_closed = flow.send_closed
         /\ IF flow.state \in Live /\ ~flow.send_closed
            THEN \E y \in Leases : flow'.unsent = Cat(flow.unsent, y) /\ Cat(y, deferred') = x
            ELSE flow'.unsent = flow.unsent
<1> DEFINE n == Accepted(x)
           y == SubSeq(x, 1, n)
<1>0. FlowBounds(flow) /\ flow.unsent \in Leases /\ Len(flow.unsent) <= send_limit
  BY ZenonT(60), BoundsHeld DEF FlowBounds
<1>1. /\ flow' = IF flow.state \in Live THEN [flow EXCEPT !.unsent = @ \o y] ELSE flow
      /\ deferred' = SubSeq(x, n + 1, Len(x))
  BY ZenonT(60) DEF EnqueueRemoteData, Live
<1>2. Len(x) \in Nat /\ Len(flow.unsent) \in Nat /\ send_limit \in Nat
  BY <1>0, BridgeAssumption DEF Leases
<1>3. /\ n \in Nat /\ n <= Len(x)
      /\ flow.state \in Live => n = 0 \/ Len(flow.unsent) + n <= send_limit
      /\ flow.state \in Live /\ flow.send_closed => n = 0
  <2> DEFINE k == Len(x)
             m == send_limit - Len(flow.unsent)
  <2>1. k \in Int /\ m \in Int /\ k >= 0 /\ m >= 0
    BY <1>0, <1>2
  <2>2. n = IF flow.state \notin Live THEN k ELSE IF flow.send_closed THEN 0 ELSE Min({k, m})
    BY ZenonT(60) DEF Accepted, Live
  <2> HIDE DEF n, k
  <2>3. Min({k, m}) \in {k, m} /\ Min({k, m}) <= k /\ Min({k, m}) <= m
    <3> HIDE DEF m
    <3> QED BY ZenonT(60), <2>1, MinPair
  <2> DEFINE q == Min({k, m})
  <2>4. q \in {k, m} /\ q <= k /\ q <= m
    BY ZenonT(60), <2>3
  <2>5. n = IF flow.state \notin Live THEN k ELSE IF flow.send_closed THEN 0 ELSE q
    BY ZenonT(60), <2>2
  <2> HIDE DEF q
  <2>6. n \in Nat /\ n <= k /\ (n = k \/ n = 0 \/ n = q)
    <3> HIDE DEF m
    <3> QED BY <2>1, <2>4, <2>5
  <2>7. q \in Nat /\ Len(flow.unsent) + q <= send_limit
    BY <1>2, <2>1, <2>4
  <2>8. flow.state \in Live => n = 0 \/ Len(flow.unsent) + n <= send_limit
    BY ZenonT(60), <2>5, <2>7
  <2>9. flow.state \in Live /\ flow.send_closed => n = 0
    BY ZenonT(60), <2>5
  <2> QED BY ZenonT(60), <2>6, <2>8, <2>9 DEF k
<1> HIDE DEF n
<1>4. /\ y \in Leases /\ deferred' \in Leases /\ Len(y) = n /\ Cat(y, deferred') = x
  BY ZenonT(60), <1>1, <1>3, SplitLease
<1> HIDE DEF y
<1>5. CASE flow.state \notin Live
  <2>1. flow' = flow
    BY ZenonT(60), <1>1, <1>5
  <2> QED BY ZenonT(60), <2>1, <1>0, <1>4, <1>5
<1>6. CASE flow.state \in Live
  <2>1. /\ flow'.unsent = Cat(flow.unsent, y) /\ flow'.wire = flow.wire /\ flow'.state = flow.state
        /\ flow'.send_closed = flow.send_closed /\ flow'.ready = flow.ready
    BY ZenonT(60), <1>1, <1>6 DEF IInv, Shapes, Cat
  <2>2. Cat(flow.unsent, y) \in Leases /\ Len(Cat(flow.unsent, y)) = Len(flow.unsent) + n
    BY ZenonT(60), <1>0, <1>4, CatType DEF Cat, Leases
  <2>3. Len(flow.unsent) + n <= send_limit
    BY <1>0, <1>2, <1>3, <1>6
  <2>4. FlowBounds(flow')
    BY ZenonT(60), <1>0, <2>1, <2>2, <2>3 DEF FlowBounds
  <2>5. flow.send_closed => flow'.unsent = flow.unsent
    <3>1. ASSUME flow.send_closed PROVE y = Empty
      <4>1. y \in Seq(Nat) /\ Len(y) = 0
        BY ZenonT(60), <3>1, <1>3, <1>4, <1>6 DEF Leases
      <4> QED BY <4>1 DEF Empty
    <3> QED BY ZenonT(60), <3>1, <1>0, <2>1, CatNone
  <2> QED BY ZenonT(60), <1>4, <1>6, <2>1, <2>4, <2>5
<1> QED BY ZenonT(60), <1>5, <1>6

LEMMA EnqueueOrdered ==
  ASSUME IInv, RInv, NEW x \in Leases, EnqueueRemoteData(x), gate.active, Packed' \in Leases,
         Line = Queue(flow.wire, flow.unsent, x, Packed', sh.lease, ses.pending, app.lease),
         sh'.lease = sh.lease, ses'.pending = ses.pending, ses'.closed = ses.closed, UNCHANGED <<gate, app, remote>>
  PROVE  Ordered'
<1>0. /\ deferred' \in Leases /\ flow'.wire = flow.wire
      /\ flow'.state = flow.state /\ flow'.send_closed = flow.send_closed
      /\ IF flow.state \in Live /\ ~flow.send_closed
         THEN \E y \in Leases : flow'.unsent = Cat(flow.unsent, y) /\ Cat(y, deferred') = x
         ELSE flow'.unsent = flow.unsent
  BY ZenonT(60), Enqueued
<1>1. CASE ~(flow.state \in Live /\ ~flow.send_closed)
  <2>1. ~Open' /\ flow'.unsent = flow.unsent
    BY ZenonT(60), <1>0, <1>1 DEF Open
  <2> QED BY ZenonT(60), <1>0, <2>1, ShutStep
<1>2. CASE flow.state \in Live /\ ~flow.send_closed
  <2>1. PICK y \in Leases : flow'.unsent = Cat(flow.unsent, y) /\ Cat(y, deferred') = x
    BY ZenonT(60), <1>0, <1>2
  <2> DEFINE d == deferred'
             p == Packed'
  <2>2. d \in Leases /\ p \in Leases
    BY ZenonT(60), <1>0
  <2>3. Line' = Queue(flow.wire, Cat(flow.unsent, y), d, p, sh.lease, ses.pending, app.lease)
    BY ZenonT(60), <1>0, <2>1, LineIs
  <2>4. Line = Queue(flow.wire, flow.unsent, Cat(y, d), p, sh.lease, ses.pending, app.lease)
    BY ZenonT(60), <2>1
  <2> HIDE DEF d, p
  <2>5. Line' = Line
    BY ZenonT(60), <2>2, <2>3, <2>4, TakeLine
  <2>6. Open
    BY ZenonT(60), <1>2 DEF Open
  <2>7. Counting(Line) /\ (~ses.closed => Len(Line) = remote.read)
    BY ZenonT(60), <2>6 DEF RInv, Ordered
  <2>8. Counting(Sent)'
    <3> DEFINE v == Cat(flow.unsent, y)
               s == sh.lease
               r == ses.pending
               a == app.lease
               w == flow.wire
               z == Cat(Cat(Cat(Cat(d, p), s), r), a)
    <3>1. v \in Leases /\ w \in Leases /\ s \in Leases /\ r \in Leases /\ a \in Leases
      BY ZenonT(60), RTypes, CatIn
    <3>2. Sent' = Cat(w, v)
      BY ZenonT(60), <1>0, <2>1, LineIs
    <3>3. Line' = Cat(Cat(w, v), z)
      BY ZenonT(60), <2>3 DEF Queue
    <3> HIDE DEF v, s, r, a, w
    <3>4. Cat(w, v) \in Leases /\ z \in Leases
      BY SMT, <2>2, <3>1, CatIn
    <3> HIDE DEF z
    <3>5. Counting(Cat(Cat(w, v), z))
      BY ZenonT(60), <2>5, <2>7, <3>3
    <3>6. Counting(Cat(w, v))
      BY ZenonT(60), <3>4, <3>5, CountingCat
    <3> QED BY ZenonT(60), <3>2, <3>6 DEF Counting, FirstOctets
  <2>9. Counting(Line)' /\ (~ses'.closed => Len(Line)' = remote'.read)
    BY ZenonT(60), <2>5, <2>7 DEF Counting, FirstOctets
  <2> QED BY ZenonT(60), <2>8, <2>9 DEF Ordered
<1> QED BY ZenonT(60), <1>1, <1>2

LEMMA LoopActive ==
  ASSUME RInv, sh.pc \in Loop
  PROVE  gate.active /\ ~gate.held
BY ZenonT(60) DEF RInv, Placed, Bounds, Loop, Removing

LEMMA DeferredRInv == ASSUME IInv, RInv, Deferred PROVE RInv'
<1>1. InboxBounds' /\ Packed' = Packed
  BY ZenonT(60), SameBounds DEF Deferred
<1>2. /\ sh.pc \in Loop /\ sh'.pc \in Loop /\ sh'.lease = sh.lease /\ (sh'.pc = "control" => deferred' = Empty)
      /\ UNCHANGED <<ses, gate, app, remote>>
  BY ZenonT(60) DEF Deferred, Goto, IInv, Shapes, Loop
<1>3. popped' \in 0..kControlInboxBudget
  BY BridgeAssumption DEF Deferred
<1>4. CASE deferred = Empty
  <2>1. UNCHANGED <<flow, deferred>>
    BY ZenonT(60), <1>4 DEF Deferred
  <2>2. Line' = Line /\ Sent' = Sent /\ (Open' <=> Open)
    BY ZenonT(60), <1>1, <1>2, <2>1, LineIs DEF Sent, Open
  <2>3. Ordered'
    BY ZenonT(60), <1>2, <2>2, KeptStep
  <2> QED BY ZenonT(60), <1>1, <1>2, <1>3, <2>1, <2>3, BoundsHeld, LoopRInv
<1>5. CASE deferred # Empty
  <2>1. EnqueueRemoteData(deferred) /\ deferred \in Leases /\ Packed \in Leases
    BY ZenonT(60), <1>5, RTypes DEF Deferred
  <2>2. deferred' \in Leases /\ FlowBounds(flow')
    BY ZenonT(60), <2>1, Enqueued
  <2>3. Line = Queue(flow.wire, flow.unsent, deferred, Packed', sh.lease, ses.pending, app.lease)
    BY ZenonT(60), <1>1, LineIs
  <2>4. gate.active
    BY ZenonT(60), <1>2, LoopActive
  <2>5. Ordered'
    BY ZenonT(60), <1>1, <1>2, <2>1, <2>3, <2>4, EnqueueOrdered
  <2> QED BY ZenonT(60), <1>1, <1>2, <1>3, <2>2, <2>5, BoundsHeld, LoopRInv
<1> QED BY ZenonT(60), <1>4, <1>5

(* DrainSession moves octets of the client only. *)
LEMMA Drained ==
  ASSUME NEW f, DOMAIN f = DOMAIN flow, Shapes,
         ses.queue \in 0..session_limit, f.ready \in Nat
  PROVE  /\ DrainSession(ses, f).ses.queue \in 0..session_limit /\ DrainSession(ses, f).flow.ready \in Nat
         /\ DrainSession(ses, f).ses.pending = ses.pending /\ DrainSession(ses, f).ses.closed = ses.closed
         /\ DrainSession(ses, f).flow.wire = f.wire /\ DrainSession(ses, f).flow.unsent = f.unsent
         /\ DrainSession(ses, f).flow.state = f.state /\ DrainSession(ses, f).flow.send_closed = f.send_closed
<1> DEFINE n == Min({f.ready, session_limit - ses.queue})
<1>1. n \in Nat /\ ses.queue + n \in 0..session_limit /\ f.ready - n \in Nat
  <2> DEFINE k == f.ready
             m == session_limit - ses.queue
  <2>1. k \in Int /\ m \in Int /\ k >= 0 /\ m >= 0 /\ session_limit \in Nat
    BY BridgeAssumption
  <2>2. n \in {k, m} /\ n <= k /\ n <= m
    <3> HIDE DEF k, m
    <3>1. n = Min({k, m})
      BY ZenonT(60) DEF k, m
    <3> HIDE DEF n
    <3> QED BY ZenonT(60), <2>1, <3>1, MinPair
  <2> HIDE DEF n
  <2> QED BY <2>1, <2>2
<1> HIDE DEF n
<1> DEFINE r == DrainSession(ses, f)
<1>2. \/ r = [ses |-> ses, flow |-> f]
      \/ r = [ses |-> ses, flow |-> [f EXCEPT !.session = FALSE]]
      \/ r = [ses |-> [ses EXCEPT !.queue = @ + n], flow |-> [f EXCEPT !.ready = @ - n, !.blocked = n < f.ready]]
  BY ZenonT(60) DEF DrainSession, n
<1> HIDE DEF r
<1>3. \/ r.ses = ses /\ r.flow = f
      \/ r.ses = ses /\ r.flow = [f EXCEPT !.session = FALSE]
      \/ r.ses = [ses EXCEPT !.queue = @ + n] /\ r.flow = [f EXCEPT !.ready = @ - n, !.blocked = n < f.ready]
  <2> DEFINE f1 == [f EXCEPT !.session = FALSE]
             s2 == [ses EXCEPT !.queue = @ + n]
             f2 == [f EXCEPT !.ready = @ - n, !.blocked = n < f.ready]
  <2>1. r = [ses |-> ses, flow |-> f] \/ r = [ses |-> ses, flow |-> f1] \/ r = [ses |-> s2, flow |-> f2]
    BY ZenonT(60), <1>2
  <2> HIDE DEF f1, s2, f2
  <2>2. (r.ses = ses /\ r.flow = f) \/ (r.ses = ses /\ r.flow = f1) \/ (r.ses = s2 /\ r.flow = f2)
    BY SMT, <2>1
  <2> QED BY ZenonT(60), <2>2 DEF f1, s2, f2
<1>4. /\ r.ses.queue \in 0..session_limit /\ r.flow.ready \in Nat
      /\ r.ses.pending = ses.pending /\ r.ses.closed = ses.closed
      /\ r.flow.wire = f.wire /\ r.flow.unsent = f.unsent
      /\ r.flow.state = f.state /\ r.flow.send_closed = f.send_closed
  BY ZenonT(60), <1>1, <1>3 DEF Shapes
<1> QED BY ZenonT(60), <1>4 DEF r

(* A turn that leaves the octets of the remote peer alone. *)
OctetsKept(f) ==
    /\ f.wire = flow.wire /\ f.unsent = flow.unsent /\ f.ready \in Nat
    /\ f.state \in Live /\ ~f.send_closed => flow.state \in Live /\ ~flow.send_closed

LEMMA DrainedKept ==
  ASSUME NEW f, DOMAIN f = DOMAIN flow, Shapes, ses.queue \in 0..session_limit, OctetsKept(f)
  PROVE  /\ OctetsKept(DrainSession(ses, f).flow) /\ DrainSession(ses, f).ses.queue \in 0..session_limit
         /\ DrainSession(ses, f).ses.pending = ses.pending /\ DrainSession(ses, f).ses.closed = ses.closed
<1> DEFINE r == DrainSession(ses, f)
<1>1. /\ r.ses.queue \in 0..session_limit /\ r.flow.ready \in Nat
      /\ r.ses.pending = ses.pending /\ r.ses.closed = ses.closed
      /\ r.flow.wire = f.wire /\ r.flow.unsent = f.unsent
      /\ r.flow.state = f.state /\ r.flow.send_closed = f.send_closed
  <2>1. f.ready \in Nat
    BY ZenonT(60) DEF OctetsKept
  <2> QED BY ZenonT(60), <2>1, Drained
<1> HIDE DEF r
<1>2. OctetsKept(r.flow)
  BY ZenonT(60), <1>1 DEF OctetsKept
<1> QED BY ZenonT(60), <1>1, <1>2 DEF r

LEMMA TurnRInv ==
  ASSUME IInv, RInv, sh.pc \in Loop, sh'.pc \in Loop \cup {"exit"}, sh'.lease = sh.lease,
         sh'.pc = "control" => deferred = Empty,
         ses'.pending = ses.pending, ses'.closed = ses.closed, ses'.queue \in 0..session_limit,
         OctetsKept(flow'), InboxBounds', Packed' = Packed, popped' \in 0..kControlInboxBudget,
         UNCHANGED <<gate, deferred, app, remote>>
  PROVE  RInv'
<1>1. Line' = Line /\ Sent' = Sent /\ (Open' => Open)
  BY ZenonT(60), LineIs DEF OctetsKept, Sent, Open
<1>2. Ordered'
  BY ZenonT(60), <1>1, KeptStep
<1>3. FlowBounds(flow') /\ deferred' \in Leases
  BY ZenonT(60), BoundsHeld DEF FlowBounds, OctetsKept
<1> QED BY ZenonT(60), <1>2, <1>3, LoopRInv

LEMMA ReceiveRInv ==
  ASSUME IInv, RInv, NEW segment \in {"none", "payload", "fin", "finAck"}, Receive(segment)
  PROVE  RInv'
<1>0. Shapes /\ sh.pc \in Loop /\ UNCHANGED <<gate, deferred, app, remote, popped>> /\ popped' \in 0..kControlInboxBudget
  BY ZenonT(60), BoundsHeld DEF IInv, Receive, Loop
<1>a. FlowBounds(flow) /\ ses.queue \in 0..session_limit /\ flow.ready \in Nat
  BY ZenonT(60), BoundsHeld DEF FlowBounds
<1>g. Goto("deferred") => sh'.pc \in Loop /\ sh'.lease = sh.lease /\ sh'.pc # "control"
  BY ZenonT(60), <1>0 DEF Goto, Shapes, Loop
<1>2. CASE segment = "none"
  <2>1. Goto("deferred") /\ UNCHANGED <<ses, inbox, flow>>
    BY ZenonT(60), <1>2 DEF Receive
  <2>2. InboxBounds' /\ Packed' = Packed /\ OctetsKept(flow')
    BY ZenonT(60), <1>a, <2>1, SameBounds DEF OctetsKept
  <2> QED BY ZenonT(60), <1>0, <1>a, <1>g, <2>1, <2>2, TurnRInv
<1>3. CASE segment = "payload"
  <2> DEFINE f == [flow EXCEPT !.ready = @ + 1, !.sent = @ + 1]
  <2>1. ses' = DrainSession(ses, f).ses /\ flow' = DrainSession(ses, f).flow /\ Goto("deferred") /\ UNCHANGED inbox
    BY ZenonT(60), <1>3 DEF Receive
  <2>2. /\ DOMAIN f = DOMAIN flow /\ f.wire = flow.wire /\ f.unsent = flow.unsent /\ f.state = flow.state
        /\ f.send_closed = flow.send_closed /\ f.ready = flow.ready + 1
    BY ZenonT(60), <1>0 DEF Shapes
  <2>3. f.ready \in Nat
    <3> HIDE DEF f
    <3> QED BY <1>a, <2>2
  <2> HIDE DEF f
  <2>d. OctetsKept(f)
    BY ZenonT(60), <2>2, <2>3 DEF OctetsKept
  <2>4. /\ ses'.queue \in 0..session_limit /\ ses'.pending = ses.pending /\ ses'.closed = ses.closed /\ OctetsKept(flow')
    BY ZenonT(60), <1>0, <1>a, <2>1, <2>2, <2>d, DrainedKept
  <2>5. InboxBounds' /\ Packed' = Packed
    BY ZenonT(60), <2>1, SameBounds
  <2> QED BY ZenonT(60), <1>0, <1>g, <2>1, <2>4, <2>5, TurnRInv
<1>4. CASE segment = "fin"
  <2>1. /\ Goto("deferred") /\ flow.state \in {"Established", "FinWait1", "FinWait2"}
        /\ flow' = [flow EXCEPT !.fin = TRUE,
                      !.state = CASE @ = "Established" -> "CloseWait" [] @ = "FinWait1" -> "Closing"
                                  [] OTHER -> "TimeWait"]
        /\ ses' = [ses EXCEPT !.write_shutdown = @ \/ flow.session]
        /\ TryPost(Plain("writable")) \/ UNCHANGED inbox
    BY ZenonT(60), <1>4 DEF Receive
  <2>2. /\ flow'.wire = flow.wire /\ flow'.unsent = flow.unsent /\ flow'.ready = flow.ready
        /\ flow'.send_closed = flow.send_closed
        /\ ses'.queue = ses.queue /\ ses'.pending = ses.pending /\ ses'.closed = ses.closed
    BY ZenonT(60), <1>0, <2>1 DEF Shapes
  <2>3. flow'.state \in Live => flow.state \in Live
    <3>1. flow.state # "Established" => flow'.state \in {"Closing", "TimeWait"}
      BY <1>0, <2>1 DEF Shapes
    <3> QED BY ZenonT(60), <3>1 DEF Live
  <2>4. OctetsKept(flow')
    BY ZenonT(60), <1>a, <2>2, <2>3 DEF OctetsKept
  <2>5. InboxBounds' /\ Packed' = Packed
    BY ZenonT(60), <2>1, SameBounds, TryPlainBounds
  <2> QED BY ZenonT(60), <1>0, <1>a, <1>g, <2>1, <2>2, <2>4, <2>5, TurnRInv
<1>5. CASE segment = "finAck"
  <2>1. UNCHANGED <<ses, inbox>> /\ flow.state \notin Live
    BY ZenonT(60), <1>5 DEF Receive, Live
  <2>2. InboxBounds' /\ Packed' = Packed
    BY ZenonT(60), <2>1, SameBounds
  <2>3. CASE RemoveAt(flow, "deferred")
    <3>1. gate.active /\ ~gate.held
      BY ZenonT(60), <1>0, LoopActive
    <3> QED BY ZenonT(60), <1>0, <2>1, <2>2, <2>3, <3>1, RemoveRInv DEF Afters
  <2>4. CASE Goto("deferred") /\ flow' = [flow EXCEPT !.state = IF @ = "FinWait1" THEN "FinWait2" ELSE "TimeWait"]
    <3>1. /\ flow'.wire = flow.wire /\ flow'.unsent = flow.unsent /\ flow'.ready = flow.ready
          /\ flow'.state \in {"FinWait2", "TimeWait"}
      BY ZenonT(60), <1>0, <2>4 DEF Shapes
    <3>2. OctetsKept(flow')
      BY ZenonT(60), <1>a, <3>1 DEF OctetsKept, Live
    <3> QED BY ZenonT(60), <1>0, <1>a, <1>g, <2>1, <2>2, <2>4, <3>2, TurnRInv
  <2> QED BY ZenonT(60), <1>5, <2>3, <2>4 DEF Receive
<1> QED BY ZenonT(60), <1>2, <1>3, <1>4, <1>5

LEMMA TakeBounds ==
  ASSUME IInv, RInv, inbox # Empty, inbox' = Tail(inbox)
  PROVE  /\ InboxBounds' /\ Head(inbox) \in Message /\ Packed' \in Leases
         /\ Packed = Cat(Head(inbox).lease, Packed')
         /\ Head(inbox).type # "data" => Head(inbox).lease = Empty /\ Packed' = Packed
<1>1. inbox \in Seq(Message) /\ inbox # << >> /\ Len(inbox) <= inbox_capacity
  BY ZenonT(60) DEF IInv, Shapes, Empty, RInv, Bounds
<1>2. /\ Head(inbox) = inbox[1] /\ 1 \in DOMAIN inbox
      /\ \A i \in DOMAIN Tail(inbox) : i + 1 \in DOMAIN inbox /\ Tail(inbox)[i] = inbox[i + 1]
  BY <1>1
<1>3. Len(Tail(inbox)) <= inbox_capacity
  <2>1. inbox_capacity \in Nat
    BY BridgeAssumption
  <2> QED BY <1>1, <2>1
<1>4. InboxBounds'
  BY ZenonT(60), <1>2, <1>3 DEF InboxBounds, RInv, Bounds
<1>5. Packed = Cat(Head(inbox).lease, Packed') /\ Packed' \in Leases /\ Head(inbox) \in Message
  BY ZenonT(60), PackedTake DEF Cat
<1>6. ASSUME Head(inbox).type # "data" PROVE Head(inbox).lease = Empty /\ Packed' = Packed
  <2>1. Head(inbox).lease = Empty
    BY ZenonT(60), <1>2, <1>6 DEF RInv, Bounds
  <2> QED BY ZenonT(60), <1>5, <2>1, CatNone
<1> QED BY ZenonT(60), <1>4, <1>5, <1>6

LEMMA CloseFlowOctets ==
  ASSUME IInv, NEW f, DOMAIN f = DOMAIN flow
  PROVE  /\ CloseFlow(f).wire = f.wire /\ CloseFlow(f).unsent = f.unsent /\ CloseFlow(f).ready = f.ready
         /\ CloseFlow(f).state \notin Live
<1>1. CASE f.state \notin Live
  BY ZenonT(60), <1>1 DEF CloseFlow, Live
<1>2. CASE f.state \in Live
  <2>1. CloseFlow(f) = [f EXCEPT !.state = IF @ = "Established" THEN "FinWait1" ELSE "LastAck"]
    BY ZenonT(60), <1>2 DEF CloseFlow, Live
  <2>2. /\ CloseFlow(f).wire = f.wire /\ CloseFlow(f).unsent = f.unsent /\ CloseFlow(f).ready = f.ready
        /\ CloseFlow(f).state \in {"FinWait1", "LastAck"}
    BY ZenonT(60), <2>1 DEF IInv, Shapes
  <2> QED BY ZenonT(60), <2>2 DEF Live
<1> QED BY ZenonT(60), <1>1, <1>2

LEMMA ControlRInv == ASSUME IInv, RInv, Control PROVE RInv'
<1> DEFINE msg == Head(inbox)
<1>0. /\ Shapes /\ sh.pc = "control" /\ sh.pc \in Loop /\ sh.pc \in Loop \cup {"exit"} /\ UNCHANGED <<gate, app, remote>>
      /\ inbox # Empty /\ inbox' = Tail(inbox) /\ deferred = Empty
  BY ZenonT(60) DEF IInv, Control, Loop, RInv, Placed
<1>a. FlowBounds(flow) /\ ses.queue \in 0..session_limit /\ flow.ready \in Nat
  BY ZenonT(60), BoundsHeld DEF FlowBounds
<1>b. popped' \in 0..kControlInboxBudget
  <2>1. popped \in 0..kControlInboxBudget /\ kControlInboxBudget \in Nat /\ popped < kControlInboxBudget /\ popped' = popped + 1
    BY BoundsHeld, BridgeAssumption DEF Control
  <2> QED BY <2>1
<1>1. /\ InboxBounds' /\ msg \in Message /\ Packed' \in Leases /\ Packed = Cat(msg.lease, Packed')
      /\ msg.type # "data" => Packed' = Packed
  BY ZenonT(60), <1>0, TakeBounds
<1>2. CASE msg.type = "stop"
  <2>1. Goto("exit") /\ UNCHANGED <<ses, flow, deferred>>
    BY ZenonT(60), <1>2 DEF Control
  <2>2. sh'.pc = "exit" /\ sh'.lease = sh.lease /\ OctetsKept(flow') /\ msg.type # "data"
    BY ZenonT(60), <1>0, <1>a, <1>2, <2>1 DEF Goto, Shapes, OctetsKept
  <2> QED BY ZenonT(60), <1>0, <1>a, <1>b, <1>1, <2>1, <2>2, TurnRInv
<1>3. CASE msg.type = "writable"
  <2> DEFINE f == [flow EXCEPT !.blocked = FALSE]
  <2>1. /\ UNCHANGED sh /\ UNCHANGED deferred
        /\ \/ ses' = DrainSession(ses, f).ses /\ flow' = DrainSession(ses, f).flow
           \/ UNCHANGED <<ses, flow>>
    BY <1>3 DEF Control
  <2>2. /\ DOMAIN f = DOMAIN flow /\ f.wire = flow.wire /\ f.unsent = flow.unsent /\ f.state = flow.state
        /\ f.send_closed = flow.send_closed /\ f.ready = flow.ready /\ f.ready \in Nat
    BY ZenonT(60), <1>0, <1>a DEF Shapes
  <2> HIDE DEF f
  <2>3. OctetsKept(f) /\ OctetsKept(flow)
    BY ZenonT(60), <1>a, <2>2 DEF OctetsKept
  <2>4. /\ ses'.queue \in 0..session_limit /\ ses'.pending = ses.pending /\ ses'.closed = ses.closed /\ OctetsKept(flow')
    <3>1. CASE ses' = DrainSession(ses, f).ses /\ flow' = DrainSession(ses, f).flow
      BY ZenonT(60), <1>0, <1>a, <2>2, <2>3, <3>1, DrainedKept
    <3>2. CASE UNCHANGED <<ses, flow>>
      BY ZenonT(60), <1>a, <2>3, <3>2
    <3> QED BY ZenonT(60), <2>1, <3>1, <3>2
  <2>5. msg.type # "data"
    BY ZenonT(60), <1>3
  <2> QED BY ZenonT(60), <1>0, <1>a, <1>b, <1>1, <2>1, <2>4, <2>5, TurnRInv
<1>4. CASE msg.type = "closed"
  <2> DEFINE f == [flow EXCEPT !.session = FALSE]
  <2>1. /\ DOMAIN f = DOMAIN flow /\ f.wire = flow.wire /\ f.unsent = flow.unsent /\ f.ready = flow.ready /\ ~f.session
    BY ZenonT(60), <1>0 DEF Shapes
  <2>2. UNCHANGED <<ses, deferred>> /\ msg.type # "data"
    BY ZenonT(60), <1>4 DEF Control
  <2>3. CASE UNCHANGED sh /\ flow' = flow
    <3>1. OctetsKept(flow')
      BY ZenonT(60), <1>a, <2>3 DEF OctetsKept
    <3> QED BY ZenonT(60), <1>0, <1>a, <1>b, <1>1, <2>2, <2>3, <3>1, TurnRInv
  <2>4. CASE UNCHANGED sh /\ flow' = CloseFlow(f)
    <3>1. OctetsKept(flow')
      <4> HIDE DEF f
      <4> QED BY ZenonT(60), <1>a, <2>1, <2>4, CloseFlowOctets DEF OctetsKept
    <3> QED BY ZenonT(60), <1>0, <1>a, <1>b, <1>1, <2>2, <2>4, <3>1, TurnRInv
  <2>5. CASE RemoveAt(f, "control")
    <3>1. gate'.active /\ ~gate'.held /\ "control" \in Afters /\ "control" # "release"
      BY ZenonT(60), <1>0, LoopActive DEF Afters
    <3> HIDE DEF f
    <3> QED BY ZenonT(60), <1>0, <1>b, <1>1, <2>1, <2>2, <2>5, <3>1, RemoveRInv
  <2> QED
    BY <1>4, <2>3, <2>4, <2>5 DEF Control
<1>5. CASE msg.type = "data"
  <2> DEFINE x == msg.lease
  <2>1. EnqueueRemoteData(x) /\ UNCHANGED ses /\ Goto(IF deferred' = Empty THEN "control" ELSE "timers")
    BY ZenonT(60), <1>5 DEF Control
  <2>2. x \in Leases
    BY <1>1 DEF Message
  <2>3. Packed = Cat(x, Packed')
    BY ZenonT(60), <1>1
  <2> HIDE DEF x
  <2>4. Line = Queue(flow.wire, flow.unsent, x, Packed', sh.lease, ses.pending, app.lease)
    <3>1. Line = Queue(flow.wire, flow.unsent, Empty, Cat(x, Packed'), sh.lease, ses.pending, app.lease)
      <4>1. Line = Queue(flow.wire, flow.unsent, deferred, Packed, sh.lease, ses.pending, app.lease)
        BY ZenonT(60), LineIs
      <4> QED BY ZenonT(60), <1>0, <2>3, <4>1
    <3>2. Cat(Empty, Cat(x, Packed')) = Cat(x, Packed')
      <4>1. Cat(x, Packed') \in Leases
        BY ZenonT(60), <1>1, <2>2, CatIn
      <4> QED BY ZenonT(60), <4>1, CatNone
    <3> QED BY ZenonT(60), <3>1, <3>2 DEF Queue
  <2>5. sh'.lease = sh.lease /\ sh'.pc \in Loop /\ (sh'.pc = "control" => deferred' = Empty)
    BY ZenonT(60), <1>0, <2>1 DEF Goto, Shapes, Loop
  <2>6. gate.active
    BY ZenonT(60), <1>0, LoopActive
  <2>7. Ordered'
    BY ZenonT(60), <1>0, <1>1, <2>1, <2>2, <2>4, <2>5, <2>6, EnqueueOrdered
  <2>8. deferred' \in Leases /\ FlowBounds(flow')
    BY ZenonT(60), <2>1, <2>2, Enqueued
  <2> QED BY ZenonT(60), <1>0, <1>a, <1>b, <1>1, <2>1, <2>5, <2>7, <2>8, LoopRInv
<1>6. CASE msg.type = "flowClose"
  <2>1. flow' = CloseFlow(flow) /\ UNCHANGED sh /\ UNCHANGED <<ses, deferred>> /\ msg.type # "data"
    BY ZenonT(60), <1>6 DEF Control
  <2>2. OctetsKept(flow')
    BY ZenonT(60), <1>a, <2>1, CloseFlowOctets DEF OctetsKept
  <2> QED BY ZenonT(60), <1>0, <1>a, <1>b, <1>1, <2>1, <2>2, TurnRInv
<1> QED
  BY <1>1, <1>2, <1>3, <1>4, <1>5, <1>6 DEF Message

-----------------------------------------------------------------------------
(* The invariant starts, is kept and says what it is for. *)
LEMMA InitRInv == Init => RInv
<1> SUFFICES ASSUME Init PROVE RInv
  BY ZenonT(60)
<1>0. /\ Empty \in Leases /\ Empty = << >> /\ Len(Empty) = 0 /\ DOMAIN Empty = {}
  BY DEF Empty, Leases
<1>1. /\ flow.wire = Empty /\ flow.unsent = Empty /\ deferred = Empty /\ inbox = Empty /\ popped = 0
      /\ flow.ready = 0 /\ ses.queue = 0 /\ ses.pending = Empty /\ ~gate.held /\ gate.active
      /\ sh.pc = "rx" /\ sh.lease = Empty /\ app.op = "none" /\ app.lease = Empty /\ remote.read = 0
  BY ZenonT(60) DEF Init, NewSession, NewGate, Idle
<1>2. Bounds
  <2>1. /\ 0 <= send_limit /\ 0 \in 0..session_limit /\ 0 <= inbox_capacity /\ 0 \in 0..kControlInboxBudget /\ 0 \in Nat
    BY BridgeAssumption
  <2> QED BY ZenonT(60), <1>0, <1>1, <2>1 DEF Bounds
<1>3. Handed /\ Placed
  BY ZenonT(60), <1>1 DEF Handed, Placed, Carrying, Reposting, Removing
<1>4. Packed = Empty
  <2>1. Carried = << >>
    BY <1>0, <1>1 DEF Carried
  <2> QED BY ZenonT(60), <1>0, <2>1, OctetsEmpty DEF Packed
<1>5. Sent = Empty /\ Line = Empty
  <2>1. Cat(Empty, Empty) = Empty
    BY ZenonT(60), <1>0, CatNone
  <2> QED BY ZenonT(60), <1>1, <1>4, <2>1, LineIs DEF Queue
<1>6. Counting(Empty)
  <2>1. Empty = [i \in 1..0 |-> i]
    BY DEF Empty
  <2> QED BY ZenonT(60), <1>0, <2>1 DEF Counting, FirstOctets
<1>7. Ordered
  BY ZenonT(60), <1>0, <1>1, <1>5, <1>6 DEF Ordered
<1> QED BY ZenonT(60), <1>2, <1>3, <1>7 DEF RInv

LEMMA NextRInv == ASSUME IInv, RInv, [Next]_vars PROVE RInv'
<1>1. CASE App
  BY ZenonT(60), <1>1, AppPostRInv, AppIsActiveRInv, AppStoreRInv, AppFinishRInv DEF App
<1>2. ASSUME NEW error \in {"RemoteClosed", "Reset"}, NEW abort \in BOOLEAN, OnClosed(error, abort)
      PROVE  RInv'
  BY ZenonT(60), <1>2, OnClosedRInv
<1>3. ASSUME NEW s \in {"none", "payload", "fin", "finAck"}, Receive(s)
      PROVE  RInv'
  BY ZenonT(60), <1>3, ReceiveRInv
<1>4. ASSUME NEW due \in BOOLEAN, Timers(due)
      PROVE  RInv'
  BY ZenonT(60), <1>4, TimersRInv
<1>5. ASSUME NEW o, Pump(o)
      PROVE  RInv'
  BY ZenonT(60), <1>5, PumpRInv
<1>6. CASE ShardTurns
  BY ZenonT(60), <1>3, <1>4, <1>5, <1>6, DeferredRInv, ControlRInv, ControlDoneRInv, ResumeRInv, RepostRInv, RestoreRInv,
     ResumedRInv, ClearRInv, WaitRInv, ExitRInv, ReleaseRInv DEF ShardTurns
<1> QED
  BY ZenonT(60), <1>1, <1>2, <1>6, OnDataReceivedRInv, DrainSendQueueRInv, StopRInv, PostFlowCloseRInv, StutterRInv DEF Next

LEMMA RInvIntact == ASSUME IInv, RInv PROVE RemoteIntact
<1>1. TypeOK
  <2>1. /\ Len(inbox) <= inbox_capacity /\ popped \in 0..kControlInboxBudget
        /\ Len(flow.unsent) <= send_limit /\ ses.queue \in 0..session_limit
        /\ gate.held => sh.pc \in {"clear", "wait"}
    BY ZenonT(60) DEF RInv, Bounds, Removing
  <2>2. ses.in_flight = (IF app.pc = "idle" THEN 0 ELSE 1)
                        + (IF sh.pc \in {"repost", "restore", "resumed"} THEN 1 ELSE 0)
    BY ZenonT(60) DEF IInv, Counted, Reposting
  <2> QED BY ZenonT(60), <2>1, <2>2 DEF TypeOK
<1>2. RemoteInOrder
  BY ZenonT(60) DEF RInv, Ordered, Counting, Sent, RemoteInOrder
<1>3. NothingLost
  <2> SUFFICES ASSUME flow.state \in Live, ~flow.send_closed, ~ses.closed, gate.active
               PROVE  Line = FirstOctets(remote.read)
    BY ZenonT(60) DEF NothingLost, Live, Line, Sent
  <2>1. Counting(Line) /\ Len(Line) = remote.read
    BY ZenonT(60) DEF RInv, Ordered, Open
  <2> QED BY ZenonT(60), <2>1 DEF Counting
<1> QED BY ZenonT(60), <1>1, <1>2, <1>3 DEF RemoteIntact

(* The promise of the bridge between the adapter and the shard: for every   *)
(* inbox capacity, send buffer and budget, and however TryPost refuses,     *)
(* EnqueueRemoteData splits and ResumeReceive takes up a lease again, the   *)
(* client's send buffer gets the remote peer's octets in order, and until   *)
(* either side closes each octet read is in exactly one place on its way.   *)
THEOREM RemoteStaysIntact == Spec => []RemoteIntact
<1>1. Init => IInv /\ RInv
  BY InitIInv, InitRInv
<1>2. IInv /\ RInv /\ [Next]_vars => IInv' /\ RInv'
  BY NextIInv, NextRInv
<1>3. IInv /\ RInv => RemoteIntact
  BY RInvIntact
<1> QED
  BY <1>1, <1>2, <1>3, PTL DEF Spec
=============================================================================
