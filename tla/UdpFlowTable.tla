---------------------------- MODULE UdpFlowTable ----------------------------
(***************************************************************************)
(* The shard-local UDP flow table (udp/flow_table.cpp) with the two parties *)
(* that reach it: the event loop of the shard, which hands it the client's  *)
(* datagrams, the messages of the control inbox and the purge of each       *)
(* iteration, and the adapter, whose threads run the callbacks the table    *)
(* installs on a session.                                                   *)
(*                                                                         *)
(* The event loop reads the clock once, at the top of an iteration          *)
(* (now_ms); OnRemoteData reads it afresh (clock).  Both are counted modulo *)
(* ClockModulus and subtracted as the code subtracts its uint64_t values.   *)
(* A session is named by the id of the flow it was opened for.  The vector  *)
(* of flows is in order of creation, hence of flow_id, and is kept as the   *)
(* set of its entries.                                                      *)
(***************************************************************************)
EXTENDS Integers, Sequences, FiniteSets, Functions

CONSTANTS
    FlowKeys,         \* the client's 4-tuples
    max_flows,        \* UdpFlowConfig::max_flows
    idle_timeout_ms,  \* UdpFlowConfig::idle_timeout_ms
    InboxCapacity,    \* capacity of the control inbox
    RxBudget,         \* datagrams of one iteration (bound)
    MaxFlowIds,       \* flows opened in a behaviour (bound)
    MaxPause,         \* the longest time between two iterations (bound)
    IterationMs,      \* how far the clock may move inside one iteration
    ClockModulus      \* 2^64, the width of the clock (scaled)

ASSUME UdpAssumption ==
    /\ max_flows \in Nat \ {0}
    /\ idle_timeout_ms \in Nat \ {0}
    /\ {InboxCapacity, RxBudget, MaxFlowIds, MaxPause, IterationMs} \subseteq Nat
    /\ ClockModulus \in Nat
    /\ ClockModulus > 2 * idle_timeout_ms + MaxPause + IterationMs

VARIABLES
    flows_,        \* the entries of the table
    flow_count_,   \* the counter other threads read
    next_flow_id_,
    shutdown_,
    callbacks,     \* sessions that hold the table's callbacks
    closed,        \* sessions whose remote channel is gone
    inbox,         \* the control inbox: kUdpSessionData and kUdpSessionClosed
    loop,          \* the step of the event loop and its datagrams so far
    now_ms,        \* the iteration's clock reading
    clock          \* the clock

table == <<flows_, flow_count_, next_flow_id_, shutdown_>>
vars == <<flows_, flow_count_, next_flow_id_, shutdown_, callbacks, closed,
          inbox, loop, now_ms, clock>>

FlowIds == 1 .. MaxFlowIds
Times == 0 .. ClockModulus - 1

\* An entry of the table.
Flow == [flow : FlowKeys, flow_id : FlowIds, session_bound : BOOLEAN, last_activity_ms : Times]

\* The message types the table's callbacks post; client is the flow's key at
\* the time, which only the properties read.
Messages == [type : {"kUdpSessionData", "kUdpSessionClosed"},
             flow_id : FlowIds, client : FlowKeys]

Init ==
    /\ flows_ = {} /\ flow_count_ = 0 /\ next_flow_id_ = 1 /\ shutdown_ = FALSE
    /\ callbacks = {} /\ closed = {} /\ inbox = <<>>
    /\ loop = [at |-> "wait", received |-> 0]
    /\ now_ms = 0 /\ clock = 0

-----------------------------------------------------------------------------
(* The table.                                                              *)

\* Unsigned subtraction of two readings of the clock.
Elapsed(now, then) == (now - then) % ClockModulus

Idle(f, now) == Elapsed(now, f.last_activity_ms) >= idle_timeout_ms

\* The sessions of fs that hold callbacks.
Bound(fs) == {f.flow_id : f \in {g \in fs : g.session_bound}}

\* The flows of gone are unbound, erased and counted off: UnbindSession takes
\* a session's callbacks away and waits for a running one.
Evict(gone) ==
    /\ flows_' = flows_ \ gone
    /\ flow_count_' = flow_count_ - Cardinality(gone)
    /\ callbacks' = callbacks \ Bound(gone)

Find(fs, key) == {f \in fs : f.flow = key}
FindById(fs, id) == {f \in fs : f.flow_id = id}

\* What FindOrCreate evicts to make room: at capacity, the first idle entry
\* of the vector.
MakeRoom(fs, now) ==
    LET idle == {f \in fs : Idle(f, now)}
    IN  IF Cardinality(fs) >= max_flows /\ idle # {}
        THEN {CHOOSE f \in idle : \A g \in idle : f.flow_id <= g.flow_id} ELSE {}

NewFlow_Reused(key, opened) ==
    [flow |-> key, flow_id |-> Cardinality(flows_) + 1, session_bound |-> opened,
     last_activity_ms |-> now_ms]

NewFlow(key, opened) ==
    [flow |-> key, flow_id |-> next_flow_id_, session_bound |-> opened,
     last_activity_ms |-> now_ms]

\* Send of the session of flow id: a session that is gone says so.
SendStatus(id) ==
    IF id \in closed THEN {"Closed"} ELSE {"Accepted", "WouldBlock", "Throws"}

\* Entry f with a new time of activity.
Stamp(f, time) == (flows_ \ {f}) \cup {[f EXCEPT !.last_activity_ms = time]}

\* OnClientDatagram for a flow of the table.
KnownFlow_Keeps(f, status) ==
    /\ flows_' = IF f.session_bound THEN Stamp(f, now_ms) ELSE flows_
    /\ UNCHANGED <<flow_count_, callbacks>>

KnownFlow(f, status) ==
    IF ~f.session_bound
    THEN UNCHANGED <<flows_, flow_count_, callbacks>>
    ELSE IF status = "Closed" THEN Evict({f})
    ELSE flows_' = Stamp(f, now_ms) /\ UNCHANGED <<flow_count_, callbacks>>

\* OnClientDatagram for a flow the table does not hold: FindOrCreate, the
\* factory's answer, and the first Send that a session does not refuse.
UnknownFlow(key, opened) ==
    LET gone == MakeRoom(flows_, now_ms)
        f == NewFlow(key, opened)
    IN  IF Cardinality(flows_ \ gone) >= max_flows
        THEN UNCHANGED <<flows_, flow_count_, next_flow_id_, callbacks>>
        ELSE /\ flows_' = (flows_ \ gone) \cup {f}
             /\ flow_count_' = flow_count_ - Cardinality(gone) + 1
             /\ next_flow_id_' = next_flow_id_ + 1
             /\ callbacks' = (callbacks \ Bound(gone)) \cup Bound({f})

\* The first Send finds the new session already gone: the flow is created,
\* bound and evicted again.
StillbornFlow ==
    LET gone == MakeRoom(flows_, now_ms)
    IN  /\ Cardinality(flows_ \ gone) < max_flows
        /\ Evict(gone)
        /\ next_flow_id_' = next_flow_id_ + 1

OnClientDatagram(key) ==
    \/ \E f \in Find(flows_, key) :
          /\ \E status \in SendStatus(f.flow_id) : KnownFlow(f, status)
          /\ UNCHANGED next_flow_id_
    \/ /\ Find(flows_, key) = {}
       /\ next_flow_id_ \in FlowIds
       /\ \/ \E opened \in BOOLEAN : UnknownFlow(key, opened)
          \/ StillbornFlow

\* OnRemoteData: the flow is stamped with the clock of the moment, whatever
\* becomes of the datagram in the emitter.
OnRemoteData(id) ==
    /\ IF FindById(flows_, id) = {} THEN UNCHANGED flows_
       ELSE \E f \in FindById(flows_, id) : flows_' = Stamp(f, clock)
    /\ UNCHANGED <<flow_count_, callbacks>>

OnFlowClosed(id) == Evict(FindById(flows_, id))

PurgeExpired_Strict(now) ==
    Evict({f \in flows_ : Elapsed(now, f.last_activity_ms) >= idle_timeout_ms - 1})

PurgeExpired(now) == Evict({f \in flows_ : Idle(f, now)})

-----------------------------------------------------------------------------
(* The event loop of the shard, as far as the table is concerned.          *)

\* The next iteration starts after a pause and reads the clock.
StartIteration ==
    /\ loop.at = "wait" /\ ~shutdown_
    /\ \E pause \in 0 .. MaxPause :
          /\ clock' = (clock + pause) % ClockModulus
          /\ now_ms' = clock'
    /\ loop' = [at |-> "rx", received |-> 0]
    /\ UNCHANGED <<table, callbacks, closed, inbox>>

\* A client datagram of the RX batch that parses, belongs to this shard and
\* fits the path (HandleUdp, HandleReassembledUdp).
ClientDatagram ==
    /\ loop.at = "rx" /\ loop.received < RxBudget
    /\ \E key \in FlowKeys : OnClientDatagram(key)
    /\ loop' = [loop EXCEPT !.received = @ + 1]
    /\ UNCHANGED <<shutdown_, closed, inbox, now_ms, clock>>

\* The clock moves while the iteration works through its RX batches.
RxDone ==
    /\ loop.at = "rx"
    /\ \E d \in 0 .. IterationMs : clock' = (clock + d) % ClockModulus
    /\ loop' = [loop EXCEPT !.at = "control"]
    /\ UNCHANGED <<table, callbacks, closed, inbox, now_ms>>

\* One message of the control inbox.
ControlMessage ==
    /\ loop.at = "control" /\ inbox # <<>>
    /\ LET msg == Head(inbox)
       IN  IF msg.type = "kUdpSessionData" THEN OnRemoteData(msg.flow_id)
                                           ELSE OnFlowClosed(msg.flow_id)
    /\ inbox' = Tail(inbox)
    /\ UNCHANGED <<next_flow_id_, shutdown_, closed, loop, now_ms, clock>>

\* The inbox is empty, its budget is spent, or TCP data that finds no room
\* holds up what is behind it: the iteration goes on to its purge.
Purge ==
    /\ loop.at = "control"
    /\ PurgeExpired(now_ms)
    /\ loop' = [loop EXCEPT !.at = "wait"]
    /\ UNCHANGED <<next_flow_id_, shutdown_, closed, inbox, now_ms, clock>>

\* StackShard::Stop, once the shard's thread is joined: Shutdown.
Shutdown ==
    /\ loop.at = "wait" /\ ~shutdown_
    /\ shutdown_' = TRUE
    /\ flows_' = {} /\ flow_count_' = 0
    /\ callbacks' = callbacks \ Bound(flows_)
    /\ UNCHANGED <<next_flow_id_, closed, inbox, loop, now_ms, clock>>

-----------------------------------------------------------------------------
(* The adapter: the callbacks of a session run while they are installed.   *)

Client(id) == (CHOOSE f \in flows_ : f.flow_id = id).flow

Post(type, id) ==
    inbox' = IF Len(inbox) < InboxCapacity
             THEN Append(inbox, [type |-> type, flow_id |-> id, client |-> Client(id)])
             ELSE inbox

\* The data callback; the lease of a message that finds the inbox full goes
\* back to the adapter.
RemoteData ==
    /\ \E id \in callbacks \ closed : Post("kUdpSessionData", id)
    /\ UNCHANGED <<table, callbacks, closed, loop, now_ms, clock>>

\* The remote channel goes away; the closed callback posts once, and the
\* message is lost when the inbox is full.
RemoteClosed ==
    /\ \E id \in callbacks \ closed :
          /\ closed' = closed \cup {id}
          /\ Post("kUdpSessionClosed", id)
    /\ UNCHANGED <<table, callbacks, loop, now_ms, clock>>

-----------------------------------------------------------------------------
Shard == StartIteration \/ ClientDatagram \/ RxDone \/ ControlMessage \/ Purge
Adapter == RemoteData \/ RemoteClosed

Next == Shard \/ Adapter \/ Shutdown

Spec == Init /\ [][Next]_vars

\* The event loop keeps turning and the clock keeps moving.
Fairness ==
    /\ WF_vars(StartIteration \/ RxDone \/ Purge)
    /\ SF_vars(StartIteration /\ clock' # clock)

LiveSpec == Spec /\ Fairness

-----------------------------------------------------------------------------
\* Every variable has its type.
TypeOK ==
    /\ flows_ \subseteq Flow /\ IsFiniteSet(flows_)
    /\ flow_count_ \in 0 .. max_flows
    /\ next_flow_id_ \in 1 .. MaxFlowIds + 1
    /\ shutdown_ \in BOOLEAN
    /\ callbacks \subseteq FlowIds /\ closed \subseteq FlowIds
    /\ inbox \in Seq(Messages)
    /\ loop \in [at : {"wait", "rx", "control"}, received : 0 .. RxBudget]
    /\ now_ms \in Times /\ clock \in Times

\* The counter other threads read is the size of the table, the table stays
\* within its capacity and holds one entry for a 4-tuple (FindOrCreate, Evict,
\* Shutdown).
SizeExact ==
    /\ flow_count_ = Cardinality(flows_) /\ flow_count_ <= max_flows
    /\ \A f, g \in flows_ : f.flow = g.flow => f = g

\* Only a session of a flow in the table holds callbacks into the table, so
\* none runs after the eviction of its flow or after Shutdown, when the table
\* is about to be destroyed (UnbindSession).
CallbacksBound == callbacks = Bound(flows_)

\* A message that waits in the inbox while its flow is evicted and its 4-tuple,
\* or its place in the table, is taken by another flow finds no flow or the
\* one it was posted for: its datagram is never emitted to another client, and
\* its close never ends another flow (flow ids are never reused).
RightClient ==
    \A m \in Range(inbox) : \A f \in FindById(flows_, m.flow_id) : f.flow = m.client

\* Callbacks, messages and the published count belong to the flows of the table
\* as it is: only sessions of its flows hold callbacks into it, a message that
\* outlives its flow finds no other client's flow, and the table has one entry
\* for a 4-tuple (UnbindSession, FindOrCreate, Evict).
SessionsBound == TypeOK /\ SizeExact /\ CallbacksBound /\ RightClient

\* A flow with an open session leaves a running table only after
\* idle_timeout_ms without traffic by the clock (PurgeExpired, FindOrCreate).
IdleBeforeEvicted ==
    [][\A f \in flows_ :
          (/\ f.session_bound /\ f.flow_id \notin closed /\ ~shutdown_'
           /\ FindById(flows_', f.flow_id) = {})
          => Idle(f, clock)]_vars

\* The entry evicted to make room has been idle longest, as the comment in
\* FindOrCreate has it.
OldestIdleEvicted ==
    [][loop.at = "rx" /\ loop'.at = "rx" =>
          \A f \in flows_ :
             (/\ FindById(flows_', f.flow_id) = {} /\ f.flow_id \notin closed)
             => \A g \in flows_ :
                   Elapsed(now_ms, g.last_activity_ms) <= Elapsed(now_ms, f.last_activity_ms)]_vars

\* The flow of a session whose remote channel is gone leaves the table, even
\* when its kUdpSessionClosed message was lost to a full inbox or waits behind
\* TCP data without end: its client's next datagram finds the session closed,
\* or the flow falls idle.
ClosedFlowGoes ==
    \A id \in FlowIds : id \in closed ~> FindById(flows_, id) = {}
=============================================================================
