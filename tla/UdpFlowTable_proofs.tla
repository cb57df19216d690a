------------------------ MODULE UdpFlowTable_proofs ------------------------
(***************************************************************************)
(* SessionsBound for any number of clients, any capacities, timeouts and   *)
(* clock width.  The strengthening is that flow ids only grow: every id in *)
(* the table or in a message of the inbox was given out before, and no two *)
(* entries share one.  IdleBeforeEvicted holds as long as the clock stands *)
(* still within an iteration; its invariant is that the loop works with    *)
(* the clock's present reading and that a session is closed when its       *)
(* kUdpSessionClosed message waits.                                        *)
(***************************************************************************)
EXTENDS UdpFlowTable, ArithmeticLemmas, TLAPS

\* The table, its counter and the callbacks into it.
Table ==
    /\ flows_ \subseteq Flow /\ IsFiniteSet(flows_)
    /\ flow_count_ = Cardinality(flows_) /\ flow_count_ \in 0 .. max_flows
    /\ callbacks = Bound(flows_)
    /\ next_flow_id_ \in 1 .. MaxFlowIds + 1
    /\ \A f \in flows_ : f.flow_id < next_flow_id_
    /\ \A f, g \in flows_ : f.flow = g.flow \/ f.flow_id = g.flow_id => f = g

\* The messages that wait.
Posted ==
    /\ inbox \in Seq(Messages)
    /\ \A m \in Range(inbox) : m.flow_id < next_flow_id_
    /\ RightClient

\* The rest has its types.
Around ==
    /\ shutdown_ \in BOOLEAN /\ closed \subseteq FlowIds
    /\ loop \in [at : {"wait", "rx", "control"}, received : 0 .. RxBudget]
    /\ now_ms \in Times /\ clock \in Times

IInv == Table /\ Posted /\ Around

\* Every entry with an id given out before was there with its client.
Inherits ==
    /\ \A g \in flows_' : g.flow_id < next_flow_id_ =>
          \E f \in flows_ : f.flow_id = g.flow_id /\ f.flow = g.flow
    /\ next_flow_id_ <= next_flow_id_'

-----------------------------------------------------------------------------
(* Evict keeps the table: its counter and the callbacks go with the entries. *)
LEMMA EvictTable ==
  ASSUME Table, NEW gone \in SUBSET flows_, Evict(gone),
         next_flow_id_' \in next_flow_id_ .. MaxFlowIds + 1
  PROVE  Table' /\ Inherits
<1>1. /\ flows_' = flows_ \ gone /\ flow_count_' = flow_count_ - Cardinality(gone)
      /\ callbacks' = callbacks \ Bound(gone)
  BY ZenonT(60) DEF Evict
<1>2. /\ IsFiniteSet(flows_) /\ IsFiniteSet(gone) /\ flows_ \cap gone = gone
      /\ Cardinality(flows_) \in Nat /\ Cardinality(gone) \in Nat
      /\ Cardinality(gone) <= Cardinality(flows_)
  BY ZenonT(60), FS_Subset, FS_CardinalityType DEF Table
<1>3. IsFiniteSet(flows_ \ gone) /\ Cardinality(flows_ \ gone) = Cardinality(flows_) - Cardinality(gone)
  BY ZenonT(60), <1>2, FS_Difference
<1>4. flow_count_' = Cardinality(flows_') /\ flow_count_' \in 0 .. max_flows
  BY <1>1, <1>2, <1>3, UdpAssumption DEF Table
<1>5. callbacks' = Bound(flows_')
  BY ZenonT(60), <1>1 DEF Table, Bound
<1>6. next_flow_id_ \in Int /\ next_flow_id_ >= 1 /\ MaxFlowIds \in Nat
  BY UdpAssumption DEF Table
<1>7. next_flow_id_ <= next_flow_id_' /\ next_flow_id_' \in 1 .. MaxFlowIds + 1
  BY <1>6
<1>8. \A f \in flows_' : f.flow_id < next_flow_id_'
  <2>1. \A f \in flows_ : f.flow_id \in Int
    BY DEF Table, Flow, FlowIds
  <2> QED BY <1>1, <1>6, <1>7, <2>1 DEF Table
<1>9. /\ flows_' \subseteq Flow /\ IsFiniteSet(flows_')
      /\ \A f, g \in flows_' : f.flow = g.flow \/ f.flow_id = g.flow_id => f = g
  BY ZenonT(60), <1>1, <1>3 DEF Table
<1>10. Inherits
  BY ZenonT(60), <1>1, <1>7 DEF Inherits
<1> QED BY ZenonT(60), <1>4, <1>5, <1>7, <1>8, <1>9, <1>10 DEF Table

(* A new time of activity changes neither who is in the table nor its size.  *)
LEMMA StampTable ==
  ASSUME Table, NEW f \in flows_, NEW time \in Times, flows_' = Stamp(f, time),
         UNCHANGED <<flow_count_, callbacks, next_flow_id_>>
  PROVE  Table' /\ Inherits
<1> DEFINE h == [f EXCEPT !.last_activity_ms = time]
<1>1. f \in Flow
  BY ZenonT(60) DEF Table
<1>2. /\ h \in Flow /\ h.flow = f.flow /\ h.flow_id = f.flow_id /\ h.session_bound = f.session_bound
  BY ZenonT(60), <1>1 DEF Flow
<1>3. flows_' = (flows_ \ {f}) \cup {h}
  BY ZenonT(60) DEF Stamp
<1> HIDE DEF h
<1>4. h \notin flows_ \ {f}
  BY ZenonT(60), <1>2 DEF Table
<1>5. IsFiniteSet(flows_ \ {f}) /\ Cardinality(flows_ \ {f}) = Cardinality(flows_) - 1
  BY ZenonT(60), FS_RemoveElement DEF Table
<1>6. IsFiniteSet(flows_') /\ Cardinality(flows_') = Cardinality(flows_ \ {f}) + 1
  <2>1. /\ IsFiniteSet((flows_ \ {f}) \cup {h})
        /\ Cardinality((flows_ \ {f}) \cup {h}) = Cardinality(flows_ \ {f}) + 1
    <3> DEFINE rest == flows_ \ {f}
    <3>1. IsFiniteSet(rest) /\ h \notin rest
      BY ZenonT(60), <1>4, <1>5
    <3> HIDE DEF rest
    <3>2. IsFiniteSet(rest \cup {h}) /\ Cardinality(rest \cup {h}) = Cardinality(rest) + 1
      BY <3>1, FS_AddElement
    <3> QED BY ZenonT(60), <3>2 DEF rest
  <2> QED BY ZenonT(60), <1>3, <2>1
<1>7. Cardinality(flows_') = Cardinality(flows_)
  <2>1. Cardinality(flows_) \in Nat
    BY ZenonT(60), FS_CardinalityType DEF Table
  <2> QED BY <1>5, <1>6, <2>1
<1>8. Bound(flows_') = Bound(flows_)
  BY ZenonT(60), <1>2, <1>3 DEF Bound
<1>9. /\ flows_' \subseteq Flow
      /\ \A g \in flows_' : g.flow_id < next_flow_id_
      /\ \A g, k \in flows_' : g.flow = k.flow \/ g.flow_id = k.flow_id => g = k
  BY ZenonT(60), <1>2, <1>3 DEF Table
<1>10. next_flow_id_ <= next_flow_id_
  BY DEF Table
<1>11. Inherits
  BY ZenonT(60), <1>2, <1>3, <1>10 DEF Inherits
<1> QED BY ZenonT(60), <1>6, <1>7, <1>8, <1>9, <1>11 DEF Table

(* FindOrCreate evicts entries of the table, if any, that are idle.          *)
LEMMA MakeRoomTable ==
  ASSUME Table, NEW now
  PROVE  MakeRoom(flows_, now) \in SUBSET {f \in flows_ : Idle(f, now)}
<1> DEFINE idle == {f \in flows_ : Idle(f, now)}
           ids == {f.flow_id : f \in idle}
<1>1. CASE idle = {}
  BY ZenonT(60), <1>1 DEF MakeRoom
<1>2. CASE idle # {}
  <2>1. ids \in SUBSET Nat /\ ids # {}
    <3>1. \A f \in flows_ : f.flow_id \in Nat
      BY DEF Table, Flow, FlowIds
    <3> QED BY ZenonT(60), <1>2, <3>1
  <2>2. \E n \in ids : \A m \in ids : n <= m
    <3> HIDE DEF ids
    <3> QED BY ZenonT(60), <2>1, LeastNat
  <2>3. \E f \in idle : \A g \in idle : f.flow_id <= g.flow_id
    BY ZenonT(60), <2>2
  <2>4. (CHOOSE f \in idle : \A g \in idle : f.flow_id <= g.flow_id) \in idle
    <3> HIDE DEF idle
    <3> QED BY ZenonT(60), <2>3
  <2> QED BY ZenonT(60), <2>4 DEF MakeRoom
<1> QED BY ZenonT(60), <1>1, <1>2

(* FindOrCreate adds an entry with a new key and a new id.                   *)
LEMMA CreateTable ==
  ASSUME Table, now_ms \in Times, NEW key \in FlowKeys, Find(flows_, key) = {},
         next_flow_id_ \in FlowIds, NEW opened \in BOOLEAN, UnknownFlow(key, opened)
  PROVE  Table' /\ Inherits
<1> DEFINE gone == MakeRoom(flows_, now_ms)
           f == NewFlow(key, opened)
           rest == flows_ \ gone
<1>1. gone \in SUBSET flows_
  BY ZenonT(60), MakeRoomTable
<1>2. /\ f \in Flow /\ f.flow = key /\ f.flow_id = next_flow_id_ /\ f.session_bound = opened
  BY ZenonT(60) DEF NewFlow, Flow
<1>3. /\ IsFiniteSet(rest) /\ Cardinality(rest) = Cardinality(flows_) - Cardinality(gone)
      /\ Cardinality(flows_) \in Nat /\ Cardinality(gone) \in Nat /\ Cardinality(rest) \in Nat
  <2>1. flows_ \cap gone = gone /\ IsFiniteSet(flows_) /\ IsFiniteSet(gone)
    BY ZenonT(60), <1>1, FS_Subset DEF Table
  <2> QED BY ZenonT(60), <2>1, FS_Difference, FS_CardinalityType
<1>4. /\ next_flow_id_ \in Nat /\ next_flow_id_ + 1 \in 1 .. MaxFlowIds + 1
      /\ next_flow_id_ <= next_flow_id_ + 1 /\ next_flow_id_ <= next_flow_id_
      /\ next_flow_id_ < next_flow_id_ + 1 /\ ~(next_flow_id_ < next_flow_id_)
  BY UdpAssumption DEF FlowIds
<1>5. CASE Cardinality(rest) >= max_flows
  <2>1. UNCHANGED <<flows_, flow_count_, next_flow_id_, callbacks>>
    BY ZenonT(60), <1>5 DEF UnknownFlow
  <2>2. Table'
    BY ZenonT(60), <2>1 DEF Table, Bound
  <2> QED BY ZenonT(60), <1>4, <2>1, <2>2 DEF Inherits
<1>6. CASE ~(Cardinality(rest) >= max_flows)
  <2>1. /\ flows_' = rest \cup {f}
        /\ flow_count_' = flow_count_ - Cardinality(gone) + 1
        /\ next_flow_id_' = next_flow_id_ + 1
        /\ callbacks' = (callbacks \ Bound(gone)) \cup Bound({f})
    BY ZenonT(60), <1>6 DEF UnknownFlow
  <2>2. \A g \in flows_ : g \in Flow /\ g.flow_id < next_flow_id_ /\ g.flow # key
    BY ZenonT(60) DEF Table, Find
  <2>3. \A g \in flows_ : g.flow_id < next_flow_id_ + 1 /\ g.flow_id # next_flow_id_
    BY <1>4, <2>2 DEF Flow, FlowIds
  <2>4. \A g \in rest : g \in flows_
    BY ZenonT(60)
  <2>5. callbacks' = Bound(flows_')
    <3>1. callbacks = Bound(flows_) /\ \A g, k \in flows_ : g.flow_id = k.flow_id => g = k
      BY ZenonT(60) DEF Table
    <3>2. Bound(flows_) \ Bound(gone) = Bound(rest)
      BY ZenonT(60), <1>1, <3>1 DEF Bound
    <3>3. Bound(rest \cup {f}) = Bound(rest) \cup Bound({f})
      <4> HIDE DEF rest, f
      <4> QED BY ZenonT(60) DEF Bound
    <3> QED BY ZenonT(60), <2>1, <3>1, <3>2, <3>3
  <2> HIDE DEF f, gone, rest
  <2>6. f \notin rest
    BY ZenonT(60), <1>2, <2>2, <2>4
  <2>7. IsFiniteSet(rest \cup {f}) /\ Cardinality(rest \cup {f}) = Cardinality(rest) + 1
    BY <1>3, <2>6, FS_AddElement
  <2>8. flow_count_' = Cardinality(flows_') /\ flow_count_' \in 0 .. max_flows
    BY <1>3, <1>6, <2>1, <2>7, UdpAssumption DEF Table
  <2>9. /\ flows_' \subseteq Flow /\ IsFiniteSet(flows_')
        /\ \A g \in flows_' : g.flow_id < next_flow_id_'
    BY ZenonT(60), <1>2, <1>4, <2>1, <2>2, <2>3, <2>4, <2>7
  <2>10. \A g, k \in flows_' : g.flow = k.flow \/ g.flow_id = k.flow_id => g = k
    <3>1. \A g, k \in rest : g.flow = k.flow \/ g.flow_id = k.flow_id => g = k
      BY ZenonT(60), <2>4 DEF Table
    <3>2. \A g \in rest : g.flow # f.flow /\ g.flow_id # f.flow_id
      BY ZenonT(60), <1>2, <2>2, <2>3, <2>4
    <3> QED BY ZenonT(60), <2>1, <3>1, <3>2
  <2>11. Inherits
    BY ZenonT(60), <1>2, <1>4, <2>1, <2>4 DEF Inherits
  <2> QED BY ZenonT(60), <1>4, <2>1, <2>5, <2>8, <2>9, <2>10, <2>11 DEF Table
<1> QED BY ZenonT(60), <1>5, <1>6

-----------------------------------------------------------------------------
(* A message that waits stays right while ids are inherited, never reused.   *)
LEMMA PostedKept ==
  ASSUME Table, Posted, Inherits, next_flow_id_' \in Nat,
         \/ inbox' = inbox
         \/ inbox # <<>> /\ inbox' = Tail(inbox)
  PROVE  Posted'
<1>1. inbox' \in Seq(Messages) /\ \A i \in DOMAIN inbox' : \E j \in DOMAIN inbox : inbox'[i] = inbox[j]
  <2>1. CASE inbox' = inbox
    BY ZenonT(60), <2>1 DEF Posted
  <2>2. CASE inbox # <<>> /\ inbox' = Tail(inbox)
    <3>1. /\ inbox \in Seq(Messages) /\ Tail(inbox) \in Seq(Messages)
          /\ \A i \in 1 .. Len(Tail(inbox)) : i + 1 \in 1 .. Len(inbox) /\ Tail(inbox)[i] = inbox[i + 1]
          /\ DOMAIN inbox = 1 .. Len(inbox) /\ DOMAIN Tail(inbox) = 1 .. Len(Tail(inbox))
      BY <2>2 DEF Posted
    <3> QED BY ZenonT(60), <2>2, <3>1
  <2> QED BY ZenonT(60), <2>1, <2>2
<1>2. \A m \in Range(inbox') : m \in Range(inbox) /\ m \in Messages
  <2>1. \A j \in DOMAIN inbox : inbox[j] \in Messages
    BY DEF Posted
  <2> QED BY ZenonT(60), <1>1, <2>1 DEF Range
<1>3. \A m \in Range(inbox') : m.flow_id < next_flow_id_ /\ m.flow_id \in Int
  BY <1>2 DEF Posted, Messages, FlowIds
<1>4. \A m \in Range(inbox') : m.flow_id < next_flow_id_'
  BY <1>3 DEF Inherits, Table
<1>5. RightClient'
  BY ZenonT(60), <1>2, <1>3 DEF Posted, RightClient, FindById, Inherits
<1> QED BY ZenonT(60), <1>1, <1>4, <1>5 DEF Posted

(* A callback posts a message for the client of the flow it was made for.    *)
LEMMA PostKept ==
  ASSUME Table, Posted, NEW type \in {"kUdpSessionData", "kUdpSessionClosed"},
         NEW id \in callbacks, Post(type, id), UNCHANGED table
  PROVE  Posted' /\ id \in FlowIds
<1> DEFINE m == [type |-> type, flow_id |-> id, client |-> Client(id)]
<1>1. PICK f \in flows_ : f.flow_id = id
  BY ZenonT(60) DEF Table, Bound
<1>2. \A g \in flows_ : g.flow_id = id => g = f
  BY ZenonT(60), <1>1 DEF Table
<1>3. Client(id) = f.flow
  <2>1. (CHOOSE g \in flows_ : g.flow_id = id) = f
    BY ZenonT(60), <1>1, <1>2
  <2> QED BY ZenonT(60), <2>1 DEF Client
<1>4. f \in Flow /\ f.flow_id < next_flow_id_
  BY ZenonT(60) DEF Table
<1>5. /\ m \in Messages /\ m.flow_id = id /\ m.client = f.flow /\ m.flow_id < next_flow_id_
      /\ id \in FlowIds
  BY ZenonT(60), <1>1, <1>3, <1>4 DEF Flow, Messages
<1>6. UNCHANGED <<flows_, next_flow_id_>>
  BY ZenonT(60) DEF table
<1>7. CASE inbox' = inbox
  BY ZenonT(60), <1>5, <1>6, <1>7 DEF Posted, RightClient, FindById
<1>8. CASE inbox' = Append(inbox, m)
  <2> HIDE DEF m
  <2>1. inbox' \in Seq(Messages) /\ \A i \in DOMAIN inbox' : inbox'[i] = m \/ \E j \in DOMAIN inbox : inbox'[i] = inbox[j]
    <3>1. /\ inbox \in Seq(Messages) /\ inbox' \in Seq(Messages)
          /\ Len(inbox') = Len(inbox) + 1 /\ Len(inbox) \in Nat
          /\ \A i \in 1 .. Len(inbox) : inbox'[i] = inbox[i]
          /\ inbox'[Len(inbox) + 1] = m
          /\ DOMAIN inbox = 1 .. Len(inbox) /\ DOMAIN inbox' = 1 .. Len(inbox')
      BY <1>5, <1>8 DEF Posted
    <3>2. \A i \in DOMAIN inbox' : i \in DOMAIN inbox \/ i = Len(inbox) + 1
      BY <3>1
    <3> QED BY ZenonT(60), <3>1, <3>2
  <2>2. \A k \in Range(inbox') : k = m \/ k \in Range(inbox)
    BY ZenonT(60), <2>1 DEF Range
  <2>3. \A k \in Range(inbox') : k.flow_id < next_flow_id_
    BY ZenonT(60), <1>5, <2>2 DEF Posted
  <2>4. \A g \in FindById(flows_, m.flow_id) : g.flow = m.client
    BY ZenonT(60), <1>2, <1>5 DEF FindById
  <2>5. \A k \in Range(inbox') : \A g \in FindById(flows_, k.flow_id) : g.flow = k.client
    BY ZenonT(60), <2>2, <2>4 DEF Posted, RightClient
  <2>6. RightClient'
    BY ZenonT(60), <1>6, <2>5 DEF RightClient, FindById
  <2> QED BY ZenonT(60), <1>5, <1>6, <2>1, <2>3, <2>6 DEF Posted
<1> QED BY ZenonT(60), <1>7, <1>8 DEF Post

(* A client's datagram finds its flow or makes one.                          *)
LEMMA OnClientDatagramTable ==
  ASSUME Table, now_ms \in Times, NEW key \in FlowKeys, OnClientDatagram(key)
  PROVE  Table' /\ Inherits
<1>0. /\ next_flow_id_ \in next_flow_id_ .. MaxFlowIds + 1 /\ next_flow_id_ <= next_flow_id_
  BY UdpAssumption DEF Table
<1>1. ASSUME NEW f \in Find(flows_, key), NEW status, KnownFlow(f, status), UNCHANGED next_flow_id_
      PROVE  Table' /\ Inherits
  <2>0. f \in flows_ /\ {f} \in SUBSET flows_
    BY ZenonT(60) DEF Find
  <2>1. CASE UNCHANGED <<flows_, flow_count_, callbacks>>
    <3>1. Table'
      BY ZenonT(60), <1>1, <2>1 DEF Table, Bound
    <3> QED BY ZenonT(60), <1>0, <1>1, <2>1, <3>1 DEF Inherits
  <2>2. CASE Evict({f})
    BY ZenonT(60), <1>0, <1>1, <2>0, <2>2, EvictTable
  <2>3. CASE flows_' = Stamp(f, now_ms) /\ UNCHANGED <<flow_count_, callbacks>>
    BY ZenonT(60), <1>1, <2>0, <2>3, StampTable
  <2> QED BY ZenonT(60), <1>1, <2>1, <2>2, <2>3 DEF KnownFlow
<1>2. ASSUME Find(flows_, key) = {}, next_flow_id_ \in FlowIds,
             NEW opened \in BOOLEAN, UnknownFlow(key, opened)
      PROVE  Table' /\ Inherits
  BY ZenonT(60), <1>2, CreateTable
<1>3. ASSUME next_flow_id_ \in FlowIds, StillbornFlow
      PROVE  Table' /\ Inherits
  <2>1. next_flow_id_' = next_flow_id_ + 1 /\ Evict(MakeRoom(flows_, now_ms))
    BY ZenonT(60), <1>3 DEF StillbornFlow
  <2>2. next_flow_id_' \in next_flow_id_ .. MaxFlowIds + 1
    BY <1>3, <2>1, UdpAssumption DEF FlowIds
  <2>3. MakeRoom(flows_, now_ms) \in SUBSET flows_
    BY ZenonT(60), MakeRoomTable
  <2> QED BY ZenonT(60), <2>1, <2>2, <2>3, EvictTable
<1> QED BY ZenonT(60), <1>1, <1>2, <1>3 DEF OnClientDatagram

-----------------------------------------------------------------------------
(* A step that leaves table, callbacks and inbox alone.                      *)
LEMMA SameTable ==
  ASSUME Table, Posted, UNCHANGED <<table, callbacks, inbox>>
  PROVE  Table' /\ Posted'
<1>1. UNCHANGED <<flows_, flow_count_, next_flow_id_, callbacks, inbox>>
  BY ZenonT(60) DEF table
<1> QED BY ZenonT(60), <1>1 DEF Table, Posted, Bound, RightClient, FindById

(* A reading of the clock stays within its width.                            *)
LEMMA ClockTurns ==
  ASSUME clock \in Times, NEW d \in Nat
  PROVE  (clock + d) % ClockModulus \in Times
<1>1. ClockModulus \in Nat \ {0} /\ clock + d \in Nat
  BY UdpAssumption DEF Times
<1> QED BY <1>1 DEF Times

(* The steps of the event loop keep the invariant.                           *)
LEMMA ShardIInv ==
  ASSUME IInv, Shard
  PROVE  IInv'
<1> USE DEF IInv
<1>0. next_flow_id_ \in Nat /\ next_flow_id_ \in next_flow_id_ .. MaxFlowIds + 1
  BY UdpAssumption DEF Table
<1>1. CASE StartIteration
  <2>1. Table' /\ Posted' /\ UNCHANGED <<shutdown_, closed>>
    BY ZenonT(60), <1>1, SameTable DEF StartIteration, table
  <2>2. PICK pause \in 0 .. MaxPause : clock' = (clock + pause) % ClockModulus /\ now_ms' = clock'
    BY ZenonT(60), <1>1 DEF StartIteration
  <2>3. clock' \in Times /\ now_ms' \in Times
    <3>1. pause \in Nat
      BY UdpAssumption
    <3> QED BY ZenonT(60), <2>2, <3>1, ClockTurns DEF Around
  <2>4. 0 \in 0 .. RxBudget
    BY UdpAssumption
  <2>5. loop' \in [at : {"wait", "rx", "control"}, received : 0 .. RxBudget]
    BY ZenonT(60), <1>1, <2>4 DEF StartIteration
  <2> QED BY ZenonT(60), <2>1, <2>3, <2>5 DEF Around
<1>2. CASE ClientDatagram
  <2>1. PICK key \in FlowKeys : OnClientDatagram(key)
    BY ZenonT(60), <1>2 DEF ClientDatagram
  <2>2. Table' /\ Inherits
    BY ZenonT(60), <2>1, OnClientDatagramTable DEF Around
  <2>3. next_flow_id_' \in Nat
    BY <2>2 DEF Table
  <2>4. UNCHANGED <<shutdown_, closed, inbox, now_ms, clock>>
    BY ZenonT(60), <1>2 DEF ClientDatagram
  <2>5. Posted'
    BY ZenonT(60), <2>2, <2>3, <2>4, PostedKept
  <2>6. loop.received + 1 \in 0 .. RxBudget
    <3>1. loop.received \in 0 .. RxBudget /\ loop.received < RxBudget
      BY ZenonT(60), <1>2 DEF ClientDatagram, Around
    <3> QED BY <3>1, UdpAssumption
  <2>7. loop' \in [at : {"wait", "rx", "control"}, received : 0 .. RxBudget]
    BY ZenonT(60), <1>2, <2>6 DEF ClientDatagram, Around
  <2> QED BY ZenonT(60), <2>2, <2>4, <2>5, <2>7 DEF Around
<1>3. CASE RxDone
  <2>1. Table' /\ Posted' /\ UNCHANGED <<shutdown_, closed, now_ms>>
    BY ZenonT(60), <1>3, SameTable DEF RxDone, table
  <2>2. PICK d \in 0 .. IterationMs : clock' = (clock + d) % ClockModulus
    BY ZenonT(60), <1>3 DEF RxDone
  <2>3. clock' \in Times
    <3>1. d \in Nat
      BY UdpAssumption
    <3> QED BY ZenonT(60), <2>2, <3>1, ClockTurns DEF Around
  <2>4. loop' \in [at : {"wait", "rx", "control"}, received : 0 .. RxBudget]
    BY ZenonT(60), <1>3 DEF RxDone, Around
  <2> QED BY ZenonT(60), <2>1, <2>3, <2>4 DEF Around
<1>4. CASE ControlMessage
  <2>1. /\ inbox # <<>> /\ inbox' = Tail(inbox)
        /\ UNCHANGED <<next_flow_id_, shutdown_, closed, loop, now_ms, clock>>
    BY ZenonT(60), <1>4 DEF ControlMessage
  <2>2. PICK id : OnRemoteData(id) \/ OnFlowClosed(id)
    BY ZenonT(60), <1>4 DEF ControlMessage
  <2>3. Table' /\ Inherits
    <3>1. CASE UNCHANGED flows_ /\ UNCHANGED <<flow_count_, callbacks>>
      <4>1. Table'
        BY ZenonT(60), <2>1, <3>1 DEF Table, Bound
      <4>2. next_flow_id_ <= next_flow_id_
        BY <1>0
      <4> QED BY ZenonT(60), <2>1, <3>1, <4>1, <4>2 DEF Inherits
    <3>2. ASSUME NEW f \in FindById(flows_, id), flows_' = Stamp(f, clock), UNCHANGED <<flow_count_, callbacks>>
          PROVE  Table' /\ Inherits
      <4>1. f \in flows_
        BY ZenonT(60) DEF FindById
      <4> QED BY ZenonT(60), <2>1, <3>2, <4>1, StampTable DEF Around
    <3>3. CASE OnFlowClosed(id)
      <4>1. FindById(flows_, id) \in SUBSET flows_
        BY ZenonT(60) DEF FindById
      <4> QED BY ZenonT(60), <1>0, <2>1, <3>3, <4>1, EvictTable DEF OnFlowClosed
    <3> QED BY ZenonT(60), <2>2, <3>1, <3>2, <3>3 DEF OnRemoteData
  <2>4. Posted'
    BY ZenonT(60), <1>0, <2>1, <2>3, PostedKept
  <2> QED BY ZenonT(60), <2>1, <2>3, <2>4 DEF Around
<1>5. CASE Purge
  <2>1. PurgeExpired(now_ms) /\ UNCHANGED <<next_flow_id_, shutdown_, closed, inbox, now_ms, clock>>
    BY ZenonT(60), <1>5 DEF Purge
  <2>2. {f \in flows_ : Idle(f, now_ms)} \in SUBSET flows_
    BY ZenonT(60)
  <2>3. Table' /\ Inherits
    BY ZenonT(60), <1>0, <2>1, <2>2, EvictTable DEF PurgeExpired
  <2>4. Posted'
    BY ZenonT(60), <1>0, <2>1, <2>3, PostedKept
  <2>5. loop' \in [at : {"wait", "rx", "control"}, received : 0 .. RxBudget]
    BY ZenonT(60), <1>5 DEF Purge, Around
  <2> QED BY ZenonT(60), <2>1, <2>3, <2>4, <2>5 DEF Around
<1> QED BY ZenonT(60), <1>1, <1>2, <1>3, <1>4, <1>5 DEF Shard

(* So do the adapter's callbacks and the shutdown.                           *)
LEMMA AdapterIInv ==
  ASSUME IInv, Adapter \/ Shutdown
  PROVE  IInv'
<1> USE DEF IInv
<1>1. CASE RemoteData
  <2>1. PICK id \in callbacks : Post("kUdpSessionData", id)
    BY ZenonT(60), <1>1 DEF RemoteData
  <2>2. UNCHANGED <<table, callbacks, closed, loop, now_ms, clock>>
    BY ZenonT(60), <1>1 DEF RemoteData
  <2>3. Posted'
    BY ZenonT(60), <2>1, <2>2, PostKept
  <2> QED BY ZenonT(60), <2>2, <2>3 DEF Around, Table, table, Bound
<1>2. CASE RemoteClosed
  <2>1. PICK id \in callbacks : closed' = closed \cup {id} /\ Post("kUdpSessionClosed", id)
    BY ZenonT(60), <1>2 DEF RemoteClosed
  <2>2. UNCHANGED <<table, callbacks, loop, now_ms, clock>>
    BY ZenonT(60), <1>2 DEF RemoteClosed
  <2>3. Posted' /\ id \in FlowIds
    BY ZenonT(60), <2>1, <2>2, PostKept
  <2>4. closed' \subseteq FlowIds
    BY ZenonT(60), <2>1, <2>3 DEF Around
  <2> QED BY ZenonT(60), <2>2, <2>3, <2>4 DEF Around, Table, table, Bound
<1>3. CASE Shutdown
  <2>1. /\ shutdown_' = TRUE /\ flows_' = {} /\ flow_count_' = 0 /\ callbacks' = callbacks \ Bound(flows_)
        /\ UNCHANGED <<next_flow_id_, closed, inbox, loop, now_ms, clock>>
    BY ZenonT(60), <1>3 DEF Shutdown
  <2>2. IsFiniteSet({}) /\ Cardinality({}) = 0 /\ 0 \in 0 .. max_flows
    BY FS_EmptySet, UdpAssumption
  <2>3. Table'
    BY ZenonT(60), <2>1, <2>2 DEF Table, Bound
  <2>4. Posted'
    BY ZenonT(60), <2>1 DEF Posted, RightClient, FindById
  <2> QED BY ZenonT(60), <2>1, <2>3, <2>4 DEF Around
<1> QED BY ZenonT(60), <1>1, <1>2, <1>3 DEF Adapter

(* The table starts empty.                                                   *)
LEMMA InitIInv == Init => IInv
<1> SUFFICES ASSUME Init PROVE IInv
  BY ZenonT(60)
<1>1. /\ 0 \in Times /\ 0 \in 0 .. RxBudget /\ 0 \in 0 .. max_flows /\ 1 \in 1 .. MaxFlowIds + 1
      /\ IsFiniteSet({}) /\ Cardinality({}) = 0
  BY FS_EmptySet, UdpAssumption DEF Times
<1>2. Table
  BY ZenonT(60), <1>1 DEF Init, Table, Bound
<1>3. Posted
  <2>1. inbox \in Seq(Messages) /\ DOMAIN inbox = {}
    BY DEF Init
  <2> QED BY ZenonT(60), <2>1 DEF Posted, RightClient, Range
<1>4. Around
  BY ZenonT(60), <1>1 DEF Init, Around
<1> QED BY ZenonT(60), <1>2, <1>3, <1>4 DEF IInv

(* Every step keeps the invariant.                                           *)
LEMMA NextIInv == IInv /\ [Next]_vars => IInv'
<1> SUFFICES ASSUME IInv, [Next]_vars PROVE IInv'
  BY ZenonT(60)
<1>1. CASE UNCHANGED vars
  <2>1. Table' /\ Posted'
    BY ZenonT(60), <1>1, SameTable DEF IInv, vars, table
  <2> QED BY ZenonT(60), <1>1, <2>1 DEF IInv, vars, Around
<1> QED BY ZenonT(60), <1>1, ShardIInv, AdapterIInv DEF Next

(* The invariant gives what the table promises.                              *)
LEMMA IInvBound == IInv => SessionsBound
<1> SUFFICES ASSUME IInv PROVE SessionsBound
  BY ZenonT(60)
<1>1. callbacks \subseteq FlowIds
  BY ZenonT(60) DEF IInv, Table, Bound, Flow
<1>2. flow_count_ <= max_flows
  BY DEF IInv, Table
<1>3. TypeOK
  BY ZenonT(60), <1>1 DEF IInv, Table, Posted, Around, TypeOK
<1>4. SizeExact
  BY ZenonT(60), <1>2 DEF IInv, Table, SizeExact
<1> QED BY ZenonT(60), <1>3, <1>4 DEF IInv, Table, Posted, SessionsBound, CallbacksBound

(* For any number of clients and any capacities, the published count is the  *)
(* size of the table, a 4-tuple has one entry, only sessions of its entries  *)
(* hold callbacks into the table, and a message that outlives its flow never *)
(* reaches another client's (UdpFlowTable::FindOrCreate, Evict,              *)
(* UnbindSession).                                                           *)
THEOREM SessionsStayBound == Spec => []SessionsBound
BY InitIInv, NextIInv, IInvBound, PTL DEF Spec

-----------------------------------------------------------------------------
(* Eviction.                                                                 *)

\* The loop's reading is the clock's, and a closed message tells the truth.
Current ==
    /\ loop.at # "wait" => now_ms = clock
    /\ \A m \in Range(inbox) : m.type = "kUdpSessionClosed" => m.flow_id \in closed

\* What IdleBeforeEvicted says of one step.
EvictStep ==
    \A f \in flows_ :
       (/\ f.session_bound /\ f.flow_id \notin closed /\ ~shutdown_'
        /\ FindById(flows_', f.flow_id) = {})
       => Idle(f, clock)

(* The messages of a shorter inbox were there before.                        *)
LEMMA TailRange ==
  ASSUME inbox \in Seq(Messages), inbox # <<>>
  PROVE  Head(inbox) \in Range(inbox) /\ \A m \in Range(Tail(inbox)) : m \in Range(inbox)
<1>1. /\ DOMAIN inbox = 1 .. Len(inbox) /\ DOMAIN Tail(inbox) = 1 .. Len(Tail(inbox))
      /\ 1 \in 1 .. Len(inbox) /\ Head(inbox) = inbox[1]
      /\ \A i \in 1 .. Len(Tail(inbox)) : i + 1 \in 1 .. Len(inbox) /\ Tail(inbox)[i] = inbox[i + 1]
  BY SMT
<1> QED BY ZenonT(60), <1>1 DEF Range

(* What a longer inbox holds was there before or is new.                     *)
LEMMA AppendRange ==
  ASSUME inbox \in Seq(Messages), NEW m \in Messages
  PROVE  \A k \in Range(Append(inbox, m)) : k = m \/ k \in Range(inbox)
<1> DEFINE longer == Append(inbox, m)
<1>1. /\ DOMAIN inbox = 1 .. Len(inbox) /\ DOMAIN longer = 1 .. Len(inbox) + 1
      /\ Len(inbox) \in Nat /\ longer[Len(inbox) + 1] = m
      /\ \A i \in 1 .. Len(inbox) : longer[i] = inbox[i]
  BY SMT
<1>2. \A i \in DOMAIN longer : i \in DOMAIN inbox \/ i = Len(inbox) + 1
  BY <1>1
<1> HIDE DEF longer
<1>3. \A k \in Range(longer) : k = m \/ k \in Range(inbox)
  BY ZenonT(60), <1>1, <1>2 DEF Range
<1> QED BY ZenonT(60), <1>3 DEF longer

(* Every step keeps the reading current while the clock stands still.        *)
LEMMA NextCurrent ==
  ASSUME IterationMs = 0, IInv, IInv', Current, [Next]_vars
  PROVE  Current'
<1>0. /\ inbox \in Seq(Messages) /\ inbox' \in Seq(Messages) /\ clock \in Times
      /\ loop \in [at : {"wait", "rx", "control"}, received : 0 .. RxBudget]
  BY ZenonT(60) DEF IInv, Posted, Around
<1>1. CASE StartIteration
  BY ZenonT(60), <1>1 DEF StartIteration, Current
<1>2. CASE ClientDatagram
  BY ZenonT(60), <1>0, <1>2 DEF ClientDatagram, Current
<1>3. CASE RxDone
  <2>1. PICK d \in 0 .. IterationMs : clock' = (clock + d) % ClockModulus
    BY ZenonT(60), <1>3 DEF RxDone
  <2>2. clock' = clock
    <3>1. d = 0 /\ clock + d = clock /\ ClockModulus \in Nat \ {0} /\ clock \in 0 .. ClockModulus - 1
      BY <1>0, UdpAssumption DEF Times
    <3> QED BY <2>1, <3>1
  <2> QED BY ZenonT(60), <1>3, <2>2 DEF RxDone, Current
<1>4. CASE ControlMessage
  BY ZenonT(60), <1>0, <1>4, TailRange DEF ControlMessage, Current
<1>5. CASE Purge
  BY ZenonT(60), <1>0, <1>5 DEF Purge, Current
<1>6. CASE Adapter
  <2>1. PICK type, id : /\ Post(type, id) /\ closed \subseteq closed'
                        /\ type = "kUdpSessionClosed" => id \in closed'
                        /\ UNCHANGED <<loop, now_ms, clock>>
    <3>1. CASE RemoteData
      BY ZenonT(60), <3>1 DEF RemoteData
    <3>2. CASE RemoteClosed
      BY ZenonT(60), <3>2 DEF RemoteClosed
    <3> QED BY ZenonT(60), <1>6, <3>1, <3>2 DEF Adapter
  <2> DEFINE m == [type |-> type, flow_id |-> id, client |-> Client(id)]
  <2>2. m.type = type /\ m.flow_id = id
    BY ZenonT(60)
  <2>3. inbox' = inbox \/ inbox' = Append(inbox, m)
    BY ZenonT(60), <2>1 DEF Post
  <2> HIDE DEF m
  <2>4. \A k \in Range(inbox') : k = m \/ k \in Range(inbox)
    <3>1. CASE inbox' = inbox
      BY ZenonT(60), <3>1
    <3>2. CASE inbox' = Append(inbox, m)
      <4>1. m \in Messages
        <5>1. /\ DOMAIN inbox' = 1 .. Len(inbox) + 1 /\ Len(inbox) \in Nat
              /\ inbox'[Len(inbox) + 1] = m
          BY <1>0, <3>2
        <5>2. Len(inbox) + 1 \in DOMAIN inbox'
          BY <5>1
        <5> QED BY <1>0, <5>1, <5>2
      <4> QED BY ZenonT(60), <1>0, <3>2, <4>1, AppendRange
    <3> QED BY ZenonT(60), <2>3, <3>1, <3>2
  <2> QED BY ZenonT(60), <2>1, <2>2, <2>4 DEF Current
<1>7. CASE Shutdown
  BY ZenonT(60), <1>7 DEF Shutdown, Current
<1>8. CASE UNCHANGED vars
  BY ZenonT(60), <1>8 DEF vars, Current
<1> QED BY ZenonT(60), <1>1, <1>2, <1>3, <1>4, <1>5, <1>6, <1>7, <1>8 DEF Next, Shard

(* Every step evicts only what is idle by the clock, closed or shut down.    *)
LEMMA NextEvict ==
  ASSUME IInv, Current, Next
  PROVE  EvictStep
<1>1. CASE flows_' = flows_
  BY ZenonT(60), <1>1 DEF EvictStep, FindById
<1>2. ASSUME NEW f \in flows_, NEW time, flows_' = Stamp(f, time)
      PROVE  EvictStep
  <2>1. [f EXCEPT !.last_activity_ms = time].flow_id = f.flow_id
    BY ZenonT(60) DEF IInv, Table, Flow
  <2>2. \A g \in flows_ : \E k \in flows_' : k.flow_id = g.flow_id
    BY ZenonT(60), <1>2, <2>1 DEF Stamp
  <2> QED BY ZenonT(60), <2>2 DEF EvictStep, FindById
<1>3. ASSUME NEW gone, flows_ \ gone \subseteq flows_',
             \A g \in gone \cap flows_ : g.flow_id \in closed \/ Idle(g, clock)
      PROVE  EvictStep
  BY ZenonT(60), <1>3 DEF EvictStep, FindById
<1>4. CASE ClientDatagram
  <2>1. now_ms = clock
    BY ZenonT(60), <1>4 DEF ClientDatagram, Current
  <2>2. PICK key \in FlowKeys : OnClientDatagram(key)
    BY ZenonT(60), <1>4 DEF ClientDatagram
  <2>3. ASSUME NEW f \in Find(flows_, key), NEW status \in SendStatus(f.flow_id), KnownFlow(f, status)
        PROVE  EvictStep
    <3>0. f \in flows_
      BY ZenonT(60) DEF Find
    <3>1. CASE status = "Closed" /\ Evict({f})
      <4>1. f.flow_id \in closed
        BY ZenonT(60), <3>1 DEF SendStatus
      <4> QED BY ZenonT(60), <1>3, <3>1, <4>1 DEF Evict
    <3> QED BY ZenonT(60), <1>1, <1>2, <2>3, <3>0, <3>1 DEF KnownFlow
  <2>4. MakeRoom(flows_, now_ms) \in SUBSET {f \in flows_ : Idle(f, clock)}
    BY ZenonT(60), <2>1, MakeRoomTable DEF IInv
  <2>5. ASSUME NEW opened, UnknownFlow(key, opened)
        PROVE  EvictStep
    BY ZenonT(60), <1>1, <1>3, <2>4, <2>5 DEF UnknownFlow
  <2>6. CASE StillbornFlow
    BY ZenonT(60), <1>3, <2>4, <2>6 DEF StillbornFlow, Evict
  <2> QED BY ZenonT(60), <2>2, <2>3, <2>5, <2>6 DEF OnClientDatagram
<1>5. CASE ControlMessage
  <2>1. CASE \E id : OnRemoteData(id)
    BY ZenonT(60), <1>1, <1>2, <2>1 DEF OnRemoteData, FindById
  <2>2. CASE Head(inbox).type # "kUdpSessionData" /\ OnFlowClosed(Head(inbox).flow_id)
    <3>1. Head(inbox) \in Range(inbox)
      BY ZenonT(60), <1>5, TailRange DEF ControlMessage, IInv, Posted
    <3>2. Head(inbox) \in Messages
      BY <1>5 DEF ControlMessage, IInv, Posted
    <3>3. Head(inbox).flow_id \in closed
      BY ZenonT(60), <2>2, <3>1, <3>2 DEF Messages, Current
    <3> QED BY ZenonT(60), <1>3, <2>2, <3>3 DEF OnFlowClosed, Evict, FindById
  <2> QED BY ZenonT(60), <1>5, <2>1, <2>2 DEF ControlMessage
<1>6. CASE Purge
  <2>1. now_ms = clock
    BY ZenonT(60), <1>6 DEF Purge, Current
  <2> QED BY ZenonT(60), <1>3, <1>6, <2>1 DEF Purge, PurgeExpired, Evict
<1>7. CASE Shutdown
  BY ZenonT(60), <1>7 DEF Shutdown, EvictStep
<1>8. CASE StartIteration \/ RxDone \/ Adapter
  BY ZenonT(60), <1>1, <1>8 DEF StartIteration, RxDone, Adapter, RemoteData, RemoteClosed, table
<1> QED BY ZenonT(60), <1>4, <1>5, <1>6, <1>7, <1>8 DEF Next, Shard

(* As long as the clock does not move between the reading of an iteration    *)
(* and its purge, a flow with an open session leaves a running table only    *)
(* after idle_timeout_ms without traffic, also when the clock wraps          *)
(* (UdpFlowTable::PurgeExpired, FindOrCreate).                               *)
THEOREM IdleFlowsGo ==
  ASSUME IterationMs = 0
  PROVE  Spec => IdleBeforeEvicted
<1>1. Init => Current
  <2> SUFFICES ASSUME Init PROVE Current
    BY ZenonT(60)
  <2>1. DOMAIN inbox = {}
    BY DEF Init
  <2> QED BY ZenonT(60), <2>1 DEF Init, Current, Range
<1>2. IInv /\ IInv' /\ Current /\ [Next]_vars => Current'
  BY ZenonT(60), NextCurrent
<1>3. IInv /\ Current /\ [Next]_vars =>
        [\A f \in flows_ :
          (/\ f.session_bound /\ f.flow_id \notin closed /\ ~shutdown_'
           /\ FindById(flows_', f.flow_id) = {})
          => Idle(f, clock)]_vars
  BY ZenonT(60), NextEvict DEF EvictStep
<1> QED BY InitIInv, NextIInv, <1>1, <1>2, <1>3, PTL DEF Spec, IdleBeforeEvicted
=============================================================================
