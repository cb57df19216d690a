---------------------- MODULE RuntimeLifecycle_proofs ----------------------
(***************************************************************************)
(* StopKeepsOrder and PoolsOutliveLeases for any number of threads that    *)
(* call Start and Stop and of shards.  The strengthening says who owns the *)
(* runtime at each state (Exclusive), what exists at each place of Start   *)
(* and Stop (Resources), and which of the calls under way have seen the    *)
(* runtime stopped (Witnessed).  That no lease is out when the pools go    *)
(* follows from the invariant and from what each step does to the sums of  *)
(* OutstandingBuffers.                                                     *)
(***************************************************************************)
EXTENDS RuntimeLifecycle, ArithmeticLemmas, TLAPS

StartPcs == {"open", "startShard", "setHandlers", "rollback"}

Quiet == \A i \in Ids : shard[i].thread # "running"

\* At most one caller is inside Start or inside the teardown of Stop.
Exclusive ==
    /\ \A c \in Callers : caller[c].pc \in StartPcs => rt.state = "Starting"
    /\ \A c \in Callers : caller[c].pc \in TeardownPcs => rt.stop_in_progress
    /\ rt.stop_in_progress => rt.state = "Stopping"
    /\ \A c, d \in Callers : /\ caller[c].pc \in StartPcs \cup TeardownPcs
                             /\ caller[d].pc \in StartPcs \cup TeardownPcs
                             => c = d

\* What exists at each state of the runtime and each place of Start and Stop.
Resources ==
    /\ ThreadsHaveObjects
    /\ rt.state = "Stopped" \/ rt.quiesced => Quiet
    /\ rt.state \in {"Running", "Stopping"} => rt.pools /\ \A i \in Ids : queue[i].open
    /\ \A c \in Callers :
          /\ caller[c].pc = "open" => Quiet
          /\ caller[c].pc \in StartPcs \ {"open"} =>
                rt.pools /\ ~rt.quiesced /\ \A i \in Ids : queue[i].open /\ shard[i].object
          /\ caller[c].pc = "stopShard" =>
                \A i \in Ids : i < caller[c].i => shard[i].thread # "running"
          /\ caller[c].pc = "drain" => rt.quiesced

\* A call of Stop under way that finds the runtime stopped, or the result of
\* a Stop that stopped it, has seen it stopped.
Witnessed ==
    \A c \in Callers :
       /\ caller[c].pc \in {"stopEnter", "stopWait"} /\ rt.state = "Stopped" => sawStopped[c]
       /\ caller[c].pc = "stopWait" /\ ~rt.stop_in_progress /\ rt.last = "Stopped" => sawStopped[c]
       /\ caller[c].pc = "returned" /\ caller[c].result = "Stopped" => sawStopped[c]

IInv == TypeOK /\ Exclusive /\ Resources /\ Witnessed

\* Caller c goes to p, and the others stay where they are.
Moves(c, p) ==
    /\ caller' \in [Callers -> CallerRec]
    /\ caller'[c].pc = p
    /\ \A d \in Callers \ {c} : caller'[d] = caller[d]

-----------------------------------------------------------------------------
(* Goto moves one caller.                                                    *)
LEMMA GotoMoves ==
  ASSUME TypeOK, NEW c \in Callers, NEW p \in StartPcs \cup TeardownPcs \cup {"idle", "stopWait"},
  Goto(c, p)
  PROVE  Moves(c, p) /\ caller'[c].i = 0
<1> DEFINE r == [caller[c] EXCEPT !.pc = p, !.i = 0]
<1>1. 0 \in 0..N
  BY RuntimeAssumption
<1>2. r \in CallerRec /\ r.pc = p /\ r.i = 0
  BY ZenonT(60), <1>1 DEF TypeOK, CallerRec, StartPcs, TeardownPcs
<1>3. caller' = [caller EXCEPT ![c] = r]
  BY ZenonT(60) DEF Goto, TypeOK
<1> QED BY ZenonT(60), <1>2, <1>3 DEF TypeOK, Moves

(* Return moves one caller and gives it its result.                          *)
LEMMA ReturnMoves ==
  ASSUME TypeOK, NEW c \in Callers, NEW x \in {"Stopped", "TimedOut", "DrainFailed"}, Return(c, x)
  PROVE  Moves(c, "returned") /\ caller'[c].result = x
<1> DEFINE r == [Idle EXCEPT !.pc = "returned", !.result = x]
<1>1. 0 \in 0..N
  BY RuntimeAssumption
<1>2. r \in CallerRec /\ r.pc = "returned" /\ r.result = x
  BY ZenonT(60), <1>1 DEF CallerRec, Idle
<1> QED BY ZenonT(60), <1>2 DEF TypeOK, Moves, Return

(* A caller that goes on to its next queue or shard stays in its loop.       *)
LEMMA LoopMoves ==
  ASSUME TypeOK, NEW c \in Callers, caller[c].i < N,
         \/ caller' = [caller EXCEPT ![c].i = caller[c].i + 1]
         \/ \E fatal \in BOOLEAN : caller' = [caller EXCEPT ![c].i = caller[c].i + 1,
                                                            ![c].fatal = @ \/ fatal]
  PROVE  Moves(c, caller[c].pc) /\ caller'[c].i = caller[c].i + 1
<1>1. caller[c].i + 1 \in 0..N /\ caller[c] \in CallerRec
  BY RuntimeAssumption DEF TypeOK, CallerRec
<1>2. CASE caller' = [caller EXCEPT ![c].i = caller[c].i + 1]
  <2> DEFINE r == [caller[c] EXCEPT !.i = caller[c].i + 1]
  <2>1. r \in CallerRec /\ r.pc = caller[c].pc /\ r.i = caller[c].i + 1
    BY ZenonT(60), <1>1 DEF CallerRec
  <2>2. caller' = [caller EXCEPT ![c] = r]
    BY ZenonT(60), <1>2 DEF TypeOK
  <2> QED BY ZenonT(60), <2>1, <2>2 DEF TypeOK, Moves
<1>3. ASSUME NEW fatal \in BOOLEAN,
             caller' = [caller EXCEPT ![c].i = caller[c].i + 1, ![c].fatal = @ \/ fatal]
      PROVE  Moves(c, caller[c].pc) /\ caller'[c].i = caller[c].i + 1
  <2> DEFINE r == [caller[c] EXCEPT !.i = caller[c].i + 1, !.fatal = @ \/ fatal]
  <2>0. (caller[c].fatal \/ fatal) \in BOOLEAN
    BY ZenonT(60)
  <2>1. r \in CallerRec /\ r.pc = caller[c].pc /\ r.i = caller[c].i + 1
    BY ZenonT(60), <1>1, <2>0 DEF CallerRec
  <2>2. caller' = [caller EXCEPT ![c] = r]
    BY ZenonT(60), <1>3 DEF TypeOK
  <2> QED BY ZenonT(60), <2>1, <2>2 DEF TypeOK, Moves
<1> QED BY ZenonT(60), <1>2, <1>3

(* SetState tells every call under way when the runtime is stopped.          *)
LEMMA SetStateTells ==
  ASSUME TypeOK, NEW r, SetState(r)
  PROVE  /\ rt' = r
         /\ sawStopped' \in [Callers -> BOOLEAN]
         /\ \A c \in Callers : sawStopped[c] => sawStopped'[c]
         /\ r.state = "Stopped" => \A c \in Callers : caller[c].pc # "idle" => sawStopped'[c]
<1>1. \A c \in Callers : (sawStopped[c] \/ (r.state = "Stopped" /\ caller[c].pc # "idle")) \in BOOLEAN
  BY ZenonT(60)
<1> QED BY ZenonT(60), <1>1 DEF TypeOK, SetState

(* A step of a shard, the backend, the injector or the adapter starts no     *)
(* thread, destroys nothing and leaves the callers alone.                    *)
LEMMA AroundStep ==
  ASSUME IInv, UNCHANGED <<rt, caller, sawStopped>>,
         \A i \in Ids : /\ shard'[i].object = shard[i].object
                        /\ shard'[i].thread = "running" => shard[i].thread = "running"
                        /\ queue'[i].open = queue[i].open
  PROVE  Exclusive' /\ Resources' /\ Witnessed'
<1>1. Exclusive' /\ Witnessed'
  BY ZenonT(60) DEF IInv, Exclusive, Witnessed
<1>2. Resources'
  BY ZenonT(60) DEF IInv, Resources, ThreadsHaveObjects, Quiet
<1> QED BY ZenonT(60), <1>1, <1>2

-----------------------------------------------------------------------------
(* Start claims a stopped runtime, which no other caller holds.              *)
LEMMA StartCallStep ==
  ASSUME IInv, NEW c \in Callers, StartCall(c)
  PROVE  IInv'
<1>1. Moves(c, "open")
  BY ZenonT(60), GotoMoves DEF IInv, StartCall, StartPcs
<1>2. /\ rt' \in RuntimeRec /\ rt.state = "Stopped" /\ rt'.state = "Starting"
      /\ rt'.stop_in_progress = rt.stop_in_progress /\ rt'.quiesced = rt.quiesced
      /\ rt'.pools = rt.pools /\ rt'.last = rt.last
  BY ZenonT(60) DEF IInv, StartCall, TypeOK, RuntimeRec
<1>3. calls' \in [start : Nat, timedStop : Nat]
  BY DEF IInv, StartCall, TypeOK
<1>4. UNCHANGED <<shard, queue, held, injector, sawStopped>>
  BY ZenonT(60) DEF StartCall
<1>5. TypeOK'
  BY ZenonT(60), <1>1, <1>2, <1>3, <1>4 DEF IInv, TypeOK, Moves
<1>6. Exclusive'
  BY <1>1, <1>2 DEF IInv, Exclusive, Moves, StartPcs, TeardownPcs
<1>7. Resources'
  BY ZenonT(60), <1>1, <1>2, <1>4 DEF IInv, Resources, Exclusive, ThreadsHaveObjects, Quiet,
     Moves, StartPcs, TeardownPcs
<1>8. Witnessed'
  BY ZenonT(60), <1>1, <1>2, <1>4 DEF IInv, Witnessed, Moves
<1> QED BY ZenonT(60), <1>5, <1>6, <1>7, <1>8 DEF IInv

(* Start opens the queues and makes pools and shards, or gives up.           *)
LEMMA OpenStep ==
  ASSUME IInv, NEW c \in Callers, Open(c)
  PROVE  IInv'
<1>1. caller[c].pc = "open" /\ UNCHANGED <<held, injector, calls>>
  BY ZenonT(60) DEF Open
<1>2. CASE /\ rt' = [rt EXCEPT !.quiesced = FALSE, !.pools = TRUE]
           /\ queue' = [i \in Ids |-> [queue[i] EXCEPT !.open = TRUE, !.rx_stopped = FALSE]]
           /\ shard' = [i \in Ids |-> [NoShard EXCEPT !.object = TRUE]]
           /\ Goto(c, "startShard")
           /\ UNCHANGED sawStopped
  <2>1. Moves(c, "startShard")
    BY ZenonT(60), <1>2, GotoMoves DEF IInv, StartPcs
  <2>2. /\ rt' \in RuntimeRec /\ rt'.state = rt.state /\ rt'.stop_in_progress = rt.stop_in_progress
        /\ ~rt'.quiesced /\ rt'.pools /\ rt'.last = rt.last
    BY ZenonT(60), <1>2 DEF IInv, TypeOK, RuntimeRec
  <2>3. queue' \in [Ids -> QueueRec] /\ \A i \in Ids : queue'[i].open
    BY ZenonT(60), <1>2 DEF IInv, TypeOK, QueueRec
  <2>4. shard' \in [Ids -> ShardRec] /\ \A i \in Ids : shard'[i].object /\ shard'[i].thread # "running"
    BY ZenonT(60), <1>2 DEF NoShard, ShardRec
  <2>5. TypeOK'
    BY ZenonT(60), <1>1, <1>2, <2>1, <2>2, <2>3, <2>4 DEF IInv, TypeOK, Moves
  <2>6. Exclusive'
    BY <1>1, <2>1, <2>2 DEF IInv, Exclusive, Moves, StartPcs, TeardownPcs
  <2>7. Resources'
    BY SMTT(60), <1>1, <2>1, <2>2, <2>3, <2>4 DEF IInv, Resources, Exclusive, ThreadsHaveObjects,
       Quiet, Moves, StartPcs, TeardownPcs
  <2>8. Witnessed'
    BY ZenonT(60), <1>2, <2>1, <2>2 DEF IInv, Witnessed, Moves
  <2> QED BY ZenonT(60), <2>5, <2>6, <2>7, <2>8 DEF IInv
<1>3. CASE /\ \E k \in 0..N : queue' = [i \in Ids |-> [queue[i] EXCEPT !.rx_stopped = @ /\ i >= k]]
           /\ SetState([rt EXCEPT !.state = "Stopped", !.quiesced = FALSE])
           /\ Goto(c, "idle")
           /\ UNCHANGED shard
  <2>1. Moves(c, "idle")
    BY ZenonT(60), <1>3, GotoMoves DEF IInv
  <2>2. /\ rt' = [rt EXCEPT !.state = "Stopped", !.quiesced = FALSE]
        /\ sawStopped' \in [Callers -> BOOLEAN]
        /\ \A d \in Callers : sawStopped[d] \/ caller[d].pc # "idle" => sawStopped'[d]
    <3>1. rt.state \in {"Stopped", "Starting", "Running", "Stopping"} /\ rt \in RuntimeRec
      BY ZenonT(60) DEF IInv, TypeOK, RuntimeRec
    <3>2. [rt EXCEPT !.state = "Stopped", !.quiesced = FALSE].state = "Stopped"
      BY ZenonT(60), <3>1 DEF RuntimeRec
    <3> QED BY ZenonT(60), <1>3, <3>2, SetStateTells DEF IInv
  <2>3. /\ rt' \in RuntimeRec /\ rt'.state = "Stopped" /\ rt'.stop_in_progress = rt.stop_in_progress
        /\ ~rt'.quiesced /\ rt'.pools = rt.pools
    BY ZenonT(60), <2>2 DEF IInv, TypeOK, RuntimeRec
  <2>4. queue' \in [Ids -> QueueRec] /\ \A i \in Ids : queue'[i].open = queue[i].open
    <3>1. PICK k \in 0..N : queue' = [i \in Ids |-> [queue[i] EXCEPT !.rx_stopped = @ /\ i >= k]]
      BY ZenonT(60), <1>3
    <3>2. \A i \in Ids : (queue[i].rx_stopped /\ i >= k) \in BOOLEAN
      BY ZenonT(60)
    <3> QED BY ZenonT(60), <3>1, <3>2 DEF IInv, TypeOK, QueueRec
  <2>5. TypeOK'
    BY ZenonT(60), <1>1, <1>3, <2>1, <2>2, <2>3, <2>4 DEF IInv, TypeOK, Moves
  <2>6. Exclusive'
    BY ZenonT(60), <1>1, <2>1, <2>3 DEF IInv, Exclusive, Moves, StartPcs, TeardownPcs
  <2>7. Resources'
    BY <1>1, <1>3, <2>1, <2>3, <2>4 DEF IInv, Resources, Exclusive, ThreadsHaveObjects, Quiet,
       Moves, StartPcs, TeardownPcs
  <2>8. Witnessed'
    BY ZenonT(60), <2>1, <2>2, <2>3 DEF IInv, Witnessed, Moves
  <2> QED BY ZenonT(60), <2>5, <2>6, <2>7, <2>8 DEF IInv
<1> QED BY ZenonT(60), <1>2, <1>3 DEF Open

(* A thread is started on a shard that exists, or the start goes on.         *)
LEMMA StartShardStep ==
  ASSUME IInv, NEW c \in Callers, StartShard(c)
  PROVE  IInv'
<1>1. caller[c].pc = "startShard" /\ UNCHANGED <<rt, queue, held, injector, calls, sawStopped>>
  BY ZenonT(60) DEF StartShard
<1>2. CASE /\ caller[c].i < N
           /\ shard' = [shard EXCEPT ![caller[c].i].thread = "running"]
           /\ caller' = [caller EXCEPT ![c].i = caller[c].i + 1]
  <2>1. Moves(c, "startShard")
    BY ZenonT(60), <1>1, <1>2, LoopMoves DEF IInv
  <2>2. caller[c].i \in Ids
    BY <1>2, RuntimeAssumption DEF IInv, TypeOK, CallerRec, Ids
  <2>3. shard' \in [Ids -> ShardRec] /\ \A i \in Ids : shard'[i].object = shard[i].object
    BY <1>2, <2>2 DEF IInv, TypeOK, ShardRec
  <2>t. TypeOK'
    BY ZenonT(60), <1>1, <2>1, <2>3 DEF IInv, TypeOK, Moves
  <2>e. Exclusive'
    BY ZenonT(60), <1>1, <2>1 DEF IInv, Exclusive, Moves, StartPcs, TeardownPcs
  <2>r. Resources'
    BY <1>1, <2>1, <2>3 DEF IInv, Resources, Exclusive, ThreadsHaveObjects, Quiet,
       Moves, StartPcs, TeardownPcs
  <2>w. Witnessed'
    BY ZenonT(60), <1>1, <2>1 DEF IInv, Witnessed, Exclusive, Moves, StartPcs, TeardownPcs
  <2> QED BY ZenonT(60), <2>t, <2>e, <2>r, <2>w DEF IInv
<1>3. CASE UNCHANGED shard /\ (Goto(c, "rollback") \/ Goto(c, "setHandlers"))
  <2>1. PICK p \in {"rollback", "setHandlers"} : Moves(c, p)
    BY ZenonT(60), <1>3, GotoMoves DEF IInv, StartPcs
  <2>t. TypeOK'
    BY ZenonT(60), <1>1, <1>3, <2>1 DEF IInv, TypeOK, Moves
  <2>e. Exclusive'
    BY SMTT(60), <1>1, <2>1 DEF IInv, Exclusive, Moves, StartPcs, TeardownPcs
  <2>r. Resources'
    BY <1>1, <1>3, <2>1 DEF IInv, Resources, Exclusive, ThreadsHaveObjects, Quiet,
       Moves, StartPcs, TeardownPcs
  <2>w. Witnessed'
    BY ZenonT(60), <1>1, <2>1 DEF IInv, Witnessed, Exclusive, Moves, StartPcs, TeardownPcs
  <2> QED BY ZenonT(60), <2>t, <2>e, <2>r, <2>w DEF IInv
<1> QED BY ZenonT(60), <1>2, <1>3 DEF StartShard

(* The runtime is Running; Start lets go of it.                              *)
LEMMA SetHandlersStep ==
  ASSUME IInv, NEW c \in Callers, SetHandlers(c)
  PROVE  IInv'
<1>1. caller[c].pc = "setHandlers" /\ UNCHANGED <<shard, held, injector, calls>>
  BY ZenonT(60) DEF SetHandlers
<1>2. Moves(c, "idle")
  BY ZenonT(60), GotoMoves DEF IInv, SetHandlers
<1>3. /\ rt' = [rt EXCEPT !.state = "Running"]
      /\ sawStopped' \in [Callers -> BOOLEAN]
      /\ \A d \in Callers : sawStopped[d] => sawStopped'[d]
  BY ZenonT(60), SetStateTells DEF IInv, SetHandlers
<1>4. /\ rt' \in RuntimeRec /\ rt'.state = "Running" /\ rt'.stop_in_progress = rt.stop_in_progress
      /\ rt'.quiesced = rt.quiesced /\ rt'.pools = rt.pools /\ rt'.last = rt.last
  BY ZenonT(60), <1>3 DEF IInv, TypeOK, RuntimeRec
<1>5. queue' \in [Ids -> QueueRec] /\ \A i \in Ids : queue'[i].open = queue[i].open
  BY ZenonT(60) DEF SetHandlers, IInv, TypeOK, QueueRec
<1>t. TypeOK'
  BY ZenonT(60), <1>1, <1>2, <1>3, <1>4, <1>5 DEF IInv, TypeOK, Moves
<1>e. Exclusive'
  BY ZenonT(60), <1>1, <1>2, <1>4 DEF IInv, Exclusive, Moves, StartPcs, TeardownPcs
<1>r. Resources'
  BY <1>1, <1>2, <1>4, <1>5 DEF IInv, Resources, Exclusive, ThreadsHaveObjects, Quiet,
     Moves, StartPcs, TeardownPcs
<1>w. Witnessed'
  BY <1>2, <1>3, <1>4 DEF IInv, Witnessed, Exclusive, Moves, StartPcs, TeardownPcs
<1> QED BY ZenonT(60), <1>t, <1>e, <1>r, <1>w DEF IInv

(* A failed start joins the threads before it discards their shards.         *)
LEMMA RollbackStep ==
  ASSUME IInv, NEW c \in Callers, Rollback(c)
  PROVE  IInv'
<1>1. caller[c].pc = "rollback" /\ UNCHANGED <<injector, calls>>
  BY ZenonT(60) DEF Rollback
<1>2. CASE /\ shard' = [i \in Ids |-> [shard[i] EXCEPT !.stop = shard[i].thread = "running"]]
           /\ UNCHANGED <<rt, queue, held, caller, sawStopped>>
  <2>1. \A i \in Ids : (shard[i].thread = "running") \in BOOLEAN
    BY ZenonT(60)
  <2>2. /\ shard' \in [Ids -> ShardRec]
        /\ \A i \in Ids : shard'[i].object = shard[i].object /\ shard'[i].thread = shard[i].thread
    BY ZenonT(60), <1>2, <2>1 DEF IInv, TypeOK, ShardRec
  <2>3. Exclusive' /\ Resources' /\ Witnessed'
    BY ZenonT(60), <1>2, <2>2, AroundStep
  <2>4. TypeOK'
    BY ZenonT(60), <1>1, <1>2, <2>2 DEF IInv, TypeOK
  <2> QED BY ZenonT(60), <2>3, <2>4 DEF IInv
<1>3. CASE /\ \A i \in Ids : shard[i].thread # "running"
           /\ shard' = [i \in Ids |-> NoShard]
           /\ queue' = [i \in Ids |-> [queue[i] EXCEPT !.handler = FALSE, !.open = FALSE]]
           /\ SetState([rt EXCEPT !.state = "Stopped", !.pools = FALSE])
           /\ Goto(c, "idle")
           /\ UNCHANGED held
  <2>1. Moves(c, "idle")
    BY ZenonT(60), <1>3, GotoMoves DEF IInv
  <2>2. [rt EXCEPT !.state = "Stopped", !.pools = FALSE].state = "Stopped"
    BY ZenonT(60) DEF IInv, TypeOK, RuntimeRec
  <2>3. /\ rt' = [rt EXCEPT !.state = "Stopped", !.pools = FALSE]
        /\ sawStopped' \in [Callers -> BOOLEAN]
        /\ \A d \in Callers : sawStopped[d] \/ caller[d].pc # "idle" => sawStopped'[d]
    BY ZenonT(60), <1>3, <2>2, SetStateTells DEF IInv
  <2>4. /\ rt' \in RuntimeRec /\ rt'.state = "Stopped" /\ rt'.stop_in_progress = rt.stop_in_progress
    BY ZenonT(60), <2>3 DEF IInv, TypeOK, RuntimeRec
  <2>5. queue' \in [Ids -> QueueRec]
    BY ZenonT(60), <1>3 DEF IInv, TypeOK, QueueRec
  <2>6. shard' \in [Ids -> ShardRec] /\ \A i \in Ids : shard'[i].thread # "running"
    BY ZenonT(60), <1>3 DEF NoShard, ShardRec
  <2>t. TypeOK'
    BY ZenonT(60), <1>1, <1>3, <2>1, <2>3, <2>4, <2>5, <2>6 DEF IInv, TypeOK, Moves
  <2>e. Exclusive'
    BY ZenonT(60), <1>1, <2>1, <2>4 DEF IInv, Exclusive, Moves, StartPcs, TeardownPcs
  <2>r. Resources'
    BY <1>1, <2>1, <2>4, <2>6 DEF IInv, Resources, Exclusive, ThreadsHaveObjects, Quiet,
       Moves, StartPcs, TeardownPcs
  <2>w. Witnessed'
    BY ZenonT(60), <2>1, <2>3 DEF IInv, Witnessed, Exclusive, Moves, StartPcs, TeardownPcs
  <2> QED BY ZenonT(60), <2>t, <2>e, <2>r, <2>w DEF IInv
<1> QED BY ZenonT(60), <1>2, <1>3 DEF Rollback

(* A call of Stop begins.                                                    *)
LEMMA StopCallStep ==
  ASSUME IInv, NEW c \in Callers, StopCall(c)
  PROVE  IInv'
<1>1. caller[c].pc = "idle" /\ UNCHANGED <<rt, shard, queue, held, injector>>
  BY ZenonT(60) DEF StopCall
<1>2. PICK bounded \in BOOLEAN :
         /\ caller' = [caller EXCEPT ![c].pc = "stopEnter", ![c].bounded = bounded]
         /\ calls' = [calls EXCEPT !.timedStop = IF bounded THEN @ + 1 ELSE @]
  BY ZenonT(60) DEF StopCall
<1>3. Moves(c, "stopEnter")
  <2> DEFINE r == [caller[c] EXCEPT !.pc = "stopEnter", !.bounded = bounded]
  <2>1. r \in CallerRec /\ r.pc = "stopEnter"
    BY ZenonT(60) DEF IInv, TypeOK, CallerRec
  <2>2. caller' = [caller EXCEPT ![c] = r]
    BY ZenonT(60), <1>2 DEF IInv, TypeOK
  <2> QED BY ZenonT(60), <2>1, <2>2 DEF IInv, TypeOK, Moves
<1>4. calls' \in [start : Nat, timedStop : Nat]
  BY <1>2 DEF IInv, TypeOK
<1>5. sawStopped' \in [Callers -> BOOLEAN] /\ (rt.state = "Stopped" => sawStopped'[c])
      /\ \A d \in Callers \ {c} : sawStopped'[d] = sawStopped[d]
  <2>1. (rt.state = "Stopped") \in BOOLEAN
    BY ZenonT(60)
  <2> QED BY ZenonT(60), <2>1 DEF StopCall, IInv, TypeOK
<1>t. TypeOK'
  BY ZenonT(60), <1>1, <1>3, <1>4, <1>5 DEF IInv, TypeOK, Moves
<1>e. Exclusive'
  BY <1>1, <1>3 DEF IInv, Exclusive, Moves, StartPcs, TeardownPcs
<1>r. Resources'
  BY <1>1, <1>3 DEF IInv, Resources, Exclusive, ThreadsHaveObjects, Quiet,
     Moves, StartPcs, TeardownPcs
<1>w. Witnessed'
  BY ZenonT(60), <1>1, <1>3, <1>5 DEF IInv, Witnessed, Exclusive, Moves, StartPcs, TeardownPcs
<1> QED BY ZenonT(60), <1>t, <1>e, <1>r, <1>w DEF IInv

-----------------------------------------------------------------------------
(* A caller of Stop waits, reports or claims the runtime.                    *)
LEMMA StopEnterStep ==
  ASSUME IInv, NEW c \in Callers, StopEnter(c)
  PROVE  IInv'
<1>1. /\ caller[c].pc \in {"stopEnter", "stopWait"}
      /\ UNCHANGED <<shard, queue, held, injector, calls, sawStopped>>
  BY ZenonT(60) DEF StopEnter
<1>2. CASE rt.stop_in_progress /\ Goto(c, "stopWait") /\ UNCHANGED rt
  <2>1. Moves(c, "stopWait")
    BY ZenonT(60), <1>2, GotoMoves DEF IInv
  <2>t. TypeOK'
    BY ZenonT(60), <1>1, <1>2, <2>1 DEF IInv, TypeOK, Moves
  <2>e. Exclusive'
    BY ZenonT(60), <1>2, <2>1 DEF IInv, Exclusive, Moves, StartPcs, TeardownPcs
  <2>r. Resources'
    BY ZenonT(60), <1>1, <1>2, <2>1 DEF IInv, Resources, Exclusive, ThreadsHaveObjects, Quiet,
       Moves, StartPcs, TeardownPcs
  <2>w. Witnessed'
    BY ZenonT(60), <1>1, <1>2, <2>1 DEF IInv, Witnessed, Exclusive, Moves, StartPcs, TeardownPcs
  <2> QED BY ZenonT(60), <2>t, <2>e, <2>r, <2>w DEF IInv
<1>3. CASE /\ ~rt.stop_in_progress /\ UNCHANGED rt
           /\ \/ caller[c].pc = "stopWait" /\ Return(c, rt.last)
              \/ rt.state = "Stopped" /\ Return(c, "Stopped")
  <2>1. rt.last \in {"Stopped", "TimedOut", "DrainFailed"}
    BY ZenonT(60) DEF IInv, TypeOK, RuntimeRec
  <2>2. /\ Moves(c, "returned")
        /\ \/ caller[c].pc = "stopWait" /\ caller'[c].result = rt.last
           \/ rt.state = "Stopped"
    BY ZenonT(60), <1>3, <2>1, ReturnMoves DEF IInv
  <2>t. TypeOK'
    BY ZenonT(60), <1>1, <1>3, <2>2 DEF IInv, TypeOK, Moves
  <2>e. Exclusive'
    BY ZenonT(60), <1>3, <2>2 DEF IInv, Exclusive, Moves, StartPcs, TeardownPcs
  <2>r. Resources'
    BY SMTT(60), <1>1, <1>3, <2>2 DEF IInv, Resources, Exclusive, ThreadsHaveObjects, Quiet,
       Moves, StartPcs, TeardownPcs
  <2>w. Witnessed'
    BY ZenonT(60), <1>1, <1>3, <2>2 DEF IInv, Witnessed, Exclusive, Moves, StartPcs, TeardownPcs
  <2> QED BY ZenonT(60), <2>t, <2>e, <2>r, <2>w DEF IInv
<1>4. CASE /\ rt.state # "Starting" /\ ~rt.stop_in_progress /\ rt.state # "Stopped"
           /\ rt' = [rt EXCEPT !.state = "Stopping", !.stop_in_progress = TRUE]
           /\ Goto(c, "quiesce")
  <2>1. Moves(c, "quiesce")
    BY ZenonT(60), <1>4, GotoMoves DEF IInv, TeardownPcs
  <2>2. /\ rt' \in RuntimeRec /\ rt'.state = "Stopping" /\ rt'.stop_in_progress
        /\ rt'.quiesced = rt.quiesced /\ rt'.pools = rt.pools /\ rt'.last = rt.last
        /\ rt.state \in {"Running", "Stopping"}
    BY ZenonT(60), <1>4 DEF IInv, TypeOK, RuntimeRec
  <2>t. TypeOK'
    BY ZenonT(60), <1>1, <2>1, <2>2 DEF IInv, TypeOK, Moves
  <2>e. Exclusive'
    BY SMTT(60), <1>4, <2>1, <2>2 DEF IInv, Exclusive, Moves, StartPcs, TeardownPcs
  <2>r. Resources'
    BY SMTT(60), <1>1, <1>4, <2>1, <2>2 DEF IInv, Resources, Exclusive, ThreadsHaveObjects, Quiet,
       Moves, StartPcs, TeardownPcs
  <2>w. Witnessed'
    BY <1>1, <2>1, <2>2 DEF IInv, Witnessed, Exclusive, Moves, StartPcs, TeardownPcs
  <2> QED BY ZenonT(60), <2>t, <2>e, <2>r, <2>w DEF IInv
<1> QED BY ZenonT(60), <1>2, <1>3, <1>4 DEF StopEnter

(* QuiesceShards stops the reception of one queue after the other.           *)
LEMMA QuiesceStep ==
  ASSUME IInv, NEW c \in Callers, Quiesce(c)
  PROVE  IInv'
<1>1. caller[c].pc = "quiesce" /\ UNCHANGED <<rt, shard, held, injector, calls, sawStopped>>
  BY ZenonT(60) DEF Quiesce
<1>2. PICK p \in TeardownPcs :
         Moves(c, p) /\ (p = "drain" => rt.quiesced) /\ (p = "stopShard" => caller'[c].i = 0)
  <2>1. CASE rt.quiesced /\ Goto(c, "drain")
    BY ZenonT(60), <2>1, GotoMoves DEF IInv, TeardownPcs
  <2>2. CASE caller[c].i < N /\ caller' = [caller EXCEPT ![c].i = caller[c].i + 1]
    BY ZenonT(60), <1>1, <2>2, LoopMoves DEF IInv, TeardownPcs
  <2>3. CASE Goto(c, "stopShard")
    BY ZenonT(60), <2>3, GotoMoves DEF IInv, TeardownPcs
  <2> QED BY ZenonT(60), <2>1, <2>2, <2>3 DEF Quiesce
<1>3. queue' \in [Ids -> QueueRec] /\ \A i \in Ids : queue'[i].open = queue[i].open
  <2>1. CASE UNCHANGED queue
    BY ZenonT(60), <2>1 DEF IInv, TypeOK
  <2>2. CASE queue' = [queue EXCEPT ![caller[c].i].handler = FALSE,
  ![caller[c].i].rx_stopped = TRUE,
                                    ![caller[c].i].backlog = 0]
    <3> DEFINE q == [queue[caller[c].i] EXCEPT !.handler = FALSE, !.rx_stopped = TRUE,
    !.backlog = 0]
    <3>1. queue' = [queue EXCEPT ![caller[c].i] = q]
      BY ZenonT(60), <2>2 DEF IInv, TypeOK
    <3>2. ASSUME caller[c].i \in Ids PROVE q \in QueueRec /\ q.open = queue[caller[c].i].open
      BY ZenonT(60), <3>2 DEF IInv, TypeOK, QueueRec
    <3> QED BY ZenonT(60), <3>1, <3>2 DEF IInv, TypeOK
  <2> QED BY ZenonT(60), <2>1, <2>2 DEF Quiesce
<1>4. \A i \in Ids : ~(i < 0)
  BY RuntimeAssumption DEF Ids
<1>t. TypeOK'
  BY ZenonT(60), <1>1, <1>2, <1>3 DEF IInv, TypeOK, Moves
<1>e. Exclusive'
  BY <1>1, <1>2 DEF IInv, Exclusive, Moves, StartPcs, TeardownPcs
<1>r. Resources'
  BY <1>1, <1>2, <1>3, <1>4 DEF IInv, Resources, Exclusive, ThreadsHaveObjects, Quiet,
     Moves, StartPcs, TeardownPcs
<1>w. Witnessed'
  BY ZenonT(60), <1>1, <1>2 DEF IInv, Witnessed, Exclusive, Moves, StartPcs, TeardownPcs
<1> QED BY ZenonT(60), <1>t, <1>e, <1>r, <1>w DEF IInv

(* QuiesceShards joins one thread after the other, then destroys the shards. *)
LEMMA StopShardStep ==
  ASSUME IInv, NEW c \in Callers, StopShard(c)
  PROVE  IInv'
<1>1. caller[c].pc = "stopShard" /\ UNCHANGED <<queue, held, injector, calls, sawStopped>>
  BY ZenonT(60) DEF StopShard
<1>2. CASE /\ shard' = [shard EXCEPT ![caller[c].i].stop = TRUE]
           /\ UNCHANGED <<rt, caller>>
  <2>1. /\ shard' \in [Ids -> ShardRec]
        /\ \A i \in Ids : shard'[i].object = shard[i].object /\ shard'[i].thread = shard[i].thread
    <3> DEFINE x == [shard[caller[c].i] EXCEPT !.stop = TRUE]
    <3>1. shard' = [shard EXCEPT ![caller[c].i] = x]
      BY ZenonT(60), <1>2 DEF IInv, TypeOK
    <3>2. ASSUME caller[c].i \in Ids
          PROVE  x \in ShardRec /\ x.object = shard[caller[c].i].object /\ x.thread = shard[caller[c].i].thread
      <4>1. shard[caller[c].i] \in ShardRec
        BY ZenonT(60), <3>2 DEF IInv, TypeOK
      <4> QED BY ZenonT(60), <4>1 DEF ShardRec
    <3> QED BY ZenonT(60), <3>1, <3>2 DEF IInv, TypeOK
  <2>2. Exclusive' /\ Resources' /\ Witnessed'
    BY ZenonT(60), <1>1, <1>2, <2>1, AroundStep
  <2>3. TypeOK'
    BY ZenonT(60), <1>1, <1>2, <2>1 DEF IInv, TypeOK
  <2> QED BY ZenonT(60), <2>2, <2>3 DEF IInv
<1>3. CASE /\ caller[c].i < N /\ shard[caller[c].i].thread # "running"
           /\ caller' = [caller EXCEPT ![c].i = caller[c].i + 1]
           /\ UNCHANGED <<rt, shard>>
  <2>1. Moves(c, "stopShard") /\ caller'[c].i = caller[c].i + 1
    BY ZenonT(60), <1>1, <1>3, LoopMoves DEF IInv
  <2>2. \A i \in Ids : i < caller[c].i + 1 => i < caller[c].i \/ i = caller[c].i
    BY RuntimeAssumption DEF IInv, TypeOK, CallerRec, Ids
  <2>t. TypeOK'
    BY ZenonT(60), <1>1, <1>3, <2>1 DEF IInv, TypeOK, Moves
  <2>e. Exclusive'
    BY <1>1, <1>3, <2>1 DEF IInv, Exclusive, Moves, StartPcs, TeardownPcs
  <2>r. Resources'
    BY SMTT(60), <1>1, <1>3, <2>1, <2>2 DEF IInv, Resources, Exclusive, ThreadsHaveObjects, Quiet,
       Moves, StartPcs, TeardownPcs
  <2>w. Witnessed'
    BY ZenonT(60), <1>1, <1>3, <2>1 DEF IInv, Witnessed, Exclusive, Moves, StartPcs, TeardownPcs
  <2> QED BY ZenonT(60), <2>t, <2>e, <2>r, <2>w DEF IInv
<1>4. CASE /\ caller[c].i = N
           /\ shard' = [j \in Ids |-> NoShard]
           /\ rt' = [rt EXCEPT !.quiesced = TRUE]
           /\ Goto(c, "drain")
  <2>1. Moves(c, "drain")
    BY ZenonT(60), <1>4, GotoMoves DEF IInv, TeardownPcs
  <2>2. /\ rt' \in RuntimeRec /\ rt'.state = rt.state /\ rt'.stop_in_progress = rt.stop_in_progress
        /\ rt'.quiesced /\ rt'.pools = rt.pools /\ rt'.last = rt.last
    BY ZenonT(60), <1>4 DEF IInv, TypeOK, RuntimeRec
  <2>3. shard' \in [Ids -> ShardRec] /\ \A i \in Ids : shard'[i].thread # "running"
    BY ZenonT(60), <1>4 DEF NoShard, ShardRec
  <2>t. TypeOK'
    BY ZenonT(60), <1>1, <2>1, <2>2, <2>3 DEF IInv, TypeOK, Moves
  <2>e. Exclusive'
    BY SMTT(60), <1>1, <2>1, <2>2 DEF IInv, Exclusive, Moves, StartPcs, TeardownPcs
  <2>r. Resources'
    BY ZenonT(60), <1>1, <2>1, <2>2, <2>3 DEF IInv, Resources, Exclusive, ThreadsHaveObjects, Quiet,
       Moves, StartPcs, TeardownPcs
  <2>w. Witnessed'
    BY ZenonT(60), <1>1, <2>1, <2>2 DEF IInv, Witnessed, Exclusive, Moves, StartPcs, TeardownPcs
  <2> QED BY ZenonT(60), <2>t, <2>e, <2>r, <2>w DEF IInv
<1> QED BY ZenonT(60), <1>2, <1>3, <1>4 DEF StopShard

(* A queue is drained.                                                       *)
LEMMA DrainTxStep ==
  ASSUME IInv, NEW c \in Callers, DrainTx(c)
  PROVE  IInv'
<1>1. caller[c].pc = "drain" /\ UNCHANGED <<rt, shard, held, injector, calls, sawStopped>>
  BY ZenonT(60) DEF DrainTx
<1>2. Moves(c, "drain")
  BY ZenonT(60), <1>1, LoopMoves DEF IInv, DrainTx
<1>3. queue' \in [Ids -> QueueRec] /\ \A i \in Ids : queue'[i].open = queue[i].open
  BY SMTT(60) DEF DrainTx, IInv, TypeOK, QueueRec
<1>t. TypeOK'
  BY ZenonT(60), <1>1, <1>2, <1>3 DEF IInv, TypeOK, Moves
<1>e. Exclusive'
  BY ZenonT(60), <1>1, <1>2 DEF IInv, Exclusive, Moves, StartPcs, TeardownPcs
<1>r. Resources'
  BY ZenonT(60), <1>1, <1>2, <1>3 DEF IInv, Resources, Exclusive, ThreadsHaveObjects, Quiet,
     Moves, StartPcs, TeardownPcs
<1>w. Witnessed'
  BY ZenonT(60), <1>1, <1>2 DEF IInv, Witnessed, Exclusive, Moves, StartPcs, TeardownPcs
<1> QED BY ZenonT(60), <1>t, <1>e, <1>r, <1>w DEF IInv

(* A Stop that gives up leaves the runtime Stopping with all it owns.        *)
LEMMA GivesUp ==
  ASSUME IInv, NEW c \in Callers, NEW x \in {"TimedOut", "DrainFailed"}, caller[c].pc = "drain",
         StopDone(c, rt, x), UNCHANGED <<shard, queue, held, injector, calls>>
  PROVE  IInv'
<1>1. Moves(c, "returned") /\ caller'[c].result = x
  BY ZenonT(60), ReturnMoves DEF IInv, StopDone
<1>2. /\ rt' = [rt EXCEPT !.last = x, !.stop_in_progress = FALSE, !.state = "Stopping"]
      /\ sawStopped' \in [Callers -> BOOLEAN]
      /\ \A d \in Callers : sawStopped[d] => sawStopped'[d]
  BY ZenonT(60), SetStateTells DEF IInv, StopDone
<1>3. /\ rt' \in RuntimeRec /\ rt'.state = "Stopping" /\ ~rt'.stop_in_progress
      /\ rt'.quiesced = rt.quiesced /\ rt'.pools = rt.pools /\ rt'.last = x
  BY ZenonT(60), <1>2 DEF IInv, TypeOK, RuntimeRec
<1>t. TypeOK'
  BY ZenonT(60), <1>1, <1>2, <1>3 DEF IInv, TypeOK, Moves
<1>e. Exclusive'
  BY ZenonT(60), <1>1, <1>3 DEF IInv, Exclusive, Moves, StartPcs, TeardownPcs
<1>r. Resources'
  BY ZenonT(60), <1>1, <1>3 DEF IInv, Resources, Exclusive, ThreadsHaveObjects, Quiet,
     Moves, StartPcs, TeardownPcs
<1>w. Witnessed'
  BY <1>1, <1>2, <1>3 DEF IInv, Witnessed, Exclusive, Moves, StartPcs, TeardownPcs
<1> QED BY ZenonT(60), <1>t, <1>e, <1>r, <1>w DEF IInv

(* Queues and pools go once the shards are quiesced.                         *)
LEMMA FinalizeResourcesStep ==
  ASSUME IInv, NEW c \in Callers, FinalizeResources(c)
  PROVE  IInv'
<1>1. caller[c].pc = "drain" /\ UNCHANGED <<shard, held, injector, calls>>
  BY ZenonT(60) DEF FinalizeResources
<1>2. CASE StopDone(c, rt, "DrainFailed") /\ UNCHANGED queue
  BY ZenonT(60), <1>1, <1>2, GivesUp
<1>3. CASE /\ queue' = [i \in Ids |-> [queue[i] EXCEPT !.open = FALSE]]
           /\ StopDone(c, [rt EXCEPT !.pools = FALSE, !.quiesced = FALSE], "Stopped")
  <2> DEFINE r == [[rt EXCEPT !.pools = FALSE, !.quiesced = FALSE]
                      EXCEPT !.last = "Stopped", !.stop_in_progress = FALSE, !.state = "Stopped"]
  <2>1. Moves(c, "returned")
    BY ZenonT(60), <1>3, ReturnMoves DEF IInv, StopDone
  <2>2. r \in RuntimeRec /\ r.state = "Stopped" /\ ~r.stop_in_progress /\ ~r.quiesced /\ ~r.pools
    BY ZenonT(60) DEF IInv, TypeOK, RuntimeRec
  <2>3. SetState(r)
    BY ZenonT(60), <1>3 DEF StopDone
  <2> HIDE DEF r
  <2>4. /\ rt' = r /\ sawStopped' \in [Callers -> BOOLEAN]
        /\ \A d \in Callers : sawStopped[d] \/ caller[d].pc # "idle" => sawStopped'[d]
    BY ZenonT(60), <2>2, <2>3, SetStateTells DEF IInv
  <2>5. queue' \in [Ids -> QueueRec]
    BY ZenonT(60), <1>3 DEF IInv, TypeOK, QueueRec
  <2>t. TypeOK'
    BY ZenonT(60), <1>1, <2>1, <2>2, <2>4, <2>5 DEF IInv, TypeOK, Moves
  <2>e. Exclusive'
    BY ZenonT(60), <1>1, <2>1, <2>2, <2>4 DEF IInv, Exclusive, Moves, StartPcs, TeardownPcs
  <2>r. Resources'
    BY <1>1, <2>1, <2>2, <2>4 DEF IInv, Resources, Exclusive, ThreadsHaveObjects, Quiet,
       Moves, StartPcs, TeardownPcs
  <2>w. Witnessed'
    BY ZenonT(60), <1>1, <2>1, <2>4 DEF IInv, Witnessed, Exclusive, Moves, StartPcs, TeardownPcs
  <2> QED BY ZenonT(60), <2>t, <2>e, <2>r, <2>w DEF IInv
<1> QED BY ZenonT(60), <1>2, <1>3 DEF FinalizeResources

(* The rest of Stop.                                                         *)
LEMMA StopRestStep ==
  ASSUME IInv, NEW c \in Callers, DrainTimesOut(c) \/ DrainAgain(c) \/ Returned(c)
  PROVE  IInv'
<1>1. CASE DrainTimesOut(c)
  BY ZenonT(60), <1>1, GivesUp DEF DrainTimesOut
<1>2. CASE DrainAgain(c) /\ caller[c].fatal
  BY ZenonT(60), <1>2, GivesUp DEF DrainAgain
<1>3. CASE DrainAgain(c) /\ ~caller[c].fatal
  <2>1. Moves(c, "drain") /\ caller[c].pc = "drain"
    BY ZenonT(60), <1>3, GotoMoves DEF IInv, DrainAgain, TeardownPcs
  <2>2. UNCHANGED <<rt, shard, queue, held, injector, calls, sawStopped>>
    BY ZenonT(60), <1>3 DEF DrainAgain
  <2>t. TypeOK'
    BY ZenonT(60), <2>1, <2>2 DEF IInv, TypeOK, Moves
  <2>e. Exclusive'
    BY ZenonT(60), <2>1, <2>2 DEF IInv, Exclusive, Moves, StartPcs, TeardownPcs
  <2>r. Resources'
    BY ZenonT(60), <2>1, <2>2 DEF IInv, Resources, Exclusive, ThreadsHaveObjects, Quiet,
       Moves, StartPcs, TeardownPcs
  <2>w. Witnessed'
    BY ZenonT(60), <2>1, <2>2 DEF IInv, Witnessed, Exclusive, Moves, StartPcs, TeardownPcs
  <2> QED BY ZenonT(60), <2>t, <2>e, <2>r, <2>w DEF IInv
<1>4. CASE Returned(c)
  <2>1. Moves(c, "idle")
    <3>1. Idle \in CallerRec /\ Idle.pc = "idle"
      BY RuntimeAssumption DEF Idle, CallerRec
    <3> QED BY ZenonT(60), <1>4, <3>1 DEF Returned, IInv, TypeOK, Moves
  <2>2. UNCHANGED <<rt, shard, queue, held, injector, calls, sawStopped>>
    BY ZenonT(60), <1>4 DEF Returned
  <2>t. TypeOK'
    BY ZenonT(60), <2>1, <2>2 DEF IInv, TypeOK, Moves
  <2>e. Exclusive'
    BY ZenonT(60), <2>1, <2>2 DEF IInv, Exclusive, Moves, StartPcs, TeardownPcs
  <2>r. Resources'
    BY SMTT(60), <2>1, <2>2 DEF IInv, Resources, Exclusive, ThreadsHaveObjects, Quiet,
       Moves, StartPcs, TeardownPcs
  <2>w. Witnessed'
    BY ZenonT(60), <2>1, <2>2 DEF IInv, Witnessed, Exclusive, Moves, StartPcs, TeardownPcs
  <2> QED BY ZenonT(60), <2>t, <2>e, <2>r, <2>w DEF IInv
<1> QED BY ZenonT(60), <1>1, <1>2, <1>3, <1>4

-----------------------------------------------------------------------------
(* The steps of the threads around Start and Stop keep the types.            *)
LEMMA AroundTypes ==
  ASSUME IInv, NEW i \in Ids,
         Allocate(i) \/ RecvBatch(i) \/ UseLease(i) \/ RunEnds(i) \/ TxComplete(i)
           \/ Inject \/ CallWake \/ AdapterReturns
  PROVE  /\ TypeOK'
         /\ UNCHANGED <<rt, caller, sawStopped>>
         /\ \A j \in Ids : /\ shard'[j].object = shard[j].object
                           /\ shard'[j].thread = "running" => shard[j].thread = "running"
                           /\ queue'[j].open = queue[j].open
<1> USE DEF IInv
<1>1. CASE Allocate(i)
  BY ZenonT(60), <1>1 DEF Allocate, TypeOK
<1>2. CASE RecvBatch(i)
  <2>1. shard' = [shard EXCEPT ![i] = [shard[i] EXCEPT !.leases = @ + 1]]
    BY ZenonT(60), <1>2 DEF RecvBatch, TypeOK
  <2>2. queue' = [queue EXCEPT ![i] = [queue[i] EXCEPT !.backlog = @ - 1]] /\ queue[i].backlog > 0
    BY ZenonT(60), <1>2 DEF RecvBatch, TypeOK
  <2>3. /\ shard' \in [Ids -> ShardRec]
        /\ \A j \in Ids : shard'[j].object = shard[j].object /\ shard'[j].thread = shard[j].thread
    BY <2>1 DEF TypeOK, ShardRec
  <2>4. queue[i].backlog - 1 \in Nat
    BY <2>2 DEF TypeOK, QueueRec
  <2>5. queue' \in [Ids -> QueueRec] /\ \A j \in Ids : queue'[j].open = queue[j].open
    BY SMTT(60), <2>2, <2>4 DEF TypeOK, QueueRec
  <2> QED BY ZenonT(60), <1>2, <2>3, <2>5 DEF RecvBatch, TypeOK
<1>3. CASE UseLease(i)
  <2>1. shard' = [shard EXCEPT ![i] = [shard[i] EXCEPT !.leases = @ - 1]] /\ shard[i].leases > 0
    BY ZenonT(60), <1>3 DEF UseLease, TypeOK
  <2>2. shard' \in [Ids -> ShardRec]
        /\ \A j \in Ids : shard'[j].object = shard[j].object /\ shard'[j].thread = shard[j].thread
    BY SMTT(60), <2>1 DEF TypeOK, ShardRec
  <2>3. /\ queue' \in [Ids -> QueueRec] /\ \A j \in Ids : queue'[j].open = queue[j].open
        /\ held' \in Nat
    <3>1. [queue[i] EXCEPT !.pending = @ + 1] \in QueueRec
      BY DEF TypeOK, QueueRec
    <3>2. queue' = queue \/ queue' = [queue EXCEPT ![i] = [queue[i] EXCEPT !.pending = @ + 1]]
      BY ZenonT(60), <1>3 DEF UseLease, TypeOK
    <3>3. held' \in Nat
      BY <1>3 DEF UseLease, TypeOK
    <3>4. CASE queue' = queue
      BY ZenonT(60), <3>3, <3>4 DEF TypeOK
    <3>5. CASE queue' = [queue EXCEPT ![i] = [queue[i] EXCEPT !.pending = @ + 1]]
      BY ZenonT(60), <3>1, <3>3, <3>5 DEF TypeOK, QueueRec
    <3> QED BY ZenonT(60), <3>2, <3>4, <3>5
  <2> QED BY ZenonT(60), <1>3, <2>2, <2>3 DEF UseLease, TypeOK
<1>4. CASE RunEnds(i)
  <2>1. PICK n \in 0..shard[i].leases :
           shard' = [shard EXCEPT ![i] = [shard[i] EXCEPT !.thread = "ended", !.leases = n]]
    BY ZenonT(60), <1>4 DEF RunEnds, TypeOK
  <2>2. n \in Nat
    BY <2>1 DEF TypeOK, ShardRec
  <2> QED BY ZenonT(60), <1>4, <2>1, <2>2 DEF RunEnds, TypeOK, ShardRec
<1>5. CASE TxComplete(i)
  <2>1. queue' = [queue EXCEPT ![i] = [queue[i] EXCEPT !.pending = 0]]
    BY ZenonT(60), <1>5 DEF TxComplete, TypeOK
  <2> QED BY <1>5, <2>1 DEF TxComplete, TypeOK, QueueRec
<1>6. CASE Inject
  <2>1. injector' \in [at : {"idle", "lease", "wake"}, queue : Ids] /\ injector.queue \in Ids
    BY ZenonT(60), <1>6 DEF Inject, TypeOK
  <2>2. \/ UNCHANGED queue
        \/ queue' = [queue EXCEPT ![injector.queue] = [queue[injector.queue] EXCEPT !.backlog = @ + 1]]
    BY ZenonT(60), <1>6, <2>1 DEF Inject, TypeOK
  <2>3. queue' \in [Ids -> QueueRec] /\ \A j \in Ids : queue'[j].open = queue[j].open
    BY SMTT(60), <2>1, <2>2 DEF TypeOK, QueueRec
  <2> QED BY ZenonT(60), <1>6, <2>1, <2>3 DEF Inject, TypeOK
<1>7. CASE CallWake
  BY ZenonT(60), <1>7 DEF CallWake, TypeOK
<1>8. CASE AdapterReturns
  BY <1>8 DEF AdapterReturns, TypeOK
<1> QED BY ZenonT(60), <1>1, <1>2, <1>3, <1>4, <1>5, <1>6, <1>7, <1>8

(* At first the runtime is stopped and every caller idle.                    *)
LEMMA InitIInv == Init => IInv
<1> SUFFICES ASSUME Init PROVE IInv
  BY ZenonT(60)
<1> USE DEF Init
<1>1. 0 \in 0..N /\ 0 \in Ids
  BY RuntimeAssumption DEF Ids
<1>2. Idle \in CallerRec /\ Idle.pc = "idle"
  BY ZenonT(60), <1>1 DEF Idle, CallerRec
<1>3. NoShard \in ShardRec /\ NoShard.thread = "none" /\ NewQueue \in QueueRec
  BY ZenonT(60) DEF NoShard, ShardRec, NewQueue, QueueRec
<1>4. TypeOK
  <2>1. rt \in RuntimeRec /\ calls \in [start : Nat, timedStop : Nat]
    BY ZenonT(60) DEF RuntimeRec
  <2>2. injector \in [at : {"idle", "lease", "wake"}, queue : Ids]
    BY ZenonT(60), <1>1
  <2>3. sawStopped \in [Callers -> BOOLEAN]
    BY ZenonT(60)
  <2> QED BY ZenonT(60), <1>2, <1>3, <2>1, <2>2, <2>3 DEF TypeOK
<1>5. \A c \in Callers : caller[c].pc = "idle"
  BY ZenonT(60), <1>2
<1>6. Exclusive /\ Witnessed
  BY ZenonT(60), <1>5 DEF Exclusive, Witnessed, StartPcs, TeardownPcs
<1>7. Resources
  BY ZenonT(60), <1>3, <1>5 DEF Resources, ThreadsHaveObjects, Quiet, StartPcs
<1> QED BY ZenonT(60), <1>4, <1>6, <1>7 DEF IInv

(* Every step keeps the invariant.                                           *)
LEMMA NextIInv == IInv /\ [Next]_vars => IInv'
<1> SUFFICES ASSUME IInv, [Next]_vars PROVE IInv'
  BY ZenonT(60)
<1>1. ASSUME NEW c \in Callers,
StartCall(c) \/ StopCall(c) \/ StartStep(c) \/ StopStep(c) \/ DrainTimesOut(c)
      PROVE  IInv'
  BY ZenonT(60), <1>1, StartCallStep, StopCallStep, OpenStep, StartShardStep, SetHandlersStep,
     RollbackStep, StopEnterStep,
     QuiesceStep, StopShardStep, DrainTxStep, FinalizeResourcesStep, StopRestStep
     DEF StartStep, StopStep
<1>2. ASSUME NEW i \in Ids,
Allocate(i) \/ RecvBatch(i) \/ UseLease(i) \/ RunEnds(i) \/ TxComplete(i)
                              \/ Inject \/ CallWake \/ AdapterReturns
      PROVE  IInv'
  <2>1. TypeOK'
    BY ZenonT(60), <1>2, AroundTypes
  <2>2. Exclusive' /\ Resources' /\ Witnessed'
    BY ZenonT(60), <1>2, AroundTypes, AroundStep
  <2> QED BY ZenonT(60), <2>1, <2>2 DEF IInv
<1>3. CASE UNCHANGED vars
  <2>1. TypeOK'
    BY ZenonT(60), <1>3 DEF IInv, TypeOK, vars
  <2>2. Exclusive' /\ Witnessed'
    BY ZenonT(60), <1>3 DEF IInv, Exclusive, Witnessed, vars
  <2>3. Resources'
    BY ZenonT(60), <1>3 DEF IInv, Resources, ThreadsHaveObjects, Quiet, vars
  <2> QED BY ZenonT(60), <2>1, <2>2, <2>3 DEF IInv
<1>4. 0 \in Ids
  BY RuntimeAssumption DEF Ids
<1> QED BY ZenonT(60), <1>1, <1>2, <1>3, <1>4 DEF Next

(* The invariant gives the order of Start and Stop.                          *)
LEMMA IInvOrder == IInv => StopKeepsOrder
<1> SUFFICES ASSUME IInv PROVE StopKeepsOrder
  BY ZenonT(60)
<1>1. IncompleteKeepsAll
  BY ZenonT(60) DEF IInv, IncompleteKeepsAll, Resources, Exclusive
<1>2. StopTruthful
  BY ZenonT(60) DEF IInv, StopTruthful, Witnessed
<1> QED BY ZenonT(60), <1>1, <1>2 DEF IInv, StopKeepsOrder, Resources

(* However many threads call Start and Stop, and whatever fails or times     *)
(* out, a shard thread runs only with its shard, queue and pools, an         *)
(* incomplete Stop keeps all of them with one thread in the teardown, and a  *)
(* Stop that reports completion saw the runtime stopped (Runtime::Stop).     *)
THEOREM StopOrder == Spec => []StopKeepsOrder
BY InitIInv, NextIInv, IInvOrder, PTL DEF Spec

-----------------------------------------------------------------------------
(* The leases that are out, as the two sums of OutstandingBuffers.           *)
Pending == [i \in Ids |-> queue[i].pending]
Load == [i \in Ids |-> queue[i].backlog + shard[i].leases]
InHand == IF injector.at = "lease" THEN 1 ELSE 0

(* The counts of OutstandingBuffers are sums of natural numbers.             *)
LEMMA OutstandingIs ==
  TypeOK => /\ \A i \in Ids : Pending[i] \in Nat /\ Load[i] \in Nat
            /\ SumFunctionOnSet(Pending, Ids) \in Nat /\ SumFunctionOnSet(Load, Ids) \in Nat
            /\ held \in Nat /\ InHand \in Nat
            /\ OutstandingBuffers = held + SumFunctionOnSet(Pending, Ids) + InHand
                                      + SumFunctionOnSet(Load, Ids)
<1> SUFFICES ASSUME TypeOK
    PROVE  /\ \A i \in Ids : Pending[i] \in Nat /\ Load[i] \in Nat
           /\ SumFunctionOnSet(Pending, Ids) \in Nat /\ SumFunctionOnSet(Load, Ids) \in Nat
           /\ held \in Nat /\ InHand \in Nat
           /\ OutstandingBuffers = held + SumFunctionOnSet(Pending, Ids) + InHand
                                     + SumFunctionOnSet(Load, Ids)
  BY ZenonT(60)
<1>1. IsFiniteSet(Ids)
  BY RuntimeAssumption, FS_Interval DEF Ids
<1>2. \A i \in Ids : queue[i].pending \in Nat /\ queue[i].backlog \in Nat /\ shard[i].leases \in Nat
  BY ZenonT(60) DEF TypeOK, QueueRec, ShardRec
<1>3. \A i \in Ids : queue[i].backlog + shard[i].leases \in Nat
  BY <1>2
<1>4. \A i \in Ids : Pending[i] \in Nat /\ Load[i] \in Nat
  BY ZenonT(60), <1>2, <1>3 DEF Pending, Load
<1>5. SumFunctionOnSet(Pending, Ids) \in Nat /\ SumFunctionOnSet(Load, Ids) \in Nat
  BY ZenonT(60), <1>1, <1>4, SumNat
<1>6. DOMAIN Pending = Ids /\ DOMAIN Load = Ids
  BY ZenonT(60) DEF Pending, Load
<1>7. OutstandingBuffers = held + SumFunction(Pending) + InHand + SumFunction(Load)
  BY ZenonT(60) DEF OutstandingBuffers, OutstandingTx, Pending, Load, InHand
<1>8. held \in Nat /\ InHand \in Nat
  BY DEF TypeOK, InHand
<1> QED
  BY ZenonT(60), <1>4, <1>5, <1>6, <1>7, <1>8 DEF SumFunction

(* The same after a step.                                                    *)
LEMMA OutstandingNext ==
  ASSUME TypeOK'
  PROVE  (/\ \A i \in Ids : Pending[i] \in Nat /\ Load[i] \in Nat
          /\ SumFunctionOnSet(Pending, Ids) \in Nat /\ SumFunctionOnSet(Load, Ids) \in Nat
          /\ held \in Nat /\ InHand \in Nat
          /\ OutstandingBuffers = held + SumFunctionOnSet(Pending, Ids) + InHand
                                    + SumFunctionOnSet(Load, Ids))'
BY OutstandingIs, PTL

(* A step after which nobody retains more than before leaves no more out.    *)
LEMMA FewerOut ==
  ASSUME TypeOK, TypeOK', held' <= held, InHand' <= InHand,
         \A i \in Ids : /\ queue'[i].pending <= queue[i].pending
                        /\ queue'[i].backlog + shard'[i].leases <= queue[i].backlog + shard[i].leases
  PROVE  OutstandingBuffers' <= OutstandingBuffers /\ OutstandingBuffers' \in Nat
<1>1. IsFiniteSet(Ids)
  BY RuntimeAssumption, FS_Interval DEF Ids
<1>2. /\ \A i \in Ids : Pending[i] \in Int /\ Load[i] \in Int
      /\ SumFunctionOnSet(Pending, Ids) \in Nat /\ SumFunctionOnSet(Load, Ids) \in Nat
      /\ held \in Nat /\ InHand \in Nat
      /\ OutstandingBuffers = held + SumFunctionOnSet(Pending, Ids) + InHand
                                + SumFunctionOnSet(Load, Ids)
  BY OutstandingIs
<1>4. \A i \in Ids : Pending'[i] \in Int /\ Load'[i] \in Int
  BY OutstandingNext
<1>5. \A i \in Ids : Pending'[i] <= Pending[i] /\ Load'[i] <= Load[i]
  BY ZenonT(60) DEF Pending, Load
<1>6. /\ SumFunctionOnSet(Pending', Ids) <= SumFunctionOnSet(Pending, Ids)
      /\ SumFunctionOnSet(Load', Ids) <= SumFunctionOnSet(Load, Ids)
  BY ZenonT(60), <1>1, <1>2, <1>4, <1>5, SumMonotone
<1>7. /\ SumFunctionOnSet(Pending', Ids) \in Nat /\ SumFunctionOnSet(Load', Ids) \in Nat
      /\ held' \in Nat /\ InHand' \in Nat
      /\ OutstandingBuffers' = held' + SumFunctionOnSet(Pending', Ids) + InHand'
                                 + SumFunctionOnSet(Load', Ids)
  BY ZenonT(60), OutstandingNext
<1> HIDE DEF OutstandingBuffers, InHand
<1> QED
  BY <1>2, <1>6, <1>7

(* What PoolsOutliveLeases says of one step.                                 *)
PoolsStep ==
    ~rt.pools' => IF rt.pools /\ rt.state = "Stopping"
                  THEN OutstandingBuffers' = 0
                  ELSE OutstandingBuffers' <= OutstandingBuffers

(* A step that leaves the pools alone and whose leases do not grow in number. *)
LEMMA KeepsPools ==
  ASSUME rt'.pools = rt.pools, ~rt.pools => OutstandingBuffers' <= OutstandingBuffers
  PROVE  PoolsStep
BY ZenonT(60) DEF PoolsStep

(* A step that leaves shards, queues, adapter and injector alone.            *)
LEMMA SameOut ==
  ASSUME UNCHANGED <<shard, queue, held, injector>>
  PROVE  OutstandingBuffers' = OutstandingBuffers
BY ZenonT(60) DEF OutstandingBuffers, OutstandingTx

(* NullPacketIo::Inject puts the lease in hand on the backlog, or drops it.  *)
LEMMA InjectOut ==
  ASSUME TypeOK, TypeOK', Inject
  PROVE  OutstandingBuffers' <= OutstandingBuffers
<1> DEFINE q == injector.queue
<1>1. q \in Ids /\ injector.at = "lease" /\ held' = held /\ shard' = shard
  BY ZenonT(60) DEF Inject, TypeOK
<1>2. InHand = 1 /\ InHand' = 0
  <2>1. injector'.at # "lease"
    BY ZenonT(60) DEF Inject, TypeOK
  <2> QED
    BY ZenonT(60), <1>1, <2>1 DEF InHand
<1>3. CASE queue' = queue
  BY <1>1, <1>2, <1>3, FewerOut DEF TypeOK, QueueRec, ShardRec
<1>4. CASE queue' = [queue EXCEPT ![q] = [queue[q] EXCEPT !.backlog = queue[q].backlog + 1]]
  <2>1. /\ \A j \in Ids : queue'[j].pending = queue[j].pending
        /\ \A j \in Ids \ {q} : queue'[j].backlog = queue[j].backlog
        /\ queue'[q].backlog = queue[q].backlog + 1
    BY ZenonT(60), <1>1, <1>4 DEF TypeOK, QueueRec
  <2>2. IsFiniteSet(Ids)
    BY RuntimeAssumption, FS_Interval DEF Ids
  <2>3. /\ \A j \in Ids : Pending[j] \in Int /\ Load[j] \in Int
        /\ SumFunctionOnSet(Pending, Ids) \in Nat /\ SumFunctionOnSet(Load, Ids) \in Nat
        /\ held \in Nat
        /\ OutstandingBuffers = held + SumFunctionOnSet(Pending, Ids) + InHand
                                  + SumFunctionOnSet(Load, Ids)
    BY OutstandingIs
  <2>4. /\ \A j \in Ids : Pending'[j] \in Nat /\ Load'[j] \in Nat
        /\ OutstandingBuffers' = held' + SumFunctionOnSet(Pending', Ids) + InHand'
                                   + SumFunctionOnSet(Load', Ids)
    BY ZenonT(60), OutstandingNext
  <2>5. \A j \in Ids : Pending'[j] \in Int /\ Load'[j] \in Int
    BY <2>4
  <2>6. /\ \A j \in Ids : Pending'[j] = Pending[j]
        /\ \A j \in Ids \ {q} : Load'[j] = Load[j]
    BY ZenonT(60), <1>1, <2>1 DEF Pending, Load
  <2>7. Load'[q] = Load[q] + 1
    <3>1. Load[q] = queue[q].backlog + shard[q].leases /\ Load'[q] = (queue[q].backlog + 1) + shard[q].leases
      BY ZenonT(60), <1>1, <2>1 DEF Load
    <3>2. queue[q].backlog \in Nat /\ shard[q].leases \in Nat
      BY ZenonT(60), <1>1 DEF TypeOK, QueueRec, ShardRec
    <3> QED
      BY <3>1, <3>2
  <2>8. SumFunctionOnSet(Pending', Ids) = SumFunctionOnSet(Pending, Ids)
    BY ZenonT(60), <2>2, <2>3, <2>6, SumCongruent
  <2>9. SumFunctionOnSet(Load', Ids) = SumFunctionOnSet(Load, Ids) - Load[q] + Load'[q]
    <3>1. /\ q \in Ids /\ IsFiniteSet(Ids)
          /\ \A j \in Ids : Load[j] \in Int /\ Load'[j] \in Int
          /\ \A j \in Ids \ {q} : Load'[j] = Load[j]
      BY ZenonT(60), <1>1, <2>2, <2>3, <2>5, <2>6
    <3> HIDE DEF q
    <3> QED
      BY ONLY SMT, <3>1, SumChange
  <2>10. OutstandingBuffers' = held' + SumFunctionOnSet(Pending', Ids) + InHand'
                                 + SumFunctionOnSet(Load', Ids)
    BY ZenonT(60), <2>4
  <2>11. Load[q] \in Int
    BY ZenonT(60), <1>1, <2>3
  <2> HIDE DEF q
  <2> QED
    BY <1>1, <1>2, <2>3, <2>7, <2>8, <2>9, <2>10, <2>11
<1> QED
  BY ZenonT(60), <1>3, <1>4 DEF Inject, TypeOK

(* A failed start discards the shards with what they held.                   *)
LEMMA RollbackPools ==
  ASSUME IInv, TypeOK', NEW c \in Callers, Rollback(c)
  PROVE  PoolsStep
<1>1. caller[c].pc = "rollback" /\ injector' = injector /\ held' = held
  BY ZenonT(60) DEF Rollback
<1>2. rt.pools /\ rt.state = "Starting"
  BY ZenonT(60), <1>1 DEF IInv, Resources, Exclusive, StartPcs
<1>3. CASE UNCHANGED rt
  BY ZenonT(60), <1>2, <1>3 DEF PoolsStep
<1>4. CASE /\ shard' = [i \in Ids |-> NoShard]
           /\ queue' = [i \in Ids |-> [queue[i] EXCEPT !.handler = FALSE, !.open = FALSE]]
  <2>1. \A i \in Ids : /\ queue'[i].pending = queue[i].pending
                       /\ queue'[i].backlog = queue[i].backlog
                       /\ shard'[i].leases = 0
    BY ZenonT(60), <1>4 DEF IInv, TypeOK, QueueRec, NoShard
  <2>2. \A i \in Ids : queue[i].pending \in Nat /\ queue[i].backlog \in Nat /\ shard[i].leases \in Nat
    BY ZenonT(60) DEF IInv, TypeOK, QueueRec, ShardRec
  <2>3. held' <= held /\ InHand' <= InHand
    BY <1>1 DEF IInv, TypeOK, InHand
  <2>4. \A i \in Ids : /\ queue'[i].pending <= queue[i].pending
                       /\ queue'[i].backlog + shard'[i].leases <= queue[i].backlog + shard[i].leases
    BY <2>1, <2>2
  <2>5. OutstandingBuffers' <= OutstandingBuffers
    BY ZenonT(60), <2>3, <2>4, FewerOut DEF IInv
  <2> QED
    BY ZenonT(60), <1>2, <2>5 DEF PoolsStep
<1> QED BY ZenonT(60), <1>3, <1>4 DEF Rollback

(* Stop discards the pools when nothing is out, and takes nothing out.       *)
LEMMA FinalizePools ==
  ASSUME IInv, TypeOK', NEW c \in Callers, FinalizeResources(c)
  PROVE  PoolsStep
<1>1. caller[c].pc = "drain" /\ injector' = injector /\ held' = held /\ shard' = shard
  BY ZenonT(60) DEF FinalizeResources
<1>2. rt.pools
  BY ZenonT(60), <1>1 DEF IInv, Resources, Exclusive, TeardownPcs
<1>3. CASE OutstandingBuffers # 0
  <2>1. rt'.pools = rt.pools
    BY ZenonT(60), <1>3 DEF FinalizeResources, StopDone, SetState, IInv, TypeOK, RuntimeRec
  <2> QED
    BY ZenonT(60), <1>2, <2>1 DEF PoolsStep
<1>4. CASE OutstandingBuffers = 0
  <2>1. queue' = [i \in Ids |-> [queue[i] EXCEPT !.open = FALSE]]
    BY ZenonT(60), <1>4 DEF FinalizeResources
  <2>2. \A i \in Ids : /\ queue'[i].pending = queue[i].pending
                       /\ queue'[i].backlog = queue[i].backlog
    BY ZenonT(60), <2>1 DEF IInv, TypeOK, QueueRec
  <2>3. \A i \in Ids : queue[i].pending \in Nat /\ queue[i].backlog \in Nat /\ shard[i].leases \in Nat
    BY ZenonT(60) DEF IInv, TypeOK, QueueRec, ShardRec
  <2>4. held' <= held /\ InHand' <= InHand
    BY <1>1 DEF IInv, TypeOK, InHand
  <2>5. \A i \in Ids : /\ queue'[i].pending <= queue[i].pending
                       /\ queue'[i].backlog + shard'[i].leases <= queue[i].backlog + shard[i].leases
    BY <1>1, <2>2, <2>3
  <2>6. OutstandingBuffers' <= OutstandingBuffers /\ OutstandingBuffers' \in Nat
    BY ZenonT(60), <2>4, <2>5, FewerOut DEF IInv
  <2>7. OutstandingBuffers' = 0
    <3> HIDE DEF OutstandingBuffers
    <3> QED BY <1>4, <2>6
  <2> QED
    BY ZenonT(60), <2>6, <2>7 DEF PoolsStep
<1> QED BY ZenonT(60), <1>3, <1>4

(* A Start that fails before it has pools leaves the leases where they are.  *)
LEMMA OpenPools ==
  ASSUME IInv, TypeOK', NEW c \in Callers, Open(c)
  PROVE  PoolsStep
<1>1. held' = held /\ injector' = injector
  BY ZenonT(60) DEF Open
<1>2. CASE rt' = [rt EXCEPT !.quiesced = FALSE, !.pools = TRUE]
  BY ZenonT(60), <1>2 DEF PoolsStep, IInv, TypeOK, RuntimeRec
<1>3. CASE /\ \E k \in 0..N : queue' = [i \in Ids |-> [queue[i] EXCEPT !.rx_stopped = @ /\ i >= k]]
           /\ SetState([rt EXCEPT !.state = "Stopped", !.quiesced = FALSE])
           /\ UNCHANGED shard
  <2>1. \A i \in Ids : /\ queue'[i].pending = queue[i].pending
                       /\ queue'[i].backlog = queue[i].backlog
    <3>1. PICK k \in 0..N : queue' = [i \in Ids |-> [queue[i] EXCEPT !.rx_stopped = @ /\ i >= k]]
      BY ZenonT(60), <1>3
    <3>2. \A i \in Ids : queue'[i] = [queue[i] EXCEPT !.rx_stopped = queue[i].rx_stopped /\ i >= k]
      BY ZenonT(60), <3>1
    <3>3. \A i \in Ids : queue[i] \in QueueRec
      BY ZenonT(60) DEF IInv, TypeOK
    <3>4. ASSUME NEW i \in Ids
          PROVE  queue'[i].pending = queue[i].pending /\ queue'[i].backlog = queue[i].backlog
      <4> DEFINE b == queue[i].rx_stopped /\ i >= k
      <4>1. queue'[i] = [queue[i] EXCEPT !.rx_stopped = b] /\ queue[i] \in QueueRec
        BY ZenonT(60), <3>2, <3>3
      <4> HIDE DEF b
      <4> QED BY ZenonT(60), <4>1 DEF QueueRec
    <3> QED BY ZenonT(60), <3>4
  <2>2. \A i \in Ids : queue[i].pending \in Nat /\ queue[i].backlog \in Nat /\ shard[i].leases \in Nat
    BY ZenonT(60) DEF IInv, TypeOK, QueueRec, ShardRec
  <2>3. held' <= held /\ InHand' <= InHand
    BY <1>1 DEF IInv, TypeOK, InHand
  <2>4. \A i \in Ids : /\ queue'[i].pending <= queue[i].pending
                       /\ queue'[i].backlog + shard'[i].leases <= queue[i].backlog + shard[i].leases
    BY <1>3, <2>1, <2>2
  <2>5. OutstandingBuffers' <= OutstandingBuffers
    BY ZenonT(60), <2>3, <2>4, FewerOut DEF IInv
  <2>6. rt'.pools = rt.pools
    BY ZenonT(60), <1>3 DEF SetState, IInv, TypeOK, RuntimeRec
  <2> QED
    BY ZenonT(60), <2>5, <2>6, KeepsPools
<1> QED BY ZenonT(60), <1>2, <1>3 DEF Open

(* The other steps of Start and of Stop either find and leave the pools, or  *)
(* touch no lease.                                                           *)
LEMMA CallerPools ==
  ASSUME IInv, NEW c \in Callers,
         \/ StartCall(c) \/ StopCall(c) \/ StartShard(c) \/ SetHandlers(c) \/ StopEnter(c)
         \/ Quiesce(c) \/ StopShard(c) \/ DrainTx(c) \/ DrainAgain(c) \/ DrainTimesOut(c)
         \/ Returned(c)
  PROVE  PoolsStep
<1>0. rt \in RuntimeRec
  BY ZenonT(60) DEF IInv, TypeOK
<1>1. CASE StartCall(c) \/ StopCall(c) \/ StopEnter(c) \/ Returned(c)
  <2>1. UNCHANGED <<shard, queue, held, injector>>
    BY ZenonT(60), <1>1 DEF StartCall, StopCall, StopEnter, Returned
  <2>2. rt'.pools = rt.pools
    BY ZenonT(60), <1>0, <1>1 DEF StartCall, StopCall, StopEnter, Returned, RuntimeRec
  <2>3. OutstandingBuffers \in Nat
    <3>1. TypeOK
      BY ZenonT(60) DEF IInv
    <3> HIDE DEF OutstandingBuffers, InHand
    <3> QED BY <3>1, OutstandingIs
  <2>4. OutstandingBuffers' = OutstandingBuffers
    BY ZenonT(60), <2>1, SameOut
  <2>5. OutstandingBuffers' <= OutstandingBuffers
    <3> HIDE DEF OutstandingBuffers
    <3> QED BY <2>3, <2>4
  <2> QED
    BY ZenonT(60), <2>2, <2>5, KeepsPools
<1>2. CASE StartShard(c) \/ SetHandlers(c)
  <2>1. caller[c].pc \in {"startShard", "setHandlers"}
    BY ZenonT(60), <1>2 DEF StartShard, SetHandlers
  <2>2. rt.pools
    BY ZenonT(60), <2>1 DEF IInv, Resources, StartPcs
  <2>3. rt'.pools = rt.pools
    BY ZenonT(60), <1>0, <1>2 DEF StartShard, SetHandlers, SetState, RuntimeRec
  <2> QED
    BY ZenonT(60), <2>2, <2>3, KeepsPools
<1>3. CASE Quiesce(c) \/ StopShard(c) \/ DrainTx(c) \/ DrainAgain(c) \/ DrainTimesOut(c)
  <2>1. caller[c].pc \in TeardownPcs
    BY ZenonT(60), <1>3 DEF Quiesce, StopShard, DrainTx, DrainAgain, DrainTimesOut, TeardownPcs
  <2>2. rt.pools
    BY ZenonT(60), <2>1 DEF IInv, Resources, Exclusive
  <2>3. rt'.pools = rt.pools
    BY ZenonT(60), <1>0, <1>3
       DEF Quiesce, StopShard, DrainTx, DrainAgain, DrainTimesOut, StopDone, SetState, RuntimeRec
  <2> QED
    BY ZenonT(60), <2>2, <2>3, KeepsPools
<1> QED BY ZenonT(60), <1>1, <1>2, <1>3

(* Of the threads around Start and Stop, a shard runs and a packet arrives   *)
(* only while there are pools; the others put leases back or pass them on.   *)
LEMMA AroundPools ==
  ASSUME IInv, TypeOK', NEW i \in Ids,
         Allocate(i) \/ RecvBatch(i) \/ UseLease(i) \/ RunEnds(i) \/ TxComplete(i)
           \/ Inject \/ CallWake \/ AdapterReturns
  PROVE  PoolsStep
<1>1. rt' = rt
  BY ZenonT(60), AroundTypes
<1>2. CASE Allocate(i) \/ RecvBatch(i) \/ UseLease(i) \/ RunEnds(i)
  <2>1. rt.pools
    BY ZenonT(60), <1>2 DEF Allocate, RecvBatch, UseLease, RunEnds, IInv, Resources, ThreadsHaveObjects
  <2> QED
    BY ZenonT(60), <1>1, <2>1, KeepsPools
<1>3. CASE Inject
  <2>1. OutstandingBuffers' <= OutstandingBuffers
    BY ZenonT(60), <1>3, InjectOut DEF IInv
  <2> QED
    BY ZenonT(60), <1>1, <2>1, KeepsPools
<1>4. CASE TxComplete(i) \/ CallWake \/ AdapterReturns
  <2>0. held \in Nat /\ \A j \in Ids : /\ queue[j].pending \in Nat /\ queue[j].backlog \in Nat
                                       /\ shard[j].leases \in Nat
    BY ZenonT(60) DEF IInv, TypeOK, QueueRec, ShardRec
  <2>1. /\ shard' = shard
        /\ \A j \in Ids : /\ queue'[j].backlog = queue[j].backlog
                          /\ queue'[j].pending \in {0, queue[j].pending}
    <3>1. CASE TxComplete(i)
      <4>1. queue' = [queue EXCEPT ![i] = [queue[i] EXCEPT !.pending = 0]] /\ shard' = shard
        BY ZenonT(60), <3>1 DEF TxComplete, IInv, TypeOK
      <4> QED BY ZenonT(60), <4>1 DEF IInv, TypeOK, QueueRec
    <3>2. CASE CallWake \/ AdapterReturns
      BY ZenonT(60), <3>2 DEF CallWake, AdapterReturns
    <3> QED BY ZenonT(60), <1>4, <3>1, <3>2
  <2>2. \A j \in Ids : /\ queue'[j].pending <= queue[j].pending
                       /\ queue'[j].backlog + shard'[j].leases <= queue[j].backlog + shard[j].leases
    BY <2>0, <2>1
  <2>3. held' <= held
    BY <1>4, <2>0 DEF TxComplete, CallWake, AdapterReturns
  <2>4. InHand' \in {0, InHand} /\ InHand \in {0, 1}
    BY ZenonT(60), <1>4 DEF TxComplete, CallWake, AdapterReturns, InHand, IInv, TypeOK
  <2>5. InHand' <= InHand
    BY <2>4
  <2>6. OutstandingBuffers' <= OutstandingBuffers
    BY ZenonT(60), <2>2, <2>3, <2>5, FewerOut DEF IInv
  <2> QED
    BY ZenonT(60), <1>1, <2>6, KeepsPools
<1> QED BY ZenonT(60), <1>2, <1>3, <1>4

(* Every step respects the pools.                                            *)
LEMMA NextPools == IInv /\ IInv' /\ [Next]_vars => [PoolsStep]_vars
<1> SUFFICES ASSUME IInv, IInv', Next PROVE PoolsStep
  BY ZenonT(60)
<1>0. TypeOK'
  BY ZenonT(60) DEF IInv
<1>1. ASSUME NEW c \in Callers,
             StartCall(c) \/ StopCall(c) \/ StartStep(c) \/ StopStep(c) \/ DrainTimesOut(c)
      PROVE  PoolsStep
  BY ZenonT(60), <1>0, <1>1, CallerPools, OpenPools, RollbackPools, FinalizePools
     DEF StartStep, StopStep
<1>2. ASSUME NEW i \in Ids,
             Allocate(i) \/ RecvBatch(i) \/ UseLease(i) \/ RunEnds(i) \/ TxComplete(i)
               \/ Inject \/ CallWake \/ AdapterReturns
      PROVE  PoolsStep
  BY ZenonT(60), <1>0, <1>2, AroundPools
<1>3. 0 \in Ids
  BY RuntimeAssumption DEF Ids
<1> QED BY ZenonT(60), <1>1, <1>2, <1>3 DEF Next

(* Stop discards the pools only when no lease is out with a backend, a       *)
(* shard or an adapter, and while there are no pools nobody comes by another *)
(* lease (Runtime::FinalizeResources, NullPacketIo::Inject).                 *)
THEOREM PoolsOutlive == Spec => PoolsOutliveLeases
<1>1. [PoolsStep]_vars => [~rt.pools' => IF rt.pools /\ rt.state = "Stopping"
                                         THEN OutstandingBuffers' = 0
                                         ELSE OutstandingBuffers' <= OutstandingBuffers]_vars
  BY ZenonT(60) DEF PoolsStep
<1> QED BY InitIInv, NextIInv, NextPools, <1>1, PTL DEF Spec, PoolsOutliveLeases
============================================================================
