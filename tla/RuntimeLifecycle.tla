------------------------- MODULE RuntimeLifecycle -------------------------
(***************************************************************************)
(* Runtime::Start and Runtime::Stop, called by several threads, with the   *)
(* shard threads they start and join, the NullPacketIo backend that keeps  *)
(* leases and wakes shards, a thread that injects packets, and an adapter  *)
(* that keeps leases.  Queue i is owned by shard i.  Leases are counted,   *)
(* not named; every one belongs to a pool of the current incarnation.      *)
(***************************************************************************)
EXTENDS Integers, Functions

CONSTANTS
    Callers,       \* threads that call Start and Stop
    N,             \* queues and shards
    MaxLeases,     \* bound on leases out of the pools at once
    MaxStarts,     \* bound on calls of Start
    MaxTimedStops, \* bound on calls of Stop with a deadline
    StartMayFail   \* a shard may fail to start

ASSUME RuntimeAssumption == N \in Nat \ {0} /\ MaxLeases \in Nat /\ StartMayFail \in BOOLEAN

Ids == 0..(N - 1)

VARIABLES
    rt,        \* the Runtime: its state and the resources it owns
    shard,     \* per shard: its object, its thread, what it was asked to do
    queue,     \* per queue: the backend's state
    held,      \* leases the adapter retains
    injector,  \* the injecting thread: a lease in hand, or a wake handler copied
    caller,    \* per caller: where it is in Start or Stop
    calls,     \* calls of Start, and of Stop with a deadline, so far
    sawStopped \* per caller: the runtime was Stopped at some time of its call

vars == <<rt, shard, queue, held, injector, caller, calls, sawStopped>>

NoShard == [object |-> FALSE, thread |-> "none", stop |-> FALSE, leases |-> 0]
NewQueue == [open |-> FALSE, handler |-> FALSE, rx_stopped |-> FALSE, backlog |-> 0, pending |-> 0]
Idle == [pc |-> "idle", i |-> 0, bounded |-> FALSE, fatal |-> FALSE, result |-> "none"]

Init ==
    /\ rt = [state |-> "Stopped", stop_in_progress |-> FALSE, last |-> "Stopped",
             quiesced |-> FALSE, pools |-> FALSE]
    /\ shard = [i \in Ids |-> NoShard]
    /\ queue = [i \in Ids |-> NewQueue]
    /\ held = 0 /\ injector = [at |-> "idle", queue |-> 0]
    /\ calls = [start |-> 0, timedStop |-> 0]
    /\ caller = [c \in Callers |-> Idle]
    /\ sawStopped = [c \in Callers |-> FALSE]

OutstandingTx == SumFunction([i \in Ids |-> queue[i].pending])

OutstandingBuffers ==
    held + OutstandingTx + (IF injector.at = "lease" THEN 1 ELSE 0)
      + SumFunction([i \in Ids |-> queue[i].backlog + shard[i].leases])

Goto(c, pc) == caller' = [caller EXCEPT ![c].pc = pc, ![c].i = 0]

\* The runtime goes to a state; the calls under way that see it Stopped.
SetState(r) ==
    /\ rt' = r
    /\ sawStopped' = [c \in Callers |-> sawStopped[c]
                        \/ (r.state = "Stopped" /\ caller[c].pc # "idle")]

-----------------------------------------------------------------------------
(* Start.                                                                  *)

\* Start claims the runtime.
StartCall(c) ==
    /\ caller[c].pc = "idle" /\ calls.start < MaxStarts
    /\ rt.state = "Stopped"
    /\ calls' = [calls EXCEPT !.start = @ + 1]
    /\ rt' = [rt EXCEPT !.state = "Starting"]
    /\ Goto(c, "open")
    /\ UNCHANGED <<shard, queue, held, injector, sawStopped>>

\* Steps 1 to 8 open the queues and make the pools, shards and lanes, or fail
\* with the queues that were opened discarded.
Open(c) ==
    /\ caller[c].pc = "open"
    /\ \/ /\ rt' = [rt EXCEPT !.quiesced = FALSE, !.pools = TRUE]
          /\ queue' = [i \in Ids |-> [queue[i] EXCEPT !.open = TRUE, !.rx_stopped = FALSE]]
          /\ shard' = [i \in Ids |-> [NoShard EXCEPT !.object = TRUE]]
          /\ Goto(c, "startShard")
          /\ UNCHANGED sawStopped
       \/ /\ StartMayFail
          /\ \E k \in 0..N : queue' = [i \in Ids |-> [queue[i] EXCEPT !.rx_stopped = @ /\ i >= k]]
          /\ SetState([rt EXCEPT !.state = "Stopped", !.quiesced = FALSE])
          /\ Goto(c, "idle")
          /\ UNCHANGED shard
    /\ UNCHANGED <<held, injector, calls>>

\* Step 9: the threads start one after the other.
StartShard(c) ==
    LET i == caller[c].i
    IN  /\ caller[c].pc = "startShard"
        /\ \/ /\ i < N
              /\ shard' = [shard EXCEPT ![i].thread = "running"]
              /\ caller' = [caller EXCEPT ![c].i = i + 1]
           \/ /\ i < N /\ StartMayFail
              /\ Goto(c, "rollback")
              /\ UNCHANGED shard
           \/ /\ i = N
              /\ Goto(c, "setHandlers")
              /\ UNCHANGED shard
        /\ UNCHANGED <<rt, queue, held, injector, calls, sawStopped>>

\* Step 10: the handlers are set and the runtime is Running.
SetHandlers(c) ==
    /\ caller[c].pc = "setHandlers"
    /\ queue' = [i \in Ids |-> [queue[i] EXCEPT !.handler = TRUE]]
    /\ SetState([rt EXCEPT !.state = "Running"])
    /\ Goto(c, "idle")
    /\ UNCHANGED <<shard, held, injector, calls>>

\* A thread did not start: the ones before it are stopped and joined, then
\* shards, lanes, pools and queues are discarded in this order.
Rollback(c) ==
    /\ caller[c].pc = "rollback"
    /\ \/ /\ \E i \in Ids : shard[i].thread = "running" /\ ~shard[i].stop
          /\ shard' = [i \in Ids |-> [shard[i] EXCEPT !.stop = shard[i].thread = "running"]]
          /\ UNCHANGED <<rt, queue, held, caller, sawStopped>>
       \/ /\ \A i \in Ids : shard[i].thread # "running"
          /\ shard' = [i \in Ids |-> NoShard]
          /\ queue' = [i \in Ids |-> [queue[i] EXCEPT !.handler = FALSE, !.open = FALSE]]
          /\ SetState([rt EXCEPT !.state = "Stopped", !.pools = FALSE])
          /\ Goto(c, "idle")
          /\ UNCHANGED held
    /\ UNCHANGED <<injector, calls>>

-----------------------------------------------------------------------------
(* Stop.                                                                   *)

StopCall(c) ==
    /\ caller[c].pc = "idle" /\ calls.start > 0
    /\ \E bounded \in BOOLEAN :
          /\ bounded => calls.timedStop < MaxTimedStops
          /\ caller' = [caller EXCEPT ![c].pc = "stopEnter", ![c].bounded = bounded]
          /\ calls' = [calls EXCEPT !.timedStop = IF bounded THEN @ + 1 ELSE @]
    /\ sawStopped' = [sawStopped EXCEPT ![c] = rt.state = "Stopped"]
    /\ UNCHANGED <<rt, shard, queue, held, injector>>

Return(c, result) == caller' = [caller EXCEPT ![c] = [Idle EXCEPT !.pc = "returned", !.result = result]]

\* With the lifecycle mutex: wait while the runtime starts or another thread
\* stops it; a thread that waited for another's stop reports its result.
StopEnter_StaleResult(c) ==
    /\ caller[c].pc \in {"stopEnter", "stopWait"}
    /\ \/ rt.stop_in_progress /\ Return(c, rt.last) /\ UNCHANGED rt
       \/ /\ rt.state # "Starting" /\ ~rt.stop_in_progress
          /\ IF rt.state = "Stopped"
             THEN Return(c, "Stopped") /\ UNCHANGED rt
             ELSE /\ rt' = [rt EXCEPT !.state = "Stopping", !.stop_in_progress = TRUE]
                  /\ Goto(c, "quiesce")
    /\ UNCHANGED <<shard, queue, held, injector, calls, sawStopped>>

StopEnter(c) ==
    /\ \/ /\ caller[c].pc = "stopEnter" /\ rt.stop_in_progress
          /\ Goto(c, "stopWait")
          /\ UNCHANGED rt
       \/ /\ caller[c].pc \in {"stopEnter", "stopWait"}
          /\ rt.state # "Starting" /\ ~rt.stop_in_progress
          /\ IF caller[c].pc = "stopWait"
             THEN Return(c, rt.last) /\ UNCHANGED rt
             ELSE IF rt.state = "Stopped"
             THEN Return(c, "Stopped") /\ UNCHANGED rt
             ELSE /\ rt' = [rt EXCEPT !.state = "Stopping", !.stop_in_progress = TRUE]
                  /\ Goto(c, "quiesce")
    /\ UNCHANGED <<shard, queue, held, injector, calls, sawStopped>>

\* QuiesceShards, per queue: the handler is cleared and StopRx releases the
\* backlog.  Nothing is done when an earlier Stop has quiesced the shards.
Quiesce(c) ==
    LET i == caller[c].i
    IN  /\ caller[c].pc = "quiesce"
        /\ \/ /\ rt.quiesced
              /\ Goto(c, "drain")
              /\ UNCHANGED queue
           \/ /\ ~rt.quiesced /\ i < N
              /\ queue' = [queue EXCEPT ![i].handler = FALSE, ![i].rx_stopped = TRUE, ![i].backlog = 0]
              /\ caller' = [caller EXCEPT ![c].i = i + 1]
           \/ /\ ~rt.quiesced /\ i = N
              /\ Goto(c, "stopShard")
              /\ UNCHANGED queue
        /\ UNCHANGED <<rt, shard, held, injector, calls, sawStopped>>

\* QuiesceShards, per shard: Stop posts kStop and joins the thread; then the
\* lanes and the shards are destroyed.
StopShard_KeepsLanes(c) ==
    LET i == caller[c].i
    IN  /\ caller[c].pc = "stopShard"
        /\ \/ /\ i < N /\ shard[i].thread = "running" /\ ~shard[i].stop
              /\ shard' = [shard EXCEPT ![i].stop = TRUE]
              /\ UNCHANGED <<rt, caller>>
           \/ /\ i < N /\ shard[i].thread # "running"
              /\ caller' = [caller EXCEPT ![c].i = i + 1]
              /\ UNCHANGED <<rt, shard>>
           \/ /\ i = N
              /\ shard' = [j \in Ids |-> [NoShard EXCEPT !.leases = shard[j].leases]]
              /\ rt' = [rt EXCEPT !.quiesced = TRUE]
              /\ Goto(c, "drain")
        /\ UNCHANGED <<queue, held, injector, calls, sawStopped>>

StopShard(c) ==
    LET i == caller[c].i
    IN  /\ caller[c].pc = "stopShard"
        /\ \/ /\ i < N /\ shard[i].thread = "running" /\ ~shard[i].stop
              /\ shard' = [shard EXCEPT ![i].stop = TRUE]
              /\ UNCHANGED <<rt, caller>>
           \/ /\ i < N /\ shard[i].thread # "running"
              /\ caller' = [caller EXCEPT ![c].i = i + 1]
              /\ UNCHANGED <<rt, shard>>
           \/ /\ i = N
              /\ shard' = [j \in Ids |-> NoShard]
              /\ rt' = [rt EXCEPT !.quiesced = TRUE]
              /\ Goto(c, "drain")
        /\ UNCHANGED <<queue, held, injector, calls, sawStopped>>

\* Stop's last block, once DoStop has a result.
StopDone(c, r, result) ==
    /\ SetState([r EXCEPT !.last = result, !.stop_in_progress = FALSE,
                          !.state = IF result = "Stopped" THEN "Stopped" ELSE "Stopping"])
    /\ Return(c, result)

\* DrainTxAndFinalize, per queue: DrainTx completes every pending lease, or
\* reports that it would block or failed and keeps them.
DrainTx(c) ==
    LET i == caller[c].i
    IN  /\ caller[c].pc = "drain"
        /\ i < N
        /\ \/ /\ queue' = [queue EXCEPT ![i].pending = 0]
              /\ caller' = [caller EXCEPT ![c].i = i + 1]
           \/ /\ queue[i].pending > 0
              /\ \E fatal \in BOOLEAN :
                    caller' = [caller EXCEPT ![c].i = i + 1, ![c].fatal = @ \/ fatal]
              /\ UNCHANGED queue
        /\ UNCHANGED <<rt, shard, held, injector, calls, sawStopped>>

\* The deadline passes between two queues or at the end of a round.
DrainTimesOut(c) ==
    /\ caller[c].pc = "drain" /\ caller[c].bounded
    /\ caller[c].i < N \/ (OutstandingTx > 0 /\ ~caller[c].fatal)
    /\ StopDone(c, rt, "TimedOut")
    /\ UNCHANGED <<shard, queue, held, injector, calls>>

\* The end of a round with leases still pending.
DrainAgain(c) ==
    /\ caller[c].pc = "drain" /\ caller[c].i = N /\ OutstandingTx > 0
    /\ \/ /\ caller[c].fatal
          /\ StopDone(c, rt, "DrainFailed")
       \/ /\ ~caller[c].fatal
          /\ Goto(c, "drain")
          /\ UNCHANGED <<rt, sawStopped>>
    /\ UNCHANGED <<shard, queue, held, injector, calls>>

\* FinalizeResources: queues and pools go only when no buffer is out.  No
\* buffer can go out any more, so the code's second count finds none either.
FinalizeResources_Unchecked(c) ==
    /\ caller[c].pc = "drain" /\ caller[c].i = N /\ OutstandingTx = 0
    /\ queue' = [i \in Ids |-> [queue[i] EXCEPT !.open = FALSE]]
    /\ StopDone(c, [rt EXCEPT !.pools = FALSE, !.quiesced = FALSE], "Stopped")
    /\ UNCHANGED <<shard, held, injector, calls>>

FinalizeResources(c) ==
    /\ caller[c].pc = "drain" /\ caller[c].i = N /\ OutstandingTx = 0
    /\ IF OutstandingBuffers # 0
       THEN StopDone(c, rt, "DrainFailed") /\ UNCHANGED queue
       ELSE /\ queue' = [i \in Ids |-> [queue[i] EXCEPT !.open = FALSE]]
            /\ StopDone(c, [rt EXCEPT !.pools = FALSE, !.quiesced = FALSE], "Stopped")
    /\ UNCHANGED <<shard, held, injector, calls>>

\* The caller reads the result and goes on.
Returned(c) ==
    /\ caller[c].pc = "returned"
    /\ caller' = [caller EXCEPT ![c] = Idle]
    /\ UNCHANGED <<rt, shard, queue, held, injector, calls, sawStopped>>

-----------------------------------------------------------------------------
(* The threads around it.                                                  *)

\* A packet arrives: the backend, or the thread that feeds it, takes a lease
\* from the pool that Start gave the queue.
Allocate(i) ==
    /\ injector.at = "idle" /\ rt.state \in {"Starting", "Running"} /\ rt.pools
    /\ OutstandingBuffers < MaxLeases
    /\ injector' = [at |-> "lease", queue |-> i]
    /\ UNCHANGED <<rt, shard, queue, held, caller, calls, sawStopped>>

\* NullPacketIo::Inject: the packet is queued under the lock, or refused; the
\* handler of a queue that was empty is copied and called after the unlock.
Inject ==
    LET i == injector.queue
    IN  /\ injector.at = "lease"
        /\ \/ /\ queue[i].rx_stopped
              /\ injector' = [injector EXCEPT !.at = "idle"]
              /\ UNCHANGED queue
           \/ /\ ~queue[i].rx_stopped
              /\ queue' = [queue EXCEPT ![i].backlog = @ + 1]
              /\ injector' = [injector EXCEPT !.at = IF queue[i].backlog = 0 /\ queue[i].handler
                                                    THEN "wake" ELSE "idle"]
        /\ UNCHANGED <<rt, shard, held, caller, calls, sawStopped>>

\* The handler wakes its shard.
CallWake ==
    /\ injector.at = "wake"
    /\ injector' = [injector EXCEPT !.at = "idle"]
    /\ UNCHANGED <<rt, shard, queue, held, caller, calls, sawStopped>>

\* The shard thread takes a packet from its queue.
RecvBatch(i) ==
    /\ shard[i].thread = "running"
    /\ queue[i].backlog > 0 /\ ~queue[i].rx_stopped
    /\ shard' = [shard EXCEPT ![i].leases = @ + 1]
    /\ queue' = [queue EXCEPT ![i].backlog = @ - 1]
    /\ UNCHANGED <<rt, held, injector, caller, calls, sawStopped>>

\* The shard uses up a lease: it drops it, sends it to a backend that
\* completes at once or later, or hands it to the session adapter.
UseLease(i) ==
    /\ shard[i].thread = "running" /\ shard[i].leases > 0
    /\ shard' = [shard EXCEPT ![i].leases = @ - 1]
    /\ \/ UNCHANGED <<queue, held>>
       \/ queue' = [queue EXCEPT ![i].pending = @ + 1] /\ UNCHANGED held
       \/ held' = held + 1 /\ UNCHANGED queue
    /\ UNCHANGED <<rt, injector, caller, calls, sawStopped>>

\* The thread sees the stop message, releases what it holds and ends; what it
\* had put on a lane whose reader is gone stays there.
RunEnds(i) ==
    /\ shard[i].thread = "running" /\ shard[i].stop
    /\ \E onLanes \in 0..shard[i].leases :
          shard' = [shard EXCEPT ![i].thread = "ended", ![i].leases = onLanes]
    /\ UNCHANGED <<rt, queue, held, injector, caller, calls, sawStopped>>

\* The backend completes the transmissions of a queue; the adapter returns a
\* lease.
TxComplete(i) ==
    /\ queue[i].pending > 0
    /\ queue' = [queue EXCEPT ![i].pending = 0]
    /\ UNCHANGED <<rt, shard, held, injector, caller, calls, sawStopped>>

AdapterReturns ==
    /\ held > 0
    /\ held' = held - 1
    /\ UNCHANGED <<rt, shard, queue, injector, caller, calls, sawStopped>>

\* A step of Start, and a step of Stop, of one caller.
StartStep(c) == Open(c) \/ StartShard(c) \/ SetHandlers(c) \/ Rollback(c)
StopStep(c) ==
    StopEnter(c) \/ Quiesce(c) \/ StopShard(c) \/ DrainTx(c) \/ DrainAgain(c)
      \/ FinalizeResources(c) \/ Returned(c)

Next ==
    \/ \E c \in Callers : StartCall(c) \/ StopCall(c) \/ StartStep(c) \/ StopStep(c) \/ DrainTimesOut(c)
    \/ \E i \in Ids : Allocate(i) \/ RecvBatch(i) \/ UseLease(i) \/ RunEnds(i) \/ TxComplete(i)
    \/ Inject \/ CallWake \/ AdapterReturns

Spec == Init /\ [][Next]_vars

\* The threads run, the backend completes what it accepted, the adapter
\* returns what it retained, and a Stop that did not complete is retried.
Retry(c) == rt.state = "Stopping" /\ StopCall(c)

FairSpec ==
    /\ Spec
    /\ \A c \in Callers : WF_vars(StartStep(c)) /\ WF_vars(StopStep(c)) /\ WF_vars(Retry(c))
    /\ \A i \in Ids : WF_vars(RunEnds(i)) /\ WF_vars(TxComplete(i))
    /\ WF_vars(AdapterReturns) /\ WF_vars(Inject)

-----------------------------------------------------------------------------
RuntimeRec ==
    [state : {"Stopped", "Starting", "Running", "Stopping"}, stop_in_progress : BOOLEAN,
     last : {"Stopped", "TimedOut", "DrainFailed"}, quiesced : BOOLEAN, pools : BOOLEAN]
ShardRec == [object : BOOLEAN, thread : {"none", "running", "ended"}, stop : BOOLEAN, leases : Nat]
QueueRec == [open : BOOLEAN, handler : BOOLEAN, rx_stopped : BOOLEAN, backlog : Nat, pending : Nat]
CallerRec ==
    [pc : {"idle", "open", "startShard", "setHandlers", "rollback", "stopEnter",
           "stopWait", "quiesce", "stopShard", "drain", "returned"},
     i : 0..N, bounded : BOOLEAN, fatal : BOOLEAN,
     result : {"none", "Stopped", "TimedOut", "DrainFailed"}]

\* The variables have their types.
TypeOK ==
    /\ rt \in RuntimeRec
    /\ shard \in [Ids -> ShardRec] /\ queue \in [Ids -> QueueRec]
    /\ held \in Nat
    /\ injector \in [at : {"idle", "lease", "wake"}, queue : Ids]
    /\ caller \in [Callers -> CallerRec]
    /\ calls \in [start : Nat, timedStop : Nat]
    /\ sawStopped \in [Callers -> BOOLEAN]

\* Stop destroys no pool while a backend, a shard or an adapter retains one of
\* its leases, and once the pools are gone nobody comes by another lease.
PoolsOutliveLeases ==
    [][~rt.pools' => IF rt.pools /\ rt.state = "Stopping"
                     THEN OutstandingBuffers' = 0
                     ELSE OutstandingBuffers' <= OutstandingBuffers]_vars

\* A shard thread only runs on a shard object that exists, with its queue
\* open: Stop joins before it destroys, and destroys before it closes.
ThreadsHaveObjects ==
    \A i \in Ids : shard[i].thread = "running" => shard[i].object /\ queue[i].open /\ rt.pools

\* A Stop reports completion only when the runtime was fully stopped at some
\* time between the call and the return, also when it reports the result of
\* another thread's Stop.
StopTruthful ==
    \A c \in Callers : caller[c].pc = "returned" /\ caller[c].result = "Stopped" => sawStopped[c]

\* Where a caller of Stop holds the runtime for itself.
TeardownPcs == {"quiesce", "stopShard", "drain"}

\* An incomplete Stop leaves the runtime Stopping with its queues and pools
\* intact, and only one thread tears down at a time.
IncompleteKeepsAll ==
    /\ rt.state = "Stopping" => rt.pools /\ \A i \in Ids : queue[i].open
    /\ \A c, d \in Callers : caller[c].pc \in TeardownPcs /\ caller[d].pc \in TeardownPcs => c = d

\* While Start and Stop of any threads overlap, a running shard thread has its
\* shard, queue and pools, a stop that is incomplete keeps all of them, and a
\* Stop that reports completion saw the runtime stopped (StopEnter, StopShard,
\* FinalizeResources).
StopKeepsOrder == TypeOK /\ ThreadsHaveObjects /\ IncompleteKeepsAll /\ StopTruthful

\* A runtime that is stopping is stopped in the end when Stop is retried.
StopCompletes == rt.state = "Stopping" ~> rt.state = "Stopped"

\* No pool is destroyed while a backend can retain a lease, also when Start
\* fails after some shards have run.
BackendLeasesOutlived == ~rt.pools => OutstandingTx = 0

\* A wake handler never reaches a shard that has been destroyed: the
\* handlers are cleared before the teardown.
WakeReachesShard == injector.at = "wake" => shard[injector.queue].object
=============================================================================
