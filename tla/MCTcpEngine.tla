---------------------------- MODULE MCTcpEngine -----------------------------
(***************************************************************************)
(* TcpEngine with clients of one listener.  Each behaviour is one of a      *)
(* single configuration, part:                                              *)
(*   "pair"    two clients at the limits of the backlog, the table, the     *)
(*             response queue and the TIME-WAIT set                         *)
(*   "faults"  one client that numbers a second FIN, allocations that fail  *)
(*             and factories that reject                                    *)
(*   "silent"  one client that may fall silent, a scheduler that may refuse *)
(*             responses, and an event loop that goes on turning            *)
(***************************************************************************)
EXTENDS TcpEngine, TLC

CONSTANTS f1, f2, f3, l1

VARIABLE part

TwoFlows == {f1, f2}
Symmetric == Permutations(TwoFlows)
OneListener == [f \in Flows |-> l1]

OneFaulty == INSTANCE TcpEngine WITH
    Flows <- {f3}, Listener <- [f \in {f3} |-> l1],
    Odd <- {f3}, AllocationFails <- TRUE, FactoryRejects <- TRUE, RepeatsFin <- TRUE
OneSilent == INSTANCE TcpEngine WITH
    Flows <- {f3}, Listener <- [f \in {f3} |-> l1], Odd <- {f3}, Deferring <- {f3}

ASSUME OneFaulty!EngineAssumption /\ OneSilent!EngineAssumption

allVars == <<part, vars>>

MCInit ==
    /\ part \in {"pair", "faults", "silent"}
    /\ IF part = "pair" THEN Init ELSE OneSilent!Init

MCNext ==
    /\ UNCHANGED part
    /\ \/ part = "pair" /\ Next
       \/ part = "faults" /\ OneFaulty!Next
       \/ part = "silent" /\ OneSilent!Next

\* The event loop never stops turning (Fairness of TcpEngine).
FiresInTime(kind) ==
    /\ part = "silent" /\ UNCHANGED part
    /\ \E t \in eng.timers : t.kind = kind /\ OneSilent!Fire(t, OneSilent!NoTrouble)
PopsOn == part = "silent" /\ UNCHANGED part /\ OneSilent!Pop
PumpsOn == part = "silent" /\ UNCHANGED part /\ OneSilent!Pump(OneSilent!Unanswered)

MCSpec ==
    /\ MCInit /\ [][MCNext]_allVars
    /\ \A kind \in TimerKinds : WF_allVars(FiresInTime(kind))
    /\ WF_allVars(PopsOn) /\ WF_allVars(PumpsOn)

-----------------------------------------------------------------------------
\* One connection per flow and one PCB per connection, whose parts fit its
\* state, although RemoveAt moves PCBs about; the counters that admit new
\* connections agree with the table through every way out of SYN-RECEIVED
\* (RemoveAt, Establish).
TableKept ==
    /\ IF part = "pair" THEN TypeOK ELSE OneSilent!TypeOK
    /\ part = "pair" => TableSound /\ AdmissionExact
    /\ part = "silent" => OneSilent!TableSound /\ OneSilent!AdmissionExact

\* A timer belongs to the connection it was set for, and every half-open or
\* TIME-WAIT connection has the timer that will remove it (Schedule, RemoveAt).
TimersKept ==
    /\ part = "pair" => TimersOwned
    /\ part = "silent" => OneSilent!TimersOwned

\* What the application hears of a connection is its history: at most one
\* Established and one end, in this order, no announced connection gone without
\* its end, and one ShutdownWrite() however often the client's FIN comes
\* (EmitFlowEvent, HandleFin).
HistoryTold ==
    /\ EventsOrdered /\ ShutdownOnce
    /\ part = "pair" => EndAnnounced
    /\ part = "silent" => OneSilent!EndAnnounced

\* While the event loop turns and the pump reaches every connection, none is
\* stuck half-open, in TIME-WAIT or waiting for the acknowledgment of its FIN.
SilentClientLeaves == \A id \in Ids : (part = "silent" /\ Passing(id)) ~> ~Passing(id)
=============================================================================
