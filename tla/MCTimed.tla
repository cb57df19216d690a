------------------------------ MODULE MCTimed -------------------------------
(***************************************************************************)
(* The parts whose state the clock moves: a shard's timer wheel, and the   *)
(* controllers that estimate a connection's path.  TimerWheel and          *)
(* RateControl share no state.  Each behaviour is one of a single           *)
(* configuration, part, and the variables of the others keep their initial  *)
(* values:                                                                  *)
(*   "wheel"   four ids, of which 0 is not used, so that they wrap around   *)
(*             at once                                                      *)
(*   "bbr", "hybrid"  one controller each over two paths, with windows and  *)
(*             intervals small enough to elapse                             *)
(***************************************************************************)
EXTENDS TimerWheel

VARIABLES part, mss_, cc, path, settled, parity, troubles

MCPaths == {[rate |-> 6, rtt |-> 2], [rate |-> 4, rtt |-> 3]}

Bbr == INSTANCE RateControl WITH
    algorithm <- "bbr", MssValues <- {1, 2}, Paths <- MCPaths, Acked <- {8},
    Flights <- {2, 12}, kRtpropWindowMs <- 1, kRtpropSampleCount <- 2,
    kProbeRttIntervalMs <- 1, kProbeRttDurationMs <- 1,
    kProbeBwGainsQ8 <- <<320, 192>>, kBtlBwWindowRounds <- 1,
    MaxCwnd <- 12, MaxChanges <- 1, MaxTroubles <- 1
Hybrid == INSTANCE RateControl WITH
    algorithm <- "hybrid", MssValues <- {1, 2}, Paths <- MCPaths, Acked <- {8},
    Flights <- {12}, kRtpropWindowMs <- 0, kRtpropSampleCount <- 1,
    kProbeRttIntervalMs <- 1, kProbeRttDurationMs <- 1,
    kProbeBwGainsQ8 <- <<320, 192>>, kBtlBwWindowRounds <- 2,
    MaxCwnd <- 12, MaxChanges <- 1, MaxTroubles <- 2

ASSUME Bbr!RateControlAssumption /\ Hybrid!RateControlAssumption

rateVars == <<mss_, cc, path, settled, parity, troubles>>
allVars == <<part, vars, rateVars>>

MCInit ==
    /\ part \in {"wheel", "bbr", "hybrid"}
    /\ Init
    /\ IF part = "hybrid" THEN Hybrid!Init ELSE Bbr!Init
    /\ part # "wheel" \/ path.is.rtt = 2

MCNext ==
    /\ UNCHANGED part
    /\ \/ part = "wheel" /\ Next /\ UNCHANGED rateVars
       \/ part = "bbr" /\ Bbr!Next /\ UNCHANGED vars
       \/ part = "hybrid" /\ Hybrid!Next /\ UNCHANGED vars

\* On a settled path the peer goes on acknowledging what is sent.
AckArrives == part # "wheel" /\ Bbr!AckArrives

MCSpec == MCInit /\ [][MCNext]_allVars /\ WF_parity(AckArrives)

-----------------------------------------------------------------------------
\* The controllers' estimates never outlive the path they were measured on by
\* more than their filters, and their window always has room for a segment,
\* whatever order losses, marks, timeouts and MSS changes come in
\* (UpdateRTprop, EndRound, OnRto, OnEcnCe, UpdateMss, OnFastRecoveryExit).
PathTracked ==
    IF part = "hybrid" THEN Hybrid!EstimatesFollowPath /\ Hybrid!SegmentFits
                       ELSE Bbr!EstimatesFollowPath /\ Bbr!SegmentFits

\* On a settled path the controller ends up with its round-trip time, BBR in its
\* steady states and the hybrid with the path's rate and its BDP as the window
\* (CheckStartupDone, CheckDrainDone, RecomputeCwnd).
PathLearned ==
    /\ <>[](part = "bbr" /\ settled => Bbr!Learned)
    /\ <>[](part = "hybrid" /\ settled => Hybrid!Learned)
=============================================================================
