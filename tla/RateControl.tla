---------------------------- MODULE RateControl ----------------------------
(***************************************************************************)
(* The two controllers that estimate the path (tcp/congestion.cpp):        *)
(* BbrController and HybridBdpAimdController, driven by the send buffer    *)
(* over a path whose rate and round-trip time change.                      *)
(*                                                                         *)
(* cc is the controller of one connection, with the members of both        *)
(* classes; algorithm says which is in use.  A time is kept as its age,    *)
(* which stops at MaxAge: every comparison the code makes with it has gone *)
(* one way for good by then.  The send buffer never calls OnPacketSent, so *)
(* bytes_sent_ stays 0 and a BBR round ends with the ACK that began it.    *)
(* Rates are small, so the saturation of 64-bit products is left out.      *)
(***************************************************************************)
EXTENDS Integers, Sequences, FiniteSetsExt

CONSTANTS
    algorithm,            \* "bbr" or "hybrid"
    MssValues,            \* segment sizes, the connection begins with the largest
    Paths,                \* rates and round-trip times a path can have
    Acked,                \* octets an ACK acknowledges
    Flights,              \* octets in flight when a loss is found
    kRtpropWindowMs, kRtpropSampleCount,
    kProbeRttIntervalMs, kProbeRttDurationMs,
    kProbeBwGainsQ8,      \* the gains of the PROBE_BW cycle
    kBtlBwWindowRounds,
    MaxCwnd,              \* the window stops growing here (bound)
    MaxChanges,           \* changes of the path (bound)
    MaxTroubles           \* losses, marks, timeouts and MSS changes (bound)

kStartupGainQ8 == 738
kDrainGainQ8 == 89
kCycleLen == Len(kProbeBwGainsQ8)
MaxPhase == Max({p.rtt : p \in Paths})
Unset == -1               \* cycle_start_ms_ = 0

\* The last conjunct: BBR leaves DRAIN only on a path of at least 4 MSS, its
\* least window (CheckDrainDone).
RateControlAssumption ==
    /\ algorithm \in {"bbr", "hybrid"}
    /\ kRtpropWindowMs \in Nat /\ {kRtpropSampleCount, kBtlBwWindowRounds, kCycleLen} \subseteq Nat \ {0}
    /\ MssValues \subseteq Nat \ {0} /\ Acked \subseteq Nat \ {0} /\ Flights \subseteq Nat
    /\ \A p \in Paths : p.rate * p.rtt >= 4 * Max(MssValues)

VARIABLES
    mss_,       \* the send buffer's segment size
    cc,         \* the controller
    path,       \* the path, with the changes and the samples it has seen
    settled,    \* the path will not change, lose or mark any more
    parity,     \* of the ACKs since the path settled
    troubles    \* losses, marks, timeouts and MSS changes so far

Hybrid == algorithm = "hybrid"
vars == <<mss_, cc, path, settled, parity, troubles>>

NoSample == [rtt |-> 0, age |-> 0]

NewController(mss) ==
    [mss |-> mss, cwnd |-> 2 * mss, btlbw |-> 0,
     rtprop |-> 0, rtprop_stamp |-> kProbeRttIntervalMs, pos |-> 0, count |-> 0,
     samples |-> [i \in 0..(kRtpropSampleCount - 1) |-> NoSample],
     \* BbrController
     state |-> "Startup", prev_max |-> 0, round_max |-> 0, no_growth |-> 0,
     cycle_index |-> 0, cycle_age |-> Unset, probe_age |-> 0,
     \* HybridBdpAimdController
     window |-> [i \in 0..(kBtlBwWindowRounds - 1) |-> 0], wpos |-> 0, wcount |-> 0, current |-> 0,
     round_acked |-> 0, round_target |-> 2 * mss, round_started |-> FALSE,
     ssthresh |-> MaxCwnd, fast_recovery |-> FALSE]

Init ==
    /\ mss_ = Max(MssValues) /\ cc = NewController(mss_)
    /\ path \in [is : Paths, age : {0}, taken : {0}, late : {FALSE}, ended : {0}, changes : {0}]
    /\ settled = FALSE /\ parity = 0 /\ troubles = 0

-----------------------------------------------------------------------------
(* UpdateRTprop, the same in both classes: a ring of samples, of which the *)
(* ones within the window count.                                           *)

Put(c, rtt) ==
    [c EXCEPT !.samples[c.pos] = [rtt |-> rtt, age |-> 0],
              !.pos = (@ + 1) % kRtpropSampleCount,
              !.count = IF @ < kRtpropSampleCount THEN @ + 1 ELSE @]

Live(c) == {i \in 0..(c.count - 1) : c.samples[i].age <= kRtpropWindowMs}

\* The first of the live samples with the smallest round-trip time.
Smallest(c) ==
    Min({i \in Live(c) : \A j \in Live(c) : c.samples[i].rtt <= c.samples[j].rtt})

AtSample(c, s) == [c EXCEPT !.rtprop = s.rtt, !.rtprop_stamp = IF Hybrid THEN @ ELSE s.age]
MinFiltered(c) == AtSample(c, c.samples[Smallest(c)])

UpdateRTprop(c, rs) == IF rs.rtt = 0 THEN c ELSE MinFiltered(Put(c, rs.rtt))

Larger(a, b) == IF a > b THEN a ELSE b
Smaller(a, b) == IF a < b THEN a ELSE b
Bdp(c) == IF c.btlbw = 0 \/ c.rtprop = 0 THEN 0 ELSE c.btlbw * c.rtprop
Counts(rs) == rs.rate # 0 /\ ~rs.app_limited

-----------------------------------------------------------------------------
(* BbrController.  A member that is written again before it is next read   *)
(* keeps one value meanwhile: round_max outside STARTUP, cycle_age and     *)
(* probe_age outside the state that reads them.                            *)

BbrUpdateBtlBw(c, rs) ==
    IF ~Counts(rs) THEN c
    ELSE [c EXCEPT !.btlbw = Larger(@, rs.rate),
              !.round_max = IF c.state = "Startup" THEN Larger(@, rs.rate) ELSE @]

\* A phase of the PROBE_BW cycle lasts one RTprop.
AdvanceCycle(c) ==
    IF c.cycle_age = Unset THEN [c EXCEPT !.cycle_age = 0]
    ELSE IF c.cycle_age >= Larger(c.rtprop, 1)
    THEN [c EXCEPT !.cycle_age = 0, !.cycle_index = (@ + 1) % kCycleLen]
    ELSE c

EnterProbeRtt(c) == [c EXCEPT !.state = "ProbeRtt", !.probe_age = 0, !.cycle_age = Unset]
ExitProbeRtt(c) ==
    [c EXCEPT !.state = "ProbeBw", !.rtprop_stamp = 0, !.probe_age = 0, !.cycle_index = 0, !.cycle_age = 0]

Transition(c) ==
    IF c.state = "ProbeBw"
    THEN IF c.rtprop_stamp >= kProbeRttIntervalMs THEN EnterProbeRtt(AdvanceCycle(c)) ELSE AdvanceCycle(c)
    ELSE IF c.state = "ProbeRtt" /\ c.probe_age >= kProbeRttDurationMs
    THEN ExitProbeRtt(c) ELSE c

Gain(c) == CASE c.state = "Startup" -> kStartupGainQ8
             [] c.state = "Drain" -> kDrainGainQ8
             [] c.state = "ProbeRtt" -> 256
             [] c.state = "ProbeBw" -> kProbeBwGainsQ8[c.cycle_index + 1]

Recompute(c) ==
    [c EXCEPT !.cwnd = Larger((Bdp(c) * Gain(c)) \div 256, 4 * c.mss)]

CheckDrainDone(c) ==
    IF c.state = "Drain" /\ Bdp(c) > 0 /\ c.cwnd <= Bdp(c)
    THEN [c EXCEPT !.state = "ProbeBw", !.cycle_index = 0, !.cycle_age = Unset] ELSE c

NoGrowth(c) ==
    IF c.prev_max > 0 /\ c.round_max > 0
    THEN IF c.round_max <= (c.prev_max * 5) \div 4 THEN c.no_growth + 1 ELSE 0
    ELSE c.no_growth

\* STARTUP ends after three rounds without growth.
StartupRound(c, rounds) ==
    [c EXCEPT !.prev_max = c.round_max, !.round_max = 0,
              !.state = IF rounds >= 3 THEN "Drain" ELSE @,
              !.no_growth = IF rounds >= 3 THEN 0 ELSE rounds]

\* Mutant: a round that measured anything counts as growth.
CheckStartupDone_Zeroes(c, rs) ==
    IF rs.acked > 0 /\ c.state = "Startup"
    THEN StartupRound(c, IF c.round_max > 0 THEN 0 ELSE c.no_growth) ELSE c

CheckStartupDone(c, rs) == IF rs.acked > 0 /\ c.state = "Startup" THEN StartupRound(c, NoGrowth(c)) ELSE c

BbrOnAck(c, rs) ==
    CheckStartupDone(CheckDrainDone(Recompute(Transition(UpdateRTprop(BbrUpdateBtlBw(c, rs), rs)))), rs)

-----------------------------------------------------------------------------
(* HybridBdpAimdController.                                                *)

HybridUpdateBtlBw(c, rs) == IF Counts(rs) THEN [c EXCEPT !.current = Larger(@, rs.rate)] ELSE c

StartRound(c) ==
    IF c.round_started THEN c
    ELSE [c EXCEPT !.round_started = TRUE, !.round_acked = 0, !.round_target = c.cwnd]

\* The round's maximum goes into the ring, whose maximum is the estimate.
Fold(c) ==
    [c EXCEPT !.window[c.wpos] = c.current, !.current = 0,
              !.wpos = (@ + 1) % kBtlBwWindowRounds,
              !.wcount = IF @ < kBtlBwWindowRounds THEN @ + 1 ELSE @]

\* Mutant: the estimate is the largest ever measured.
EndRound_Lifetime(c) ==
    [Fold(c) EXCEPT !.btlbw = Larger(@, c.current), !.round_acked = 0, !.round_target = c.cwnd]

MaxFiltered(c) ==
    [c EXCEPT !.btlbw = Max({c.window[i] : i \in 0..(c.wcount - 1)}), !.round_acked = 0, !.round_target = c.cwnd]

EndRound(c) == MaxFiltered(Fold(c))

Deliver(c, acked) == [c EXCEPT !.round_acked = @ + acked]

CloseRound(c) == IF c.round_acked >= c.round_target THEN EndRound(c) ELSE c

\* Slow start while an estimate is missing, the BDP from then on.
HybridWindow(c, rs) ==
    [c EXCEPT !.cwnd = IF c.btlbw = 0 \/ c.rtprop = 0
                       THEN Smaller(@ + Smaller(rs.acked, c.mss), MaxCwnd)
                       ELSE Smaller(Larger(Bdp(c), 4 * c.mss), MaxCwnd)]

HybridOnAck(c, rs) ==
    IF c.fast_recovery THEN c
    ELSE HybridWindow(CloseRound(Deliver(UpdateRTprop(HybridUpdateBtlBw(StartRound(c), rs), rs), rs.acked)), rs)

OnFastRecoveryEntry(c, flight) ==
    [c EXCEPT !.ssthresh = Larger(flight \div 2, 2 * c.mss),
              !.cwnd = Smaller(Larger(flight \div 2, 2 * c.mss) + 3 * c.mss, MaxCwnd),
              !.fast_recovery = TRUE]

OnDupAck(c) == [c EXCEPT !.cwnd = Smaller(@ + c.mss, MaxCwnd)]
OnFastRecoveryExit(c) == [c EXCEPT !.cwnd = c.ssthresh, !.fast_recovery = FALSE]

\* The estimates are invalidated.
HybridOnRto(c) == [NewController(c.mss) EXCEPT !.cwnd = c.mss, !.ssthresh = c.ssthresh]
BbrOnRto(c) == [c EXCEPT !.cwnd = c.mss]

HybridOnEcnCe(c) == [c EXCEPT !.ssthresh = Larger(c.cwnd \div 2, 2 * c.mss), !.cwnd = Larger(@ \div 2, 2 * c.mss)]
BbrOnEcnCe(c) == [c EXCEPT !.cwnd = Larger(@ \div 2, 2 * c.mss)]

\* The window keeps its number of segments when the segment shrinks.
HybridOnMss(c, mss, pristine) ==
    LET cwnd == IF pristine THEN 2 * mss
                ELSE IF mss < c.mss THEN Larger(mss, (c.cwnd * mss) \div c.mss) ELSE c.cwnd
    IN  [c EXCEPT !.mss = mss, !.cwnd = cwnd, !.round_target = cwnd]

-----------------------------------------------------------------------------
(* What the send buffer does to its controller, and what happens to time   *)
(* and to the path.                                                        *)

\* An ECE cuts the window before the rest of OnAck looks at it.
Marked(c, ece) == IF ~ece THEN c ELSE IF Hybrid THEN HybridOnEcnCe(c) ELSE BbrOnEcnCe(c)

\* ACKs of a path: what they acknowledge, the rate and the round-trip time,
\* which a queue lengthens; 0 when the record was retransmitted.
Samples ==
    [rate : {0, path.is.rate}, rtt : {0} \cup {p.rtt : p \in {q \in Paths : q.rtt >= path.is.rtt}},
     app_limited : {FALSE}, acked : Acked]
    \cup [rate : {path.is.rate}, rtt : {path.is.rtt}, app_limited : {TRUE}, acked : Acked]
    \cup [rate : {0}, rtt : {path.is.rtt}, app_limited : {FALSE}, acked : {0}]
FullSamples ==
    [rate : {path.is.rate}, rtt : {path.is.rtt}, app_limited : {FALSE}, acked : Acked]

\* The path as the controller has seen it: samples and rounds since it changed.
Seen(rs) ==
    [path EXCEPT !.taken = IF rs.rtt = 0 THEN @ ELSE Smaller(@ + 1, kRtpropSampleCount),
                 !.late = @ \/ (rs.rtt # 0 /\ path.age > kRtpropWindowMs),
                 !.ended = IF cc'.wpos = cc.wpos /\ cc'.wcount = cc.wcount THEN @
                           ELSE Smaller(@ + 1, kBtlBwWindowRounds + 1)]

Counted == parity' = IF settled THEN 1 - parity ELSE 0

OnAckSample(rs, ece) ==
    /\ ~cc.fast_recovery
    /\ cc' = IF Hybrid THEN HybridOnAck(Marked(cc, ece), rs) ELSE BbrOnAck(Marked(cc, ece), rs)
    /\ path' = Seen(rs) /\ Counted /\ UNCHANGED <<mss_, settled>>

Trouble == ~settled /\ troubles < MaxTroubles /\ troubles' = troubles + 1
EceOrNot(ece) == IF ece THEN Trouble ELSE UNCHANGED troubles

OnAck == \E ece \in BOOLEAN : ~settled /\ EceOrNot(ece) /\ \E rs \in Samples : OnAckSample(rs, ece)
OnFullAck == \E rs \in FullSamples : settled /\ OnAckSample(rs, FALSE) /\ UNCHANGED troubles

\* New data acknowledged in fast recovery ends it, and is not a sample.
OnAckInRecovery ==
    /\ cc.fast_recovery
    /\ \E ece \in BOOLEAN : EceOrNot(ece) /\ cc' = OnFastRecoveryExit(Marked(cc, ece))
    /\ Counted /\ UNCHANGED <<mss_, path, settled>>

\* A duplicate ACK inflates the window in recovery; the third one, or a third
\* SACKed record, enters it.  BBR looks at neither.
OnDuplicateAck ==
    /\ Trouble
    /\ \E ece \in BOOLEAN, flight \in Flights :
          cc' \in {Marked(cc, ece),
                   IF ~Hybrid THEN Marked(cc, ece)
                   ELSE IF cc.fast_recovery THEN OnDupAck(Marked(cc, ece))
                   ELSE OnFastRecoveryEntry(Marked(cc, ece), flight)}
    /\ UNCHANGED <<mss_, path, settled, parity>>

\* The first timeout of a record tells the hybrid of the loss before OnRto.
OnRtoRetransmit ==
    /\ Trouble
    /\ IF Hybrid THEN \/ cc' = HybridOnRto(cc)
                      \/ \E flight \in Flights : cc' = HybridOnRto(OnFastRecoveryEntry(cc, flight))
                 ELSE cc' = BbrOnRto(cc)
    /\ UNCHANGED <<mss_, path, settled, parity>>

\* BBR is not told of the new segment size.
UpdateMss ==
    \E mss \in MssValues, pristine \in BOOLEAN :
        /\ mss < mss_ /\ mss_' = mss /\ Trouble
        /\ cc' = IF Hybrid THEN HybridOnMss(cc, mss, pristine) ELSE cc
        /\ UNCHANGED <<path, settled, parity>>

Older(age, most) == Smaller(age + 1, most)

\* An age stops where the comparison that reads it has been decided.
Tick ==
    /\ cc' = [cc EXCEPT !.rtprop_stamp = IF Hybrid THEN @ ELSE Older(@, kProbeRttIntervalMs),
                        !.probe_age = IF cc.state = "ProbeRtt" THEN Older(@, kProbeRttDurationMs) ELSE @,
                        !.cycle_age = IF cc.state # "ProbeBw" \/ @ = Unset THEN @ ELSE Older(@, MaxPhase),
                        !.samples = [i \in DOMAIN @ |->
                            IF i < cc.count THEN [@[i] EXCEPT !.age = Older(@, kRtpropWindowMs + 1)] ELSE @[i]]]
    /\ path' = [path EXCEPT !.age = Older(@, kRtpropWindowMs + 1)]
    /\ UNCHANGED <<mss_, settled, parity, troubles>>

PathChanges ==
    /\ ~settled /\ path.changes < MaxChanges
    /\ \E p \in Paths \ {path.is} :
          path' = [is |-> p, age |-> 0, taken |-> 0, late |-> FALSE, ended |-> 0, changes |-> path.changes + 1]
    /\ UNCHANGED <<mss_, cc, settled, parity, troubles>>

Settle == ~settled /\ settled' = TRUE /\ UNCHANGED <<mss_, cc, path, parity, troubles>>

Next ==
    \/ OnAck \/ OnFullAck \/ OnAckInRecovery \/ OnDuplicateAck \/ OnRtoRetransmit
    \/ UpdateMss \/ Tick \/ PathChanges \/ Settle

\* On a settled path the peer goes on acknowledging what is sent.
AckArrives == settled /\ parity' = 1 - parity
Spec == Init /\ [][Next]_vars /\ WF_parity(AckArrives)

-----------------------------------------------------------------------------
\* The estimates never outlive the path they were measured on by more than their
\* filters: RTprop once the ring has been refilled or a sample came after the
\* window, and the hybrid's BtlBw once its rounds have passed (UpdateRTprop,
\* EndRound; congestion.h:132-134 and 179-182).
EstimatesFollowPath ==
    /\ path.late \/ path.taken >= kRtpropSampleCount
          => cc.rtprop = 0 \/ cc.rtprop >= path.is.rtt
    /\ Hybrid /\ path.ended > kBtlBwWindowRounds => cc.btlbw <= path.is.rate

\* The window always has room for a segment of the connection, so a sender
\* with nothing in flight can send, whatever order losses, marks, timeouts and
\* MSS changes come in (OnRto, OnEcnCe, UpdateMss, OnFastRecoveryExit).
SegmentFits == cc.cwnd >= mss_ /\ cc.ssthresh >= 2 * mss_

\* What the controller knows of a settled path in the end: its round-trip time;
\* BBR is then in its steady states, and the hybrid has the path's rate and its
\* BDP as the window (CheckStartupDone, CheckDrainDone, RecomputeCwnd).
Learned ==
    /\ cc.rtprop = path.is.rtt
    /\ IF Hybrid THEN cc.btlbw = path.is.rate /\ cc.cwnd = Larger(Bdp(cc), 4 * cc.mss)
                 ELSE cc.state \in {"ProbeBw", "ProbeRtt"}
=============================================================================
