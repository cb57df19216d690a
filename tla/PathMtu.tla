------------------------------ MODULE PathMtu ------------------------------
(***************************************************************************)
(* Path MTU discovery: every shard's PmtuCache, the ICMP errors that lower *)
(* it once they are attributed to a flow of the shard, the TCP flows whose *)
(* segment size follows it and the client datagrams that are held to it.   *)
(* A flow is known by its name: PeerOf is the address the stack sends its  *)
(* packets to, FlowShard the shard that owns it.  Sizes are small numbers. *)
(***************************************************************************)
EXTENDS Integers, Sequences, FiniteSets, SequencesExt

CONSTANTS
    Shards,         \* the shards of the runtime
    TcpFlows,       \* TCP flows, named
    UdpFlows,       \* UDP flows, named
    FlowShard,      \* the owner of each flow
    PeerOf,         \* the address the stack sends each flow's packets to
    RemoteOf,       \* the address a UDP flow's client sends to
    V6,             \* the addresses that are IPv6
    kPmtuMinV4, kPmtuMaxV4, kPmtuMinV6, kPmtuMaxV6,
    max_entries,    \* PmtuCache::max_entries_
    expires_ms,     \* kPmtuDefaultTtlMs
    fixed_header_bytes, \* IP and TCP headers of a segment
    peer_mss,       \* the send MSS the handshake settles on
    Reported,       \* MTUs that ICMP errors and probes name
    Probing,        \* the shards on which probes succeed
    MaxTime,        \* bound on the clock
    MaxErrors       \* bound on ICMP errors and probes

PmtuAssumption ==
    /\ kPmtuMinV4 \in Nat /\ kPmtuMaxV4 \in Nat /\ kPmtuMinV4 <= kPmtuMaxV4
    /\ kPmtuMinV6 \in Nat /\ kPmtuMaxV6 \in Nat /\ kPmtuMinV6 <= kPmtuMaxV6
    /\ fixed_header_bytes < kPmtuMinV4 /\ fixed_header_bytes < kPmtuMinV6
    /\ max_entries \in Nat \ {0}
    /\ FlowShard \in [TcpFlows \cup UdpFlows -> Shards]

VARIABLES
    now_ms,       \* the shards' clock
    pmtu_cache_,  \* per shard: the entries of its cache, in their order
    pcbs,         \* per TCP flow: its state and the MSS of its send buffer
    udp,          \* the UDP flows with an entry in their owner's table
    errors,       \* ICMP errors and probes so far
    reports,      \* the attributed errors a cache still has to respect
    unheard       \* an error quoted a UDP packet the stack sent, in vain

vars == <<now_ms, pmtu_cache_, pcbs, udp, errors, reports, unheard>>

Addresses == {PeerOf[f] : f \in TcpFlows \cup UdpFlows} \cup {RemoteOf[u] : u \in UdpFlows}

NoPcb == [state |-> "Closed", mss |-> 0, since |-> 0]

Init ==
    /\ now_ms = 1
    /\ pmtu_cache_ = [s \in Shards |-> <<>>]
    /\ pcbs = [f \in TcpFlows |-> NoPcb]
    /\ udp = {} /\ errors = 0 /\ reports = {} /\ unheard = FALSE

-----------------------------------------------------------------------------
(* The cache of one shard: c is its sequence of entries.                   *)

ClampPmtu(raw, dst) ==
    LET min_pmtu == IF dst \in V6 THEN kPmtuMinV6 ELSE kPmtuMinV4
        max_pmtu == IF dst \in V6 THEN kPmtuMaxV6 ELSE kPmtuMaxV4
    IN  IF raw < min_pmtu THEN min_pmtu ELSE IF raw > max_pmtu THEN max_pmtu ELSE raw

IsExpired(e) == now_ms < e.timestamp_ms \/ now_ms - e.timestamp_ms > expires_ms

\* The index of an address in the cache, 0 when it has no entry.
Find(c, dst) == Max({0} \cup {i \in DOMAIN c : c[i].dst = dst})

\* Lookup: the MTU of a live entry, 0 when there is none.
Lookup(c, dst) ==
    LET i == Find(c, dst) IN IF i = 0 \/ IsExpired(c[i]) THEN 0 ELSE c[i].pmtu

Entry(dst, pmtu) == [dst |-> dst, pmtu |-> pmtu, timestamp_ms |-> now_ms]

\* The first of the entries with the smallest timestamp.
Oldest(c) ==
    CHOOSE i \in 1..Len(c) :
        /\ \A j \in 1..Len(c) : c[i].timestamp_ms <= c[j].timestamp_ms
        /\ \A j \in 1..(i - 1) : c[i].timestamp_ms < c[j].timestamp_ms

InsertNew(c, dst, pmtu) ==
    Append(IF Len(c) >= max_entries THEN RemoveAt(c, Oldest(c)) ELSE c, Entry(dst, pmtu))

LowerFromIcmp_Overwrites(c, dst, raw) ==
    LET clamped == ClampPmtu(raw, dst)
        i == Find(c, dst)
    IN  IF i = 0 THEN InsertNew(c, dst, clamped) ELSE [c EXCEPT ![i].pmtu = clamped]

LowerFromIcmp(c, dst, raw) ==
    LET clamped == ClampPmtu(raw, dst)
        i == Find(c, dst)
    IN  IF i = 0 THEN InsertNew(c, dst, clamped)
        ELSE IF IsExpired(c[i]) \/ clamped < c[i].pmtu
        THEN [c EXCEPT ![i] = Entry(dst, clamped)] ELSE c

RaiseFromProbe(c, dst, raw) ==
    LET clamped == ClampPmtu(raw, dst)
        i == Find(c, dst)
    IN  IF i = 0 THEN InsertNew(c, dst, clamped)
        ELSE IF IsExpired(c[i]) \/ clamped > c[i].pmtu
        THEN [c EXCEPT ![i] = Entry(dst, clamped)] ELSE c

-----------------------------------------------------------------------------
(* The flows.                                                              *)

\* A SYN opens a half-open flow; the MSS comes from the handshake alone.
OpenFlow(f) ==
    /\ pcbs[f].state = "Closed"
    /\ pcbs' = [pcbs EXCEPT ![f].state = "SynReceived"]
    /\ UNCHANGED <<now_ms, pmtu_cache_, udp, errors, reports, unheard>>

\* The handshake completes and the flow gets its send buffer.
Establish(f) ==
    /\ pcbs[f].state = "SynReceived"
    /\ pcbs' = [pcbs EXCEPT ![f] = [state |-> "Established", mss |-> peer_mss, since |-> now_ms]]
    /\ UNCHANGED <<now_ms, pmtu_cache_, udp, errors, reports, unheard>>

CloseFlow(f) ==
    /\ pcbs[f].state # "Closed"
    /\ pcbs' = [pcbs EXCEPT ![f] = NoPcb]
    /\ UNCHANGED <<now_ms, pmtu_cache_, udp, errors, reports, unheard>>

\* HandleUdp at the flow's owner: a client's datagram of the given size is
\* held to the MTU cached for the remote before the flow table sees it.
HandleUdp(u, size) ==
    LET pmtu == Lookup(pmtu_cache_[FlowShard[u]], RemoteOf[u])
    IN  /\ u \notin udp
        /\ pmtu = 0 \/ size <= pmtu
        /\ udp' = udp \cup {u}
        /\ UNCHANGED <<now_ms, pmtu_cache_, pcbs, errors, reports, unheard>>

CloseUdp(u) ==
    /\ u \in udp
    /\ udp' = udp \ {u}
    /\ UNCHANGED <<now_ms, pmtu_cache_, pcbs, errors, reports, unheard>>

-----------------------------------------------------------------------------
(* ICMP errors.  An error quotes a packet: of a TCP flow, as the stack     *)
(* sent it to the peer, or of a UDP flow in either direction.              *)

TcpQuotes == [protocol : {6}, flow : TcpFlows, to : {"peer"}]
UdpQuotes == [protocol : {17}, flow : UdpFlows, to : {"peer", "remote"}]

QuotedDst(q) == IF q.to = "peer" THEN PeerOf[q.flow] ELSE RemoteOf[q.flow]

\* The quoted packet belongs to a flow of this shard: a TCP flow by the
\* reverse of the packet, a UDP flow by the packet's own direction, the
\* table's key being client to remote.
QuotedPacketMatchesFlow(s, q) ==
    /\ FlowShard[q.flow] = s
    /\ \/ q.protocol = 6 /\ pcbs[q.flow].state # "Closed"
       \/ q.protocol = 17 /\ q.to = "remote" /\ q.flow \in udp

\* OnPathMtuLowered: the flows of the shard to the peer that have a send
\* buffer take the smaller of the negotiated MSS and what the path carries.
OnPathMtuLowered_Raw(s, peer, pmtu) ==
    [f \in TcpFlows |->
       IF FlowShard[f] = s /\ PeerOf[f] = peer /\ pcbs[f].state = "Established" /\ pmtu < peer_mss
       THEN [pcbs[f] EXCEPT !.mss = pmtu - fixed_header_bytes] ELSE pcbs[f]]

OnPathMtuLowered(s, peer, pmtu) ==
    [f \in TcpFlows |->
       IF FlowShard[f] = s /\ PeerOf[f] = peer /\ pcbs[f].state = "Established"
       THEN LET pmtu_mss == pmtu - fixed_header_bytes
            IN  [pcbs[f] EXCEPT !.mss = IF peer_mss > pmtu_mss THEN pmtu_mss ELSE peer_mss]
       ELSE pcbs[f]]

\* The errors that cache c of shard s has not forgotten with an evicted entry.
Remembered(s, c) == {r \in reports : r.shard # s \/ Find(c, r.dst) # 0}

\* HandleIcmp: a Fragmentation Needed or Packet Too Big read by shard s.
HandleIcmp(s, q, raw) ==
    LET dst == QuotedDst(q)
        c == LowerFromIcmp(pmtu_cache_[s], dst, raw)
    IN  /\ errors < MaxErrors
        /\ errors' = errors + 1
        /\ IF QuotedPacketMatchesFlow(s, q)
           THEN /\ pmtu_cache_' = [pmtu_cache_ EXCEPT ![s] = c]
                /\ pcbs' = OnPathMtuLowered(s, dst, Lookup(c, dst))
                /\ reports' = Remembered(s, c) \cup
                     {[shard |-> s, dst |-> dst, pmtu |-> ClampPmtu(raw, dst), at |-> now_ms]}
                /\ UNCHANGED unheard
           ELSE /\ unheard' = (unheard \/ (q.protocol = 17 /\ q.to = "peer"
                                           /\ FlowShard[q.flow] = s /\ q.flow \in udp))
                /\ UNCHANGED <<pmtu_cache_, pcbs, reports>>
        /\ UNCHANGED <<now_ms, udp>>

\* A probe to an address succeeds with packets of the given size.
Probe(s, dst, raw) ==
    LET c == RaiseFromProbe(pmtu_cache_[s], dst, raw)
    IN  /\ s \in Probing
        /\ errors < MaxErrors
        /\ errors' = errors + 1
        /\ pmtu_cache_' = [pmtu_cache_ EXCEPT ![s] = c]
        /\ reports' = IF c = pmtu_cache_[s] THEN reports
                      ELSE {r \in Remembered(s, c) : r.shard # s \/ r.dst # dst}
        /\ UNCHANGED <<now_ms, pcbs, udp, unheard>>

\* Purge at the end of an iteration of a shard's loop.
Purge(s) ==
    /\ pmtu_cache_' = [pmtu_cache_ EXCEPT ![s] = SelectSeq(@, LAMBDA e : ~IsExpired(e))]
    /\ UNCHANGED <<now_ms, pcbs, udp, errors, reports, unheard>>

Tick ==
    /\ now_ms < MaxTime
    /\ now_ms' = now_ms + 1
    /\ UNCHANGED <<pmtu_cache_, pcbs, udp, errors, reports, unheard>>

Next ==
    \/ \E f \in TcpFlows : OpenFlow(f) \/ Establish(f) \/ CloseFlow(f)
    \/ \E u \in UdpFlows, size \in Reported : HandleUdp(u, size)
    \/ \E u \in UdpFlows : CloseUdp(u)
    \/ \E s \in Shards, q \in TcpQuotes \cup UdpQuotes, raw \in Reported : HandleIcmp(s, q, raw)
    \/ \E s \in Shards, dst \in Addresses, raw \in Reported : Probe(s, dst, raw)
    \/ \E s \in Shards : Purge(s)
    \/ Tick

Spec == Init /\ [][Next]_vars

-----------------------------------------------------------------------------
\* The variables have their types; a cache holds at most max_entries entries,
\* one per address, each within the bounds of its family.
TypeOK ==
    /\ now_ms \in 1..MaxTime
    /\ \A s \in Shards : LET c == pmtu_cache_[s] IN
         /\ Len(c) <= max_entries
         /\ \A i, j \in 1..Len(c) : c[i].dst = c[j].dst => i = j
         /\ \A i \in 1..Len(c) :
              /\ c[i].timestamp_ms \in 1..now_ms
              /\ c[i].pmtu \in IF c[i].dst \in V6 THEN kPmtuMinV6..kPmtuMaxV6
                               ELSE kPmtuMinV4..kPmtuMaxV4
    /\ pcbs \in [TcpFlows -> [state : {"Closed", "SynReceived", "Established"},
                              mss : 0..peer_mss, since : 0..MaxTime]]
    /\ udp \subseteq UdpFlows /\ errors \in 0..MaxErrors /\ unheard \in BOOLEAN

\* A live entry is no larger than any error attributed to its address since
\* the entry was made or last raised: LowerFromIcmp only decreases.
ReportsRespected ==
    \A r \in reports, s \in Shards : \A i \in 1..Len(pmtu_cache_[s]) :
        LET e == pmtu_cache_[s][i]
        IN  r.shard = s /\ r.dst = e.dst /\ r.at >= e.timestamp_ms /\ ~IsExpired(e)
              => e.pmtu <= r.pmtu

\* The MSS of a flow, once the shard of the flow has learned the MTU of its
\* path, lets a segment with its headers through: whatever errors, expiries
\* and evictions follow, OnPathMtuLowered has kept up with the cache.
MssFollows ==
    \A f \in TcpFlows :
        LET pmtu == Lookup(pmtu_cache_[FlowShard[f]], PeerOf[f])
            i == Find(pmtu_cache_[FlowShard[f]], PeerOf[f])
        IN  pcbs[f].state = "Established" /\ pmtu # 0
              /\ pmtu_cache_[FlowShard[f]][i].timestamp_ms > pcbs[f].since
            => pcbs[f].mss + fixed_header_bytes <= pmtu

\* After an ICMP error lowered the cached PMTU of a peer, the established
\* flows to that peer send no larger segments, whichever shard owns them.
PeerFlowsReduced ==
    \A f \in TcpFlows, s \in Shards :
        LET pmtu == Lookup(pmtu_cache_[s], PeerOf[f])
            i == Find(pmtu_cache_[s], PeerOf[f])
        IN  pcbs[f].state = "Established" /\ pmtu # 0
              /\ pmtu_cache_[s][i].timestamp_ms > pcbs[f].since
            => pcbs[f].mss + fixed_header_bytes <= pmtu

\* The MSS of an established flow is within the PMTU its shard has cached.
MssWithinPmtu ==
    \A f \in TcpFlows :
        LET pmtu == Lookup(pmtu_cache_[FlowShard[f]], PeerOf[f])
        IN  pcbs[f].state = "Established" /\ pmtu # 0 => pcbs[f].mss + fixed_header_bytes <= pmtu

\* An error that quotes a UDP packet the stack sent for a tracked flow is
\* attributed to the flow by the flow's owner.
UdpErrorsAttributed == ~unheard
=============================================================================
