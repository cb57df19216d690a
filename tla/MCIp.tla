-------------------------------- MODULE MCIp --------------------------------
(***************************************************************************)
(* The two pieces of state a shard keeps below the transports: the          *)
(* reassembler (FragmentReassembly) and the path MTU cache (PathMtu).  Each *)
(* behaviour is one of a single configuration, part, and the variables of   *)
(* the other component keep their initial values:                           *)
(*   "fragments"  the reassembler                                           *)
(*   "errors"     the cache, as ICMP errors alone change it                 *)
(*   "probes"     the cache, with probes that raise its entries             *)
(* TCP flows f and h of one shard go to two clients, one of them over IPv6; *)
(* UDP flow u shares f's client and has a remote of its own; the cache has  *)
(* one entry fewer than there are addresses.                                *)
(***************************************************************************)
EXTENDS FragmentReassembly

CONSTANTS v4, w4, v6

VARIABLES part, clock_ms, pmtu_cache_, pcbs, udp, errors, reports, unheard

BothFamilies == {v4, w4, v6}
OnlyV6 == {v6}
Symmetric == Permutations({v4, w4})

Owners == ("f" :> 0) @@ ("h" :> 0) @@ ("u" :> 0)
Clients == ("f" :> "a") @@ ("h" :> "b6") @@ ("u" :> "a")
Remotes == "u" :> "r"

Icmp == INSTANCE PathMtu WITH
    now_ms <- clock_ms, Shards <- {0}, TcpFlows <- {"f", "h"}, UdpFlows <- {"u"},
    FlowShard <- Owners, PeerOf <- Clients, RemoteOf <- Remotes, V6 <- {"b6"},
    kPmtuMinV4 <- 2, kPmtuMaxV4 <- 5, kPmtuMinV6 <- 3, kPmtuMaxV6 <- 6,
    max_entries <- 2, expires_ms <- 1, fixed_header_bytes <- 1, peer_mss <- 3,
    Reported <- {1, 7}, Probing <- {}, MaxTime <- 3, MaxErrors <- 4
Probed == INSTANCE PathMtu WITH
    now_ms <- clock_ms, Shards <- {0}, TcpFlows <- {"f", "h"}, UdpFlows <- {"u"},
    FlowShard <- Owners, PeerOf <- Clients, RemoteOf <- Remotes, V6 <- {"b6"},
    kPmtuMinV4 <- 2, kPmtuMaxV4 <- 5, kPmtuMinV6 <- 3, kPmtuMaxV6 <- 6,
    max_entries <- 2, expires_ms <- 1, fixed_header_bytes <- 1, peer_mss <- 3,
    Reported <- {1, 7}, Probing <- {0}, MaxTime <- 3, MaxErrors <- 3

ASSUME Icmp!PmtuAssumption /\ Probed!PmtuAssumption

cacheVars == <<clock_ms, pmtu_cache_, pcbs, udp, errors, reports, unheard>>
allVars == <<part, vars, cacheVars>>

MCInit == part \in {"fragments", "errors", "probes"} /\ Init /\ Icmp!Init

MCNext ==
    /\ UNCHANGED part
    /\ \/ part = "fragments" /\ Next /\ UNCHANGED cacheVars
       \/ part = "errors" /\ Icmp!Next /\ UNCHANGED vars
       \/ part = "probes" /\ Probed!Next /\ UNCHANGED vars

MCSpec == MCInit /\ [][MCNext]_allVars

-----------------------------------------------------------------------------
\* A datagram is handed over when its last octet arrives and not before, with
\* every octet once and no fragment older than the deadline; until then its
\* pieces are disjoint and the octets held are those counted against the budget
\* (AddFragment, HasOverlap, FindOrCreate).
ReassemblyExact == TypeOK /\ BytesExact /\ PiecesDisjoint /\ NoneWithheld /\ WholeAndFresh

\* While errors alone change the cache, the MSS of a flow keeps up with it:
\* what its shard has learned of its path since the flow was established lets
\* a segment with its headers through (HandleIcmp, OnPathMtuLowered).
MssFollows == part = "errors" => Icmp!MssFollows

\* A live entry is no larger than an error attributed to its address since the
\* entry was made or last raised, with probes that raise entries between the errors
\* (LowerFromIcmp, RaiseFromProbe).
ReportsRespected ==
    IF part = "probes" THEN Probed!TypeOK /\ Probed!ReportsRespected
                       ELSE Icmp!TypeOK /\ Icmp!ReportsRespected
=============================================================================
