---------------------------- MODULE BoundedFifo ----------------------------
(***************************************************************************)
(* What a source-to-target lane promises its two shards: a first-in        *)
(* first-out queue that holds at most Capacity envelopes of at most        *)
(* ByteCapacity bytes in all, and that never loses, duplicates or reorders *)
(* an accepted envelope.                                                   *)
(***************************************************************************)
EXTENDS Naturals, Sequences, Functions

CONSTANTS Envelopes,      \* records with a field bytes
          Capacity,       \* envelopes held at most
          ByteCapacity    \* bytes held at most

VARIABLE q

BytesOf(s) == SumFunction([i \in DOMAIN s |-> s[i].bytes])

Init == q = << >>

Put(e) == /\ Len(q) < Capacity
          /\ BytesOf(q) + e.bytes <= ByteCapacity
          /\ q' = Append(q, e)

Get == /\ q # << >>
       /\ q' = Tail(q)

Next == Get \/ \E e \in Envelopes : Put(e)

Spec == Init /\ [][Next]_q
=============================================================================
