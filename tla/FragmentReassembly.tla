------------------------- MODULE FragmentReassembly -------------------------
(***************************************************************************)
(* The bounded reassembly table of a shard (ip/fragment.cpp): an entry per  *)
(* datagram under reassembly, fragments of any length arriving in any       *)
(* order, a budget of octets over all entries and a deadline per entry that *)
(* is fixed by its first fragment.                                          *)
(*                                                                         *)
(* Offsets count octets; Unit is the 8 of the wire format, scaled down.  A  *)
(* fragment's octets are represented by their positions.  The octets of an  *)
(* entry's buffer are represented by its size.                              *)
(***************************************************************************)
EXTENDS Integers, Sequences, FiniteSets, SequencesExt, TLC

CONSTANTS
    Keys,                   \* fragment keys
    Ipv6Keys,               \* those of IPv6 datagrams
    Unit,                   \* alignment of offsets, 8 on the wire
    Lengths,                \* lengths of fragments
    kMaxFragmentsPerEntry,
    max_payload_bytes,
    max_entries_,
    max_total_bytes_,
    expires_ms,
    MaxPause,               \* the longest time between two iterations (bound)
    MaxTime                 \* end of the modelled time (bound)

ASSUME FragmentAssumption ==
    /\ Ipv6Keys \subseteq Keys
    /\ {Unit, kMaxFragmentsPerEntry, max_entries_, max_total_bytes_, expires_ms}
          \subseteq Nat \ {0}
    /\ {max_payload_bytes, MaxPause, MaxTime} \subseteq Nat
    /\ Lengths \subseteq Nat \ {0}

VARIABLES
    entries_,        \* the vector of ReassemblyEntry
    current_bytes_,  \* octets of all buffers
    now_ms,
    last             \* the fragment added last and what became of it

vars == <<entries_, current_bytes_, now_ms, last>>

\* A fragment as AddIpv4Fragment and AddIpv6Fragment see it: its offset is a
\* multiple of Unit by construction.
Fragments ==
    {f \in [offset : {Unit * n : n \in 0 .. max_payload_bytes \div Unit},
            length : Lengths, more : BOOLEAN] :
        f.offset + f.length <= max_payload_bytes + 1}

End(p) == p.offset + p.length
Octets(p) == p.offset .. End(p) - 1

\* A piece remembers when it arrived, for the properties.
FreeEntry(key) ==
    [key |-> key, pieces |-> <<>>, last_received_ |-> FALSE, total_payload_length_ |-> 0,
     deadline_ms_ |-> 0, discarded_ |-> FALSE, size |-> 0]

InUse(e) == e.pieces # <<>>
IsExpired(e, now) == now >= e.deadline_ms_

NoResult == [key |-> "none", error |-> "none", pieces |-> {}]

Init == entries_ = <<>> /\ current_bytes_ = 0 /\ now_ms = 0 /\ last = NoResult

-----------------------------------------------------------------------------
(* ReassemblyEntry::AddFragment.                                           *)

HasOverlap(e, f) ==
    \E i \in DOMAIN e.pieces : f.offset < End(e.pieces[i]) /\ e.pieces[i].offset < End(f)

\* Overlap with a piece, or with anything once an IPv6 datagram is discarded.
Overlapped_NoDiscard(e, f) == HasOverlap(e, f)

Overlapped(e, f) == HasOverlap(e, f) \/ e.discarded_

\* The checks of AddFragment in the code's order; the first that applies
\* decides.
AddError(e, f, budget) ==
    IF Len(e.pieces) >= kMaxFragmentsPerEntry THEN "TooManyFragments"
    ELSE IF f.more /\ f.length % Unit # 0 THEN "InvalidFragment"
    ELSE IF End(f) > max_payload_bytes THEN "PayloadTooLarge"
    ELSE IF e.last_received_ /\ End(f) > e.total_payload_length_ THEN "TerminalOverflow"
    ELSE IF e.last_received_ /\ ~f.more /\ End(f) # e.total_payload_length_ THEN "DuplicateTerminal"
    ELSE IF Overlapped(e, f) THEN "OverlapDetected"
    ELSE IF End(f) > e.size /\ End(f) - e.size > budget THEN "ByteBudgetExceeded"
    ELSE "None"

\* The fragment is stored: the first one fixes the deadline, the last one the
\* total length.
Store(e, f, now) ==
    [e EXCEPT !.deadline_ms_ = IF InUse(e) THEN @ ELSE now + expires_ms,
              !.size = IF End(f) > @ THEN End(f) ELSE @,
              !.pieces = Append(@, [offset |-> f.offset, length |-> f.length, at |-> now]),
              !.last_received_ = @ \/ ~f.more,
              !.total_payload_length_ = IF f.more THEN @ ELSE End(f)]

\* The completeness scan: pieces sorted by offset, each starting where the one
\* before ends, from zero to the total length.
Complete(e) ==
    /\ e.last_received_
    /\ LET sorted == SortSeq(e.pieces, LAMBDA a, b : a.offset < b.offset)
       IN  /\ sorted[1].offset = 0
           /\ \A i \in 2 .. Len(sorted) : sorted[i].offset = End(sorted[i - 1])
           /\ End(Last(sorted)) = e.total_payload_length_

-----------------------------------------------------------------------------
(* FragmentReassembler.                                                    *)

\* FindOrCreate: the table with an entry for key, that entry's index (0 when
\* the table is full) and the octets reclaimed from an expired entry.
Reclaim(i, key) ==
    [table |-> [entries_ EXCEPT ![i] = FreeEntry(key)], at |-> i, reclaimed |-> entries_[i].size]

SameKey_Stale(i, key, now) == [table |-> entries_, at |-> i, reclaimed |-> 0]

SameKey(i, key, now) ==
    IF IsExpired(entries_[i], now) THEN Reclaim(i, key)
    ELSE [table |-> entries_, at |-> i, reclaimed |-> 0]

Room == Len(entries_) < max_entries_

FindOrCreate(key, now) ==
    LET same == {i \in DOMAIN entries_ : InUse(entries_[i]) /\ entries_[i].key = key}
        open == {i \in DOMAIN entries_ : ~InUse(entries_[i]) \/ IsExpired(entries_[i], now)}
    IN  IF same # {} THEN SameKey(Min(same), key, now)
        ELSE IF open # {} THEN Reclaim(Min(open), key)
        ELSE IF Room
             THEN [table |-> Append(entries_, FreeEntry(key)), at |-> Len(entries_) + 1,
                   reclaimed |-> 0]
             ELSE [table |-> entries_, at |-> 0, reclaimed |-> 0]

Outcome(key, error, pieces) == [key |-> key, error |-> error, pieces |-> pieces]

\* current_bytes_ after entry e of a table of bytes octets became f, or was
\* handed over complete.
BytesAfter(bytes, e, f, complete) ==
    IF complete THEN bytes - e.size ELSE bytes + (f.size - e.size)

\* The result of AddFragment is applied to entry i of a table of bytes octets.
Refuse(key, table, i, bytes, error) ==
    /\ entries_' = [table EXCEPT ![i].discarded_ = @ \/ (error = "OverlapDetected" /\ key \in Ipv6Keys)]
    /\ current_bytes_' = bytes
    /\ last' = Outcome(key, error, {})

Keep(key, table, i, bytes, stored, whole) ==
    /\ entries_' = [table EXCEPT ![i] = IF whole THEN FreeEntry("none") ELSE stored]
    /\ current_bytes_' = BytesAfter(bytes, table[i], stored, whole)
    /\ last' = IF whole THEN Outcome(key, "complete", ToSet(stored.pieces)) ELSE Outcome(key, "None", {})

AddTo(key, f, table, i, bytes, error) ==
    IF error # "None"
    THEN Refuse(key, table, i, bytes, error)
    ELSE \E stored \in {Store(table[i], f, now_ms)} : Keep(key, table, i, bytes, stored, Complete(stored))

Budget(bytes) == IF bytes < max_total_bytes_ THEN max_total_bytes_ - bytes ELSE 0

\* AddIpv4Fragment and AddIpv6Fragment.
AddFragment(key, f) ==
    \E found \in {FindOrCreate(key, now_ms)} :
       IF found.at = 0
       THEN /\ last' = Outcome(key, "TooManyEntries", {})
            /\ UNCHANGED <<entries_, current_bytes_>>
       ELSE \E bytes \in {current_bytes_ - found.reclaimed} :
               AddTo(key, f, found.table, found.at, bytes, AddError(found.table[found.at], f, Budget(bytes)))

Fragment ==
    /\ \E key \in Keys, f \in Fragments : AddFragment(key, f)
    /\ UNCHANGED now_ms

\* Purge at the end of an iteration of the event loop, and the time until the
\* next one.
Purge ==
    LET expired == {i \in DOMAIN entries_ : InUse(entries_[i]) /\ IsExpired(entries_[i], now_ms)}
    IN  /\ entries_' = [i \in DOMAIN entries_ |->
                          IF i \in expired THEN FreeEntry("none") ELSE entries_[i]]
        /\ current_bytes_' = current_bytes_ - MapThenSumSet(LAMBDA i : entries_[i].size, expired)
        /\ \E pause \in 0 .. MaxPause :
              now_ms + pause <= MaxTime /\ now_ms' = now_ms + pause
        /\ last' = NoResult

Next == Fragment \/ Purge

Spec == Init /\ [][Next]_vars

-----------------------------------------------------------------------------
Errors == {"none", "None", "TooManyFragments", "InvalidFragment", "PayloadTooLarge",
           "TerminalOverflow", "DuplicateTerminal", "OverlapDetected",
           "ByteBudgetExceeded", "TooManyEntries", "complete"}

\* Every variable has its type, and an entry stays within its limits.
TypeOK ==
    /\ Len(entries_) <= max_entries_
    /\ \A e \in ToSet(entries_) :
          /\ e.key \in Keys \cup {"none"} /\ Len(e.pieces) <= kMaxFragmentsPerEntry
          /\ e.last_received_ \in BOOLEAN /\ e.discarded_ \in BOOLEAN
          /\ e.total_payload_length_ \in 0 .. max_payload_bytes
          /\ e.size \in 0 .. max_payload_bytes /\ e.deadline_ms_ \in Nat
    /\ current_bytes_ \in Nat /\ now_ms \in 0 .. MaxTime /\ last.error \in Errors

\* The octets counted against the budget are those of the buffers, over every
\* path on which a buffer grows, is moved out, is reclaimed from an expired
\* entry or is purged, and they never exceed the budget.
BytesExact ==
    /\ current_bytes_ = MapThenSumSet(LAMBDA i : entries_[i].size, DOMAIN entries_)
    /\ current_bytes_ <= max_total_bytes_

\* Two fragments of a datagram under reassembly never share an octet, and a
\* datagram has one entry (HasOverlap, FindOrCreate).
PiecesDisjoint ==
    /\ \A e \in ToSet(entries_) : \A i, j \in DOMAIN e.pieces :
          i # j => Octets(e.pieces[i]) \cap Octets(e.pieces[j]) = {}
    /\ \A i, j \in DOMAIN entries_ :
          InUse(entries_[i]) /\ InUse(entries_[j]) /\ entries_[i].key = entries_[j].key => i = j

\* A datagram is handed over in the step in which its last missing octet
\* arrives, whatever the order of its fragments: no entry holds the terminal
\* fragment and exactly the octets up to its end.
NoneWithheld ==
    \A e \in ToSet(entries_) :
        ~(/\ e.last_received_
          /\ UNION {Octets(p) : p \in ToSet(e.pieces)} = 0 .. e.total_payload_length_ - 1)

\* A datagram handed over has every octet exactly once, and all its fragments
\* arrived within expires_ms of each other: none is left from a datagram that
\* used the identification before (IsExpired in FindOrCreate, the fixed
\* deadline).
WholeAndFresh ==
    last.error = "complete" =>
        /\ \E n \in 1 .. max_payload_bytes :
              /\ UNION {Octets(p) : p \in last.pieces} = 0 .. n - 1
              /\ MapThenSumSet(LAMBDA p : p.length, last.pieces) = n
        /\ \A p \in last.pieces : now_ms - p.at < expires_ms

\* Nothing of an IPv6 datagram is handed over between an overlap and the
\* deadline of its entry (discarded_).
DiscardedStays ==
    [][\A i \in DOMAIN entries_ :
          (/\ InUse(entries_[i]) /\ entries_[i].discarded_ /\ ~IsExpired(entries_[i], now_ms))
          => ~(last'.error = "complete" /\ last'.key = entries_[i].key)]_vars

\* Every well-formed fragment that overlaps what is held of an IPv6 datagram
\* discards the datagram.
OverlapDiscards ==
    [][\A i \in DOMAIN entries_, f \in Fragments :
          (/\ InUse(entries_[i]) /\ entries_[i].key \in Ipv6Keys
           /\ HasOverlap(entries_[i], f) /\ ~IsExpired(entries_[i], now_ms)
           /\ End(f) <= max_payload_bytes /\ (f.more => f.length % Unit = 0)
           /\ AddFragment(entries_[i].key, f))
          => entries_'[i].discarded_]_vars
=============================================================================
