---------------------------- MODULE TimerWheel ----------------------------
(***************************************************************************)
(* The timer wheel of a shard, used by one thread: Schedule, Cancel and    *)
(* AdvanceTo, with callbacks that schedule and cancel while AdvanceTo      *)
(* fires the timers it has collected.  AdvanceTo sweeps every slot, so the *)
(* slot of a timer only decides the order among the timers that are due    *)
(* together; that order is left open here.  Each call of Schedule makes a  *)
(* timer with a key of its own; ids are reused.                            *)
(***************************************************************************)
EXTENDS Integers, FiniteSets

CONSTANTS
    IdSpace,      \* the values of a TimerId, 2^64 in the code; 0 is not used
    MaxTime,      \* bound on the time
    MaxTimers     \* bound on calls of Schedule

ASSUME TimerAssumption == IdSpace \in Nat /\ IdSpace > 2 /\ MaxTime \in Nat /\ MaxTimers \in Nat

Ids == 1..(IdSpace - 1)

VARIABLES
    entries,     \* the timers in the wheel: key, id and deadline
    next_id,
    cursor_ms,
    pending,     \* pending_
    due,         \* the timers AdvanceTo has collected and not fired yet
    phase,       \* idle, or AdvanceTo has collected, or it runs a callback
    scheduled,   \* keys so far
    fired,       \* per key: how often its callback ran
    cancelled,   \* the keys whose Cancel returned true
    refused      \* the keys whose Cancel returned false

vars == <<entries, next_id, cursor_ms, pending, due, phase, scheduled, fired, cancelled, refused>>

Keys == 1..MaxTimers

Init ==
    /\ entries = {} /\ next_id = 1 /\ cursor_ms = 0 /\ pending = 0
    /\ due = {} /\ phase = "idle"
    /\ scheduled = 0 /\ fired = [k \in Keys |-> 0] /\ cancelled = {} /\ refused = {}

\* The ids in use, those of the by_id_ index, and the n-th id from next_id on.
UsedIds == {e.id : e \in entries}
NthId(n) == 1 + ((next_id - 1 + n) % (IdSpace - 1))

\* How many ids Schedule skips: it stops at the first that is not in use.
Skips_None(n) == n = 0
Skips(n) ==
    /\ NthId(n) \notin UsedIds
    /\ \A m \in 0..(n - 1) : NthId(m) \in UsedIds

\* Schedule: a deadline that is not in the future becomes the next tick.
Schedule_Unclamped(deadline) ==
    \E n \in 0..(IdSpace - 2) :
        /\ scheduled < MaxTimers /\ Skips(n)
        /\ entries' = entries \cup {[key |-> scheduled + 1, id |-> NthId(n), deadline |-> deadline]}
        /\ next_id' = NthId(n + 1)
        /\ pending' = pending + 1
        /\ scheduled' = scheduled + 1
        /\ UNCHANGED <<cursor_ms, due, phase, fired, cancelled, refused>>

Schedule(deadline) ==
    \E n \in 0..(IdSpace - 2) :
        /\ scheduled < MaxTimers /\ Skips(n)
        /\ entries' = entries \cup {[key |-> scheduled + 1, id |-> NthId(n),
                                     deadline |-> IF deadline <= cursor_ms THEN cursor_ms + 1 ELSE deadline]}
        /\ next_id' = NthId(n + 1)
        /\ pending' = pending + 1
        /\ scheduled' = scheduled + 1
        /\ UNCHANGED <<cursor_ms, due, phase, fired, cancelled, refused>>

\* Cancel of a timer by the caller that scheduled it, before its id comes up
\* again.  The id is looked up in the index, which a timer leaves when
\* AdvanceTo collects it.
Cancel(k) ==
    /\ k \in 1..scheduled /\ k \notin cancelled \cup refused
    /\ \/ \E e \in entries :
             /\ e.key = k
             /\ entries' = entries \ {e}
             /\ pending' = pending - 1
             /\ cancelled' = cancelled \cup {k}
             /\ UNCHANGED refused
       \/ /\ \A e \in entries : e.key # k
          /\ refused' = refused \cup {k}
          /\ UNCHANGED <<entries, pending, cancelled>>
    /\ UNCHANGED <<next_id, cursor_ms, due, phase, scheduled, fired>>

\* AdvanceTo: the cursor moves, and the timers that are due leave the wheel.
AdvanceTo(now) ==
    LET collected == {e \in entries : e.deadline <= now}
    IN  /\ phase = "idle" /\ now > cursor_ms
        /\ cursor_ms' = now
        /\ due' = collected
        /\ entries' = entries \ collected
        /\ pending' = pending - Cardinality(collected)
        /\ phase' = IF collected = {} THEN "idle" ELSE "collected"
        /\ UNCHANGED <<next_id, scheduled, fired, cancelled, refused>>

\* The next callback runs; after the last one AdvanceTo returns.
FireNext_Keeps ==
    /\ phase # "idle"
    /\ \/ \E e \in due :
             /\ due' \in {due, due \ {e}}
             /\ fired' = [fired EXCEPT ![e.key] = IF @ < 2 THEN @ + 1 ELSE @]
             /\ phase' = "callback"
       \/ due = {} /\ phase' = "idle" /\ UNCHANGED <<due, fired>>
    /\ UNCHANGED <<entries, next_id, cursor_ms, pending, scheduled, cancelled, refused>>

FireNext ==
    /\ phase # "idle"
    /\ \/ \E e \in due :
             /\ due' = due \ {e}
             /\ fired' = [fired EXCEPT ![e.key] = @ + 1]
             /\ phase' = "callback"
       \/ due = {} /\ phase' = "idle" /\ UNCHANGED <<due, fired>>
    /\ UNCHANGED <<entries, next_id, cursor_ms, pending, scheduled, cancelled, refused>>

\* Schedule and Cancel are called between two calls of AdvanceTo, or by a
\* callback that it runs.
Calls == phase # "collected"

Next ==
    \/ Calls /\ \E d \in 0..MaxTime : Schedule(d)
    \/ Calls /\ \E k \in Keys : Cancel(k)
    \/ \E now \in 1..MaxTime : AdvanceTo(now)
    \/ FireNext

Spec == Init /\ [][Next]_vars

-----------------------------------------------------------------------------
Entry == [key : Keys, id : Ids, deadline : Nat]

\* The variables have their types.
TypeOK ==
    /\ entries \subseteq Entry /\ due \subseteq Entry
    /\ next_id \in Ids /\ cursor_ms \in 0..MaxTime /\ pending \in Int
    /\ phase \in {"idle", "collected", "callback"}
    /\ scheduled \in 0..MaxTimers /\ fired \in [Keys -> Nat]
    /\ cancelled \subseteq Keys /\ refused \subseteq Keys

\* Two timers in the wheel never have the same id, also after the ids have
\* wrapped around: the index would lose one of them.
UniqueIds == \A e, f \in entries : e.id = f.id => e = f

\* pending_ counts the timers in the wheel: AdvanceTo returns at once when it
\* is zero, and would miss them.
CountExact == pending = Cardinality(entries)

\* Nothing in the wheel is overdue: AdvanceTo collects all that is due, and a
\* callback cannot add to what the running call fires.
NothingOverdue == \A e \in entries : e.deadline > cursor_ms

\* Each timer scheduled is in the wheel, or collected, or has fired once, or
\* was cancelled, and only one of these.
ExactlyOnce ==
    \A k \in 1..scheduled :
        Cardinality({e \in entries : e.key = k}) + Cardinality({e \in due : e.key = k})
          + fired[k] + (IF k \in cancelled THEN 1 ELSE 0) = 1

\* A timer whose Cancel returned true never fires.
CancelSticks == \A k \in cancelled : fired[k] = 0 /\ \A e \in entries \cup due : e.key # k

\* Cancel returns false only for a timer that has fired or was cancelled.
CancelHonest == [][\A k \in refused' \ refused : fired[k] > 0]_vars
=============================================================================
