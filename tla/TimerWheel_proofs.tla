------------------------- MODULE TimerWheel_proofs -------------------------
(***************************************************************************)
(* Proofs about the timer wheel for any id space, horizon and number of    *)
(* timers.                                                                 *)
(***************************************************************************)
EXTENDS TimerWheel, FiniteSetTheorems, TLAPS

Known == entries \cup due

(* Where a timer is: its key names one timer, in the wheel or collected,     *)
(* until it fires or is cancelled; due is empty between two calls of         *)
(* AdvanceTo.                                                                *)
Placed ==
    /\ IsFiniteSet(entries)
    /\ phase = "idle" => due = {}
    /\ entries \cap due = {}
    /\ \A e, f \in Known : e.key = f.key => e = f
    /\ \A e \in Known : e.key <= scheduled /\ fired[e.key] = 0
    /\ \A k \in Keys : k > scheduled => fired[k] = 0 /\ k \notin cancelled
    /\ \A k \in Keys : fired[k] <= 1
    /\ \A k \in 1..scheduled : k \in cancelled \/ fired[k] = 1 \/ \E e \in Known : e.key = k

IInv == /\ TypeOK
        /\ Placed
        /\ UniqueIds
        /\ CountExact
        /\ NothingOverdue
        /\ CancelSticks

(* A remainder is below its divisor.                                         *)
LEMMA ModRange ==
  ASSUME NEW a \in Nat, NEW b \in Nat \ {0}
  PROVE  a % b \in 0..(b - 1)
OBVIOUS

(* Schedule never hands out the invalid id 0.                                *)
LEMMA NthIdType ==
  ASSUME TypeOK, NEW n \in Nat
  PROVE  NthId(n) \in Ids
<1>1. IdSpace - 1 \in Nat \ {0} /\ next_id - 1 + n \in Nat
  BY TimerAssumption DEF TypeOK, Ids
<1>2. (next_id - 1 + n) % (IdSpace - 1) \in 0..((IdSpace - 1) - 1)
  BY ZenonT(60), <1>1, ModRange
<1> QED BY <1>2, TimerAssumption DEF NthId, Ids

(* An empty wheel satisfies the invariant.                                   *)
LEMMA InitIInv == Init => IInv
<1> SUFFICES ASSUME Init PROVE IInv
  BY ZenonT(60)
<1> USE TimerAssumption
<1>1. TypeOK
  BY DEF Init, TypeOK, Ids, Keys
<1>2. Placed /\ CountExact
  BY FS_EmptySet DEF Init, Placed, CountExact, Known, Keys
<1>3. UniqueIds /\ NothingOverdue /\ CancelSticks
  BY ZenonT(60) DEF Init, UniqueIds, NothingOverdue, CancelSticks
<1> QED BY ZenonT(60), <1>1, <1>2, <1>3 DEF IInv

(* Schedule adds a timer with a fresh key and an id that is not in use.      *)
LEMMA ScheduleStep ==
  ASSUME IInv, NEW d \in 0..MaxTime, Schedule(d)
  PROVE  IInv'
<1>1. PICK n \in 0..(IdSpace - 2) :
        /\ scheduled < MaxTimers /\ Skips(n)
        /\ entries' = entries \cup {[key |-> scheduled + 1, id |-> NthId(n),
                                     deadline |-> IF d <= cursor_ms THEN cursor_ms + 1 ELSE d]}
        /\ next_id' = NthId(n + 1)
        /\ pending' = pending + 1
        /\ scheduled' = scheduled + 1
        /\ UNCHANGED <<cursor_ms, due, phase, fired, cancelled, refused>>
  BY ZenonT(60) DEF Schedule
<1> DEFINE new == [key |-> scheduled + 1, id |-> NthId(n),
                   deadline |-> IF d <= cursor_ms THEN cursor_ms + 1 ELSE d]
<1>2. n \in Nat /\ n + 1 \in Nat /\ NthId(n) \in Ids /\ NthId(n + 1) \in Ids
  BY TimerAssumption, NthIdType DEF IInv
<1>3. /\ scheduled + 1 \in Keys /\ scheduled \in Nat
      /\ cursor_ms \in Nat /\ new.deadline > cursor_ms /\ new.deadline \in Nat
  BY <1>1, TimerAssumption DEF IInv, TypeOK, Keys
<1>4. new \in Entry /\ new.key = scheduled + 1 /\ new.id = NthId(n)
  BY ZenonT(60), <1>2, <1>3 DEF Entry
<1>5. entries' = entries \cup {new}
  BY ZenonT(60), <1>1
<1> HIDE DEF new
<1>6. \A e \in Known : e \in Entry /\ e.key \in Nat /\ e.key <= scheduled
  BY DEF IInv, TypeOK, Placed, Known, Entry, Keys
<1>7. new \notin Known
  BY <1>3, <1>4, <1>6
<1>8. TypeOK'
  BY <1>1, <1>2, <1>3, <1>4, <1>5, TimerAssumption DEF IInv, TypeOK
<1>9. Placed'
  <2>1. IsFiniteSet(entries') /\ (phase' = "idle" => due' = {}) /\ entries' \cap due' = {}
    BY <1>1, <1>5, <1>7, FS_AddElement DEF IInv, Placed, Known
  <2>2. Known' = Known \cup {new}
    BY ZenonT(60), <1>1, <1>5 DEF Known
  <2>3. \A e, f \in Known' : e.key = f.key => e = f
    BY <1>3, <1>4, <1>6, <2>2 DEF IInv, Placed
  <2>4. fired[new.key] = 0
    BY <1>3, <1>4 DEF IInv, Placed
  <2>5. \A e \in Known' : e.key <= scheduled' /\ fired'[e.key] = 0
    BY <1>1, <1>3, <1>4, <1>6, <2>2, <2>4 DEF IInv, Placed
  <2>6. \A k \in Keys : /\ k > scheduled' => fired'[k] = 0 /\ k \notin cancelled'
                        /\ fired'[k] <= 1
    BY <1>1, <1>3 DEF IInv, Placed, Keys
  <2>7. ASSUME NEW k \in 1..scheduled'
        PROVE  k \in cancelled' \/ fired'[k] = 1 \/ \E e \in Known' : e.key = k
    <3>1. k \in 1..scheduled \/ k = scheduled + 1
      BY <1>1, <1>3
    <3>2. CASE k \in 1..scheduled
      BY ZenonT(60), <1>1, <2>2, <3>2 DEF IInv, Placed
    <3>3. CASE k = scheduled + 1
      BY ZenonT(60), <1>4, <2>2, <3>3
    <3> QED BY ZenonT(60), <3>1, <3>2, <3>3
  <2> QED BY ZenonT(60), <2>1, <2>3, <2>5, <2>6, <2>7 DEF Placed
<1>10. UniqueIds'
  <2>1. \A e \in entries : e.id # new.id
    BY ZenonT(60), <1>1, <1>4 DEF Skips, UsedIds
  <2> QED BY ZenonT(60), <1>5, <2>1 DEF IInv, UniqueIds
<1>11. CountExact'
  BY ZenonT(60), <1>1, <1>5, <1>7, FS_AddElement, FS_CardinalityType DEF IInv, CountExact, Placed,
     Known
<1>12. NothingOverdue'
  <2>1. new.deadline > cursor_ms
    BY ZenonT(60), <1>3
  <2> QED BY ZenonT(60), <1>1, <1>5, <2>1 DEF IInv, NothingOverdue
<1>13. CancelSticks'
  <2>1. new.key \notin cancelled
    BY <1>3, <1>4 DEF IInv, Placed
  <2> QED BY ZenonT(60), <1>1, <1>5, <2>1 DEF IInv, CancelSticks
<1> QED BY ZenonT(60), <1>8, <1>9, <1>10, <1>11, <1>12, <1>13 DEF IInv

(* Cancel removes the timer from the wheel, or changes nothing but the       *)
(* answer it gave.                                                           *)
LEMMA CancelStep ==
  ASSUME IInv, NEW k \in Keys, Cancel(k)
  PROVE  IInv'
<1>1. UNCHANGED <<next_id, cursor_ms, due, phase, scheduled, fired>> /\ k \in 1..scheduled
  BY ZenonT(60) DEF Cancel
<1>2. CASE entries' = entries /\ pending' = pending /\ cancelled' = cancelled /\ refused' = refused \cup {k}
  <2>1. TypeOK'
    BY ZenonT(60), <1>1, <1>2 DEF IInv, TypeOK
  <2>2. Placed'
    BY ZenonT(60), <1>1, <1>2 DEF IInv, Placed, Known
  <2> QED BY ZenonT(60), <1>1, <1>2, <2>1, <2>2 DEF IInv, UniqueIds, CountExact, NothingOverdue,
             CancelSticks
<1>3. ASSUME NEW e \in entries, e.key = k, entries' = entries \ {e}, pending' = pending - 1,
             cancelled' = cancelled \cup {k}, UNCHANGED refused
      PROVE  IInv'
  <2>1. TypeOK'
    BY <1>1, <1>3 DEF IInv, TypeOK
  <2>2. Known' = Known \ {e} /\ e \in Known
    BY <1>1, <1>3 DEF IInv, Placed, Known
  <2>3. \A f \in Known' : f.key # k
    BY ZenonT(60), <1>3, <2>2 DEF IInv, Placed
  <2>4. fired[k] = 0
    BY ZenonT(60), <1>3, <2>2 DEF IInv, Placed
  <2>5. Placed'
    <3>1. IsFiniteSet(entries') /\ (phase' = "idle" => due' = {}) /\ entries' \cap due' = {}
      BY ZenonT(60), <1>1, <1>3, FS_RemoveElement DEF IInv, Placed
    <3>2. /\ \A f, g \in Known' : f.key = g.key => f = g
          /\ \A f \in Known' : f.key <= scheduled' /\ fired'[f.key] = 0
      BY ZenonT(60), <1>1, <2>2 DEF IInv, Placed
    <3>3. \A j \in Keys : /\ j > scheduled' => fired'[j] = 0 /\ j \notin cancelled'
                          /\ fired'[j] <= 1
      BY <1>1, <1>3, TimerAssumption DEF IInv, Placed, TypeOK, Keys
    <3>4. \A j \in 1..scheduled' : j \in cancelled' \/ fired'[j] = 1 \/ \E f \in Known' : f.key = j
      BY ZenonT(60), <1>1, <1>3, <2>2 DEF IInv, Placed
    <3> QED BY ZenonT(60), <3>1, <3>2, <3>3, <3>4 DEF Placed
  <2>6. UniqueIds' /\ NothingOverdue'
    BY ZenonT(60), <1>1, <1>3 DEF IInv, UniqueIds, NothingOverdue
  <2>7. CountExact'
    BY ZenonT(60), <1>3, FS_RemoveElement, FS_CardinalityType DEF IInv, CountExact, Placed
  <2>8. CancelSticks'
    BY ZenonT(60), <1>1, <1>3, <2>2, <2>3, <2>4 DEF IInv, CancelSticks, Known
  <2> QED BY ZenonT(60), <2>1, <2>5, <2>6, <2>7, <2>8 DEF IInv
<1> QED BY ZenonT(60), <1>2, <1>3 DEF Cancel

(* AdvanceTo moves what is due out of the wheel.                             *)
LEMMA AdvanceToStep ==
  ASSUME IInv, NEW now \in 1..MaxTime, AdvanceTo(now)
  PROVE  IInv'
<1> DEFINE collected == {e \in entries : e.deadline <= now}
<1>1. /\ phase = "idle" /\ now > cursor_ms /\ cursor_ms' = now
      /\ due' = collected /\ entries' = entries \ collected
      /\ pending' = pending - Cardinality(collected)
      /\ phase' = IF collected = {} THEN "idle" ELSE "collected"
      /\ UNCHANGED <<next_id, scheduled, fired, cancelled, refused>>
  BY ZenonT(60) DEF AdvanceTo
<1>2. due = {} /\ IsFiniteSet(entries)
  BY ZenonT(60), <1>1 DEF IInv, Placed
<1>3. Known' = Known
  BY ZenonT(60), <1>1, <1>2 DEF Known
<1>4. IsFiniteSet(collected) /\ IsFiniteSet(entries') /\ Cardinality(collected) \in Nat
      /\ Cardinality(entries) \in Nat /\ Cardinality(entries') = Cardinality(entries) - Cardinality(collected)
  <2>1. IsFiniteSet(collected) /\ IsFiniteSet(entries')
    BY ZenonT(60), <1>1, <1>2, FS_Subset
  <2>2. entries \cap collected = collected
    BY ZenonT(60)
  <2>3. Cardinality(collected) \in Nat /\ Cardinality(entries) \in Nat
    BY ZenonT(60), <1>2, <2>1, FS_CardinalityType
  <2>4. Cardinality(entries \ collected) = Cardinality(entries) - Cardinality(entries \cap collected)
    BY ZenonT(60), <1>2, <2>1, FS_Difference
  <2> QED BY ZenonT(60), <1>1, <2>1, <2>2, <2>3, <2>4
<1>5. TypeOK'
  BY <1>1, <1>4, TimerAssumption DEF IInv, TypeOK
<1>6. Placed'
  <2>1. IsFiniteSet(entries') /\ (phase' = "idle" => due' = {}) /\ entries' \cap due' = {}
    BY ZenonT(60), <1>1, <1>4
  <2> QED BY ZenonT(60), <1>1, <1>3, <2>1 DEF IInv, Placed
<1>7. UniqueIds' /\ CountExact'
  BY ZenonT(60), <1>1, <1>4 DEF IInv, UniqueIds, CountExact
<1>8. NothingOverdue'
  BY <1>1 DEF IInv, NothingOverdue, TypeOK, Entry
<1>9. CancelSticks'
  BY ZenonT(60), <1>1, <1>3 DEF IInv, CancelSticks, Known
<1> QED BY ZenonT(60), <1>5, <1>6, <1>7, <1>8, <1>9 DEF IInv

(* A callback runs once.                                                     *)
LEMMA FireNextStep ==
  ASSUME IInv, FireNext
  PROVE  IInv'
<1>1. UNCHANGED <<entries, next_id, cursor_ms, pending, scheduled, cancelled, refused>>
  BY ZenonT(60) DEF FireNext
<1>2. UniqueIds' /\ CountExact' /\ NothingOverdue'
  BY ZenonT(60), <1>1 DEF IInv, UniqueIds, CountExact, NothingOverdue
<1>3. CASE due = {} /\ phase' = "idle" /\ UNCHANGED <<due, fired>>
  <2>1. TypeOK'
    BY ZenonT(60), <1>1, <1>3 DEF IInv, TypeOK
  <2>2. Placed' /\ CancelSticks'
    BY ZenonT(60), <1>1, <1>3 DEF IInv, Placed, CancelSticks, Known
  <2> QED BY ZenonT(60), <1>2, <2>1, <2>2 DEF IInv
<1>4. ASSUME NEW e \in due, due' = due \ {e}, fired' = [fired EXCEPT ![e.key] = @ + 1],
             phase' = "callback"
      PROVE  IInv'
  <2>1. e.key \in Keys /\ e \in Known /\ fired[e.key] = 0
    BY ZenonT(60), <1>4 DEF IInv, TypeOK, Placed, Known, Entry
  <2>2. fired'[e.key] = 1 /\ \A k \in Keys \ {e.key} : fired'[k] = fired[k]
    BY <1>4, <2>1 DEF IInv, TypeOK
  <2>3. TypeOK'
    <3>1. fired' \in [Keys -> Nat]
      BY <1>4, <2>1 DEF IInv, TypeOK
    <3> QED BY ZenonT(60), <1>1, <1>4, <3>1 DEF IInv, TypeOK
  <2>4. Known' = Known \ {e} /\ \A f \in Known' : f.key # e.key /\ f.key \in Keys
    BY <1>1, <1>4, <2>1 DEF IInv, TypeOK, Placed, Known, Entry
  <2>5. Placed'
    <3>1. IsFiniteSet(entries') /\ (phase' = "idle" => due' = {}) /\ entries' \cap due' = {}
      BY ZenonT(60), <1>1, <1>4 DEF IInv, Placed
    <3>2. /\ \A f, g \in Known' : f.key = g.key => f = g
          /\ \A f \in Known' : f.key <= scheduled' /\ fired'[f.key] = 0
      BY ZenonT(60), <1>1, <2>2, <2>4 DEF IInv, Placed
    <3>3. ~(e.key > scheduled)
      BY <2>1, TimerAssumption DEF IInv, Placed, TypeOK, Keys
    <3>4. \A j \in Keys : /\ j > scheduled' => fired'[j] = 0 /\ j \notin cancelled'
                          /\ fired'[j] <= 1
      BY <1>1, <2>2, <3>3 DEF IInv, Placed
    <3>5. \A j \in 1..scheduled' : j \in Keys
      BY <1>1, TimerAssumption DEF IInv, TypeOK, Keys
    <3>6. \A j \in 1..scheduled' : j \in cancelled' \/ fired'[j] = 1 \/ \E f \in Known' : f.key = j
      BY ZenonT(60), <1>1, <2>2, <2>4, <3>5 DEF IInv, Placed
    <3> QED BY ZenonT(60), <3>1, <3>2, <3>4, <3>6 DEF Placed
  <2>6. CancelSticks'
    <3>1. e.key \notin cancelled
      BY ZenonT(60), <2>1 DEF IInv, CancelSticks, Known
    <3>2. cancelled \subseteq Keys
      BY ZenonT(60) DEF IInv, TypeOK
    <3> QED BY ZenonT(60), <1>1, <1>4, <2>2, <3>1, <3>2 DEF IInv, CancelSticks
  <2> QED BY ZenonT(60), <1>2, <2>3, <2>5, <2>6 DEF IInv
<1> QED BY ZenonT(60), <1>3, <1>4 DEF FireNext

(* Every step preserves the invariant.                                       *)
LEMMA NextIInv == IInv /\ [Next]_vars => IInv'
<1> SUFFICES ASSUME IInv, [Next]_vars PROVE IInv'
  BY ZenonT(60)
<1>1. CASE UNCHANGED vars
  BY ZenonT(60), <1>1 DEF vars, IInv, TypeOK, Placed, Known, UniqueIds, CountExact,
     NothingOverdue, CancelSticks
<1>2. CASE Next
  BY ZenonT(60), <1>2, ScheduleStep, CancelStep, AdvanceToStep, FireNextStep DEF Next
<1> QED BY ZenonT(60), <1>1, <1>2

(* The inductive invariant of the wheel: a key names one timer, which is in  *)
(* the wheel or collected until it fires or is cancelled; ids are unique,    *)
(* the count is exact and nothing in the wheel is overdue.                   *)
THEOREM Invariance == Spec => []IInv
<1> QED BY InitIInv, NextIInv, PTL DEF Spec

(* The wheel's index, cursor and counters keep their ranges.                 *)
THEOREM TypeCorrect == Spec => []TypeOK
<1>1. IInv => TypeOK
  BY ZenonT(60) DEF IInv
<1> QED BY <1>1, Invariance, PTL

(* Ids in the wheel stay unique however often next_id_ wraps around.         *)
THEOREM IdsAreUnique == Spec => []UniqueIds
<1>1. IInv => UniqueIds
  BY ZenonT(60) DEF IInv
<1> QED BY <1>1, Invariance, PTL

(* pending_ is the number of timers in the wheel.                            *)
THEOREM CountIsExact == Spec => []CountExact
<1>1. IInv => CountExact
  BY ZenonT(60) DEF IInv
<1> QED BY <1>1, Invariance, PTL

(* AdvanceTo leaves nothing overdue behind, whatever its callbacks schedule. *)
THEOREM NothingIsOverdue == Spec => []NothingOverdue
<1>1. IInv => NothingOverdue
  BY ZenonT(60) DEF IInv
<1> QED BY <1>1, Invariance, PTL

(* A timer whose Cancel returned true never fires.                           *)
THEOREM CancelIsFinal == Spec => []CancelSticks
<1>1. IInv => CancelSticks
  BY ZenonT(60) DEF IInv
<1> QED BY <1>1, Invariance, PTL

(* Every timer is, at every moment, in the wheel, collected, fired once or   *)
(* cancelled, and only one of these.                                         *)
THEOREM FiresExactlyOnce == Spec => []ExactlyOnce
<1>1. IInv => ExactlyOnce
  <2> SUFFICES ASSUME IInv, NEW k \in 1..scheduled
               PROVE  Cardinality({e \in entries : e.key = k}) + Cardinality({e \in due : e.key = k})
                        + fired[k] + (IF k \in cancelled THEN 1 ELSE 0) = 1
    BY ZenonT(60) DEF ExactlyOnce
  <2>1. k \in Keys /\ fired[k] \in Nat /\ fired[k] <= 1
    BY TimerAssumption DEF IInv, TypeOK, Placed, Keys
  <2>2. Cardinality({}) = 0 /\ \A x : Cardinality({x}) = 1
    BY ZenonT(60), FS_EmptySet, FS_Singleton
  <2>3. ASSUME NEW e \in Known, e.key = k
        PROVE  /\ fired[k] = 0 /\ k \notin cancelled
               /\ \/ {f \in entries : f.key = k} = {e} /\ {f \in due : f.key = k} = {}
                  \/ {f \in entries : f.key = k} = {} /\ {f \in due : f.key = k} = {e}
    BY <2>3 DEF IInv, Placed, CancelSticks, Known
  <2> DEFINE inWheel == Cardinality({e \in entries : e.key = k})
             inHand == Cardinality({e \in due : e.key = k})
  <2>4. CASE \E e \in Known : e.key = k
    <3>1. /\ \/ inWheel = 1 /\ inHand = 0
             \/ inWheel = 0 /\ inHand = 1
          /\ fired[k] = 0 /\ k \notin cancelled
      BY ZenonT(60), <2>2, <2>3, <2>4
    <3> HIDE DEF inWheel, inHand
    <3> QED BY <3>1 DEF inWheel, inHand
  <2>5. CASE \A e \in Known : e.key # k
    <3>1. {f \in entries : f.key = k} = {} /\ {f \in due : f.key = k} = {}
      BY ZenonT(60), <2>5 DEF Known
    <3>2. k \in cancelled \/ fired[k] = 1
      BY ZenonT(60), <2>5 DEF IInv, Placed
    <3>3. k \in cancelled => fired[k] = 0
      BY ZenonT(60) DEF IInv, CancelSticks
    <3>4. inWheel = 0 /\ inHand = 0
      BY ZenonT(60), <2>2, <3>1
    <3>5. CASE k \in cancelled
      BY <3>3, <3>4, <3>5
    <3>6. CASE k \notin cancelled
      BY <3>2, <3>4, <3>6
    <3> QED BY ZenonT(60), <3>5, <3>6
  <2> QED BY ZenonT(60), <2>4, <2>5
<1> QED BY <1>1, Invariance, PTL
=============================================================================
