------------------------- MODULE TcpReceive_proofs --------------------------
(***************************************************************************)
(* Proofs about the receive half of a connection for every ring capacity,  *)
(* sequence space, initial sequence number, window unit, call budget and   *)
(* stream length.                                                          *)
(***************************************************************************)
EXTENDS TcpReceive, ArithmeticLemmas, TLAPS

-----------------------------------------------------------------------------
(* Sequence numbers. *)

LEMMA SpaceFacts ==
  /\ SeqModulus \in Nat \ {0} /\ Half \in Nat /\ SeqModulus = 2 * Half /\ Half > capacity
  /\ capacity \in Nat \ {0} /\ InitialSequence \in 0..(SeqModulus - 1)
  /\ MaxStream \in Nat /\ MaxSegment \in 0..Half
BY ReceiveAssumption DEF Half

(* A sequence number is in the sequence space.                               *)
LEMMA SeqNoType == \A p \in Int : SeqNo(p) \in 0..(SeqModulus - 1)
<1> TAKE p \in Int
<1> DEFINE n == InitialSequence + p
<1>1. n \in Int /\ SeqModulus \in Nat \ {0}
  BY SpaceFacts
<1> HIDE DEF n
<1>2. n % SeqModulus \in 0..(SeqModulus - 1)
  BY ZenonT(60), <1>1, DivMod
<1> QED BY ZenonT(60), <1>2 DEF SeqNo, n

(* Counting on from a position.                                              *)
LEMMA SeqNoAdd ==
  ASSUME NEW p \in Int, NEW i \in Int
  PROVE  (SeqNo(p) + i) % SeqModulus = SeqNo(p + i)
<1> DEFINE n == InitialSequence + p
<1>1. n \in Int /\ SeqModulus \in Nat \ {0}
  BY SpaceFacts
<1>2. InitialSequence + (p + i) = n + i
  BY SpaceFacts
<1> HIDE DEF n
<1>3. ((n % SeqModulus) + i) % SeqModulus = (n + i) % SeqModulus
  BY ZenonT(60), <1>1, WrapAdd
<1>4. SeqNo(p) = n % SeqModulus
  BY ZenonT(60) DEF SeqNo, n
<1>5. SeqNo(p + i) = (n + i) % SeqModulus
  BY ZenonT(60), <1>2 DEF SeqNo
<1> QED BY ZenonT(60), <1>3, <1>4, <1>5

(* The difference of two wrapped numbers, wrapped, is the wrapped difference.*)
LEMMA WrapSub ==
  ASSUME NEW b \in Nat \ {0}, NEW m \in Int, NEW n \in Int
  PROVE  ((n % b) - (m % b)) % b = (n - m) % b
<1>1. /\ m \div b \in Int /\ m % b \in Int /\ m = b * (m \div b) + (m % b)
      /\ n \div b \in Int /\ n % b \in Int /\ n = b * (n \div b) + (n % b)
  BY DivMod
<1> DEFINE q == (m \div b) - (n \div b)
           x == n - m
           y == (n % b) - (m % b)
<1>2. q \in Int /\ x \in Int /\ y \in Int /\ y = b * q + x
  BY <1>1
<1> HIDE DEF q, x, y
<1>3. y % b = x % b
  BY ZenonT(60), <1>2, ModCongruent
<1> QED BY ZenonT(60), <1>3 DEF x, y

LEMMA SmallMod ==
  ASSUME NEW b \in Nat \ {0}, NEW d \in Int
  PROVE  /\ d \in 0..(b - 1) => d % b = d
         /\ d + b \in 0..(b - 1) => d % b = d + b
<1>1. d = b * 0 + d /\ d = b * (-1) + (d + b)
  OBVIOUS
<1>2. 0 \in Int /\ -1 \in Int
  OBVIOUS
<1> QED BY ZenonT(60), <1>1, <1>2, ModIs

(* The wrapped distance of two positions less than a sequence space apart.   *)
LEMMA SeqNoDistance ==
  ASSUME NEW p \in Int, NEW q \in Int
  PROVE  /\ p - q \in 0..(SeqModulus - 1) => (SeqNo(p) - SeqNo(q)) % SeqModulus = p - q
         /\ p - q + SeqModulus \in 0..(SeqModulus - 1)
              => (SeqNo(p) - SeqNo(q)) % SeqModulus = p - q + SeqModulus
<1> DEFINE m == InitialSequence + q
           n == InitialSequence + p
           d == p - q
<1>1. m \in Int /\ n \in Int /\ n - m = d /\ d \in Int /\ SeqModulus \in Nat \ {0}
  BY SpaceFacts
<1> HIDE DEF m, n, d
<1>2. ((n % SeqModulus) - (m % SeqModulus)) % SeqModulus = d % SeqModulus
  BY ZenonT(60), <1>1, WrapSub
<1>3. (SeqNo(p) - SeqNo(q)) % SeqModulus = d % SeqModulus
  BY ZenonT(60), <1>2 DEF m, n, SeqNo
<1>4. /\ d \in 0..(SeqModulus - 1) => d % SeqModulus = d
      /\ d + SeqModulus \in 0..(SeqModulus - 1) => d % SeqModulus = d + SeqModulus
  BY ZenonT(60), <1>1, SmallMod
<1> QED BY ZenonT(60), <1>3, <1>4 DEF d

(* SequenceOffset is the true distance of positions less than half the       *)
(* sequence space apart, and only those exactly half apart are ambiguous.    *)
LEMMA OffsetIs ==
  ASSUME NEW p \in Int, NEW q \in Int, p - q <= Half, q - p <= Half
  PROVE  /\ Ambiguous(SeqNo(p), SeqNo(q)) <=> (p - q = Half \/ q - p = Half)
         /\ p - q < Half /\ q - p < Half => SequenceOffset(SeqNo(p), SeqNo(q)) = p - q
<1> DEFINE f == (SeqNo(p) - SeqNo(q)) % SeqModulus
<1>1. /\ p - q \in 0..(SeqModulus - 1) => f = p - q
      /\ p - q + SeqModulus \in 0..(SeqModulus - 1) => f = p - q + SeqModulus
  BY ZenonT(60), SeqNoDistance
<1>2. Ambiguous(SeqNo(p), SeqNo(q)) <=> f = Half
  BY ZenonT(60) DEF Ambiguous
<1>3. SequenceOffset(SeqNo(p), SeqNo(q)) = IF f < Half THEN f ELSE f - SeqModulus
  BY DEF SequenceOffset
<1> HIDE DEF f
<1> QED BY <1>1, <1>2, <1>3, SpaceFacts

(* Positions less than a sequence space apart with one number are equal.     *)
LEMMA SeqNoInjective ==
  ASSUME NEW p \in Int, NEW q \in Int, p - q < SeqModulus, q - p < SeqModulus,
         SeqNo(p) = SeqNo(q)
  PROVE  p = q
<1> DEFINE f == (SeqNo(p) - SeqNo(q)) % SeqModulus
<1>1. /\ p - q \in 0..(SeqModulus - 1) => f = p - q
      /\ p - q + SeqModulus \in 0..(SeqModulus - 1) => f = p - q + SeqModulus
  BY ZenonT(60), SeqNoDistance
<1>2. SeqNo(p) \in Int /\ SeqNo(q) \in Int
  BY SeqNoType, SpaceFacts
<1>3. SeqNo(p) - SeqNo(q) = 0
  BY <1>2
<1>4. 0 % SeqModulus = 0
  <2>1. 0 \in 0..(SeqModulus - 1) /\ 0 \in Int /\ SeqModulus \in Nat \ {0}
    BY SpaceFacts
  <2> QED BY ZenonT(60), <2>1, SmallMod
<1>5. f = 0
  BY ZenonT(60), <1>3, <1>4
<1> HIDE DEF f
<1> QED BY <1>1, <1>5, SpaceFacts

-----------------------------------------------------------------------------
(* The ring. *)

(* The least and the greatest element of a set of numbers.                   *)
LEMMA MinOf ==
  ASSUME NEW T, T \subseteq Nat, T # {}
  PROVE  Min(T) \in T /\ \A y \in T : Min(T) <= y
<1>1. \E x \in T : \A y \in T : x <= y
  BY LeastNat
<1> QED BY ZenonT(60), <1>1 DEF Min

LEMMA MaxOf ==
  ASSUME NEW n \in Nat, NEW T, T \subseteq 0..n, T # {}
  PROVE  Max(T) \in T /\ \A y \in T : Max(T) >= y
<1> DEFINE U == {n - y : y \in T}
<1>0. \A y \in T : n - y \in Nat
  OBVIOUS
<1>1. U \subseteq Nat /\ U # {}
  BY ZenonT(60), <1>0
<1>a. \A y \in T : n - y \in U
  BY ZenonT(60)
<1>b. \A v \in U : \E y \in T : v = n - y
  BY ZenonT(60)
<1> HIDE DEF U
<1>2. PICK u \in U : \A v \in U : u <= v
  BY ZenonT(60), <1>1, LeastNat
<1>3. PICK x \in T : u = n - x
  BY ZenonT(60), <1>b
<1>4. \A y \in T : x >= y
  <2> TAKE y \in T
  <2>1. n - x <= n - y
    BY ZenonT(60), <1>a, <1>2, <1>3
  <2>2. x \in 0..n /\ y \in 0..n
    BY ZenonT(60)
  <2> QED BY <2>1, <2>2
<1>5. \E z \in T : \A y \in T : z >= y
  BY ZenonT(60), <1>4
<1> QED BY ZenonT(60), <1>5 DEF Max

(* Moving a finite set of numbers keeps its size.                            *)
LEMMA ShiftCount ==
  ASSUME NEW S, IsFiniteSet(S), S \subseteq Int, NEW k \in Int
  PROVE  /\ IsFiniteSet({k + i : i \in S})
         /\ Cardinality({k + i : i \in S}) = Cardinality(S)
<1> DEFINE T == {k + i : i \in S}
           f == [i \in S |-> k + i]
<1>1. f \in Bijection(S, T)
  <2>1. f \in [S -> T] /\ \A t \in T : \E i \in S : f[i] = t
    OBVIOUS
  <2>2. \A i, j \in S : f[i] = f[j] => i = j
    OBVIOUS
  <2> QED BY ZenonT(60), <2>1, <2>2 DEF Bijection, Injection, Surjection, IsInjective
<1> HIDE DEF T, f
<1>2. ExistsBijection(S, T)
  BY ZenonT(60), <1>1 DEF ExistsBijection
<1>3. IsFiniteSet(T) /\ Cardinality(T) = Cardinality(S)
  BY ZenonT(60), <1>2, FS_Bijection
<1> QED BY ZenonT(60), <1>3 DEF T

LEMMA BelowCount ==
  ASSUME NEW n \in Nat
  PROVE  IsFiniteSet(0..(n - 1)) /\ Cardinality(0..(n - 1)) = n
<1> DEFINE m == n - 1
<1>1. m \in Int /\ 0 \in Int /\ (IF 0 > m THEN 0 ELSE m - 0 + 1) = n
  OBVIOUS
<1> HIDE DEF m
<1>2. IsFiniteSet(0..m) /\ Cardinality(0..m) = IF 0 > m THEN 0 ELSE m - 0 + 1
  BY ZenonT(60), <1>1, FS_Interval
<1> QED BY <1>1, <1>2 DEF m

(* A function on 1..n is a sequence.                                         *)
LEMMA FunctionSeq ==
  ASSUME NEW n \in Nat, NEW S, NEW f \in [1..n -> S]
  PROVE  f \in Seq(S) /\ Len(f) = n
OBVIOUS

SackType == [left_edge : 0..(SeqModulus - 1), right_edge : 0..(SeqModulus - 1)]
BufferType ==
    [storage : [Index -> 0..MaxStream], occupied : [Index -> BOOLEAN],
     first_index : Index, ready_bytes : 0..capacity, bytes_held : Int,
     rcv_nxt : 0..(SeqModulus - 1), rcv_adv : 0..(SeqModulus - 1),
     blocked : BOOLEAN, delayed_ack_pending : BOOLEAN,
     recent_sack : SackType, recent_sack_valid : BOOLEAN, fin_received : BOOLEAN]

(* A logical offset names a place of the ring, and two name two places.      *)
LEMMA PhysicalPlaces ==
  ASSUME NEW b \in BufferType
  PROVE  /\ \A i \in 0..capacity : PhysicalIndex(b, i) \in Index
         /\ \A i, j \in Index : PhysicalIndex(b, i) = PhysicalIndex(b, j) => i = j
         /\ \A p \in Index : \E i \in Index : PhysicalIndex(b, i) = p
<1>1. b.first_index \in Index /\ capacity \in Nat \ {0}
  BY SpaceFacts DEF BufferType
<1>2. \A i \in 0..capacity : PhysicalIndex(b, i) \in Index
  BY <1>1 DEF PhysicalIndex, Index
<1>3. \A i, j \in Index : PhysicalIndex(b, i) = PhysicalIndex(b, j) => i = j
  BY <1>1 DEF PhysicalIndex, Index
<1>4. \A p \in Index : \E i \in Index : PhysicalIndex(b, i) = p
  <2> TAKE p \in Index
  <2>1. CASE p >= b.first_index
    <3>1. p - b.first_index \in Index /\ PhysicalIndex(b, p - b.first_index) = p
      BY <1>1, <2>1 DEF PhysicalIndex, Index
    <3> QED BY ZenonT(60), <3>1
  <2>2. CASE p < b.first_index
    <3>1. p + (capacity - b.first_index) \in Index
      BY <1>1, <2>2 DEF Index
    <3>2. PhysicalIndex(b, p + (capacity - b.first_index)) = p
      BY <1>1, <2>2 DEF PhysicalIndex, Index
    <3> QED BY ZenonT(60), <3>1, <3>2
  <2>3. p >= b.first_index \/ p < b.first_index
    BY <1>1 DEF Index
  <2> QED BY ZenonT(60), <2>1, <2>2, <2>3
<1> QED BY ZenonT(60), <1>2, <1>3, <1>4

(* Held offsets are a finite set inside the ring.                            *)
LEMMA HeldFinite ==
  ASSUME NEW b
  PROVE  /\ Held(b) \subseteq Index /\ IsFiniteSet(Held(b)) /\ Cardinality(Held(b)) \in 0..capacity
         /\ \A i \in Index : i \in Held(b) <=> OccupiedAt(b, i)
<1>1. Held(b) \subseteq Index /\ \A i \in Index : i \in Held(b) <=> OccupiedAt(b, i)
  BY ZenonT(60) DEF Held, Index
<1>2. IsFiniteSet(Index) /\ Cardinality(Index) = capacity
  <2>1. 0 \in Int /\ capacity - 1 \in Int /\ (0 > capacity - 1) = FALSE /\ capacity - 1 - 0 + 1 = capacity
    BY SpaceFacts
  <2> QED BY SMT, <2>1, FS_Interval DEF Index
<1>3. IsFiniteSet(Held(b)) /\ Cardinality(Held(b)) <= Cardinality(Index)
  BY ZenonT(60), <1>1, <1>2, FS_Subset
<1>4. Cardinality(Held(b)) \in Nat
  BY ZenonT(60), <1>3, FS_CardinalityType
<1>5. Cardinality(Held(b)) \in 0..capacity
  BY <1>2, <1>3, <1>4, SpaceFacts
<1> QED BY ZenonT(60), <1>1, <1>3, <1>5

-----------------------------------------------------------------------------
(* The operations of the buffer. *)

(* What the ring holds below offset capacity for the stream position L of    *)
(* its first octet.                                                          *)
Ring(b, L) == /\ b \in BufferType
              /\ \A i \in Held(b) : b.storage[PhysicalIndex(b, i)] = L + i
              /\ b.bytes_held = Cardinality(Held(b))
Prefix(b) == /\ \A i \in 0..(b.ready_bytes - 1) : i \in Held(b)
             /\ b.ready_bytes < capacity => b.ready_bytes \notin Held(b)
Numbered(b, L) == b.rcv_nxt = SeqNo(L + b.ready_bytes + (IF b.fin_received THEN 1 ELSE 0))
Window(b, L, E) == ~b.fin_received => /\ b.rcv_adv = SeqNo(E)
                                      /\ L + b.ready_bytes <= E /\ E <= L + capacity
                                      /\ \A i \in Held(b) : L + i < E
Ended(b, L) == b.fin_received => L + b.ready_bytes = MaxStream
Intact(b, L, E) == Ring(b, L) /\ Prefix(b) /\ Numbered(b, L) /\ Window(b, L, E) /\ Ended(b, L)

Freely(b, data, first, at, fresh) ==
    /\ fresh \subseteq Index /\ at \in Nat /\ first \in Nat
    /\ \A i \in fresh : /\ at + i \in Index /\ at + i \notin Held(b)
                        /\ data[first + i] \in 0..MaxStream

SameButRing(f, b) ==
    /\ f.first_index = b.first_index /\ f.ready_bytes = b.ready_bytes
    /\ f.rcv_nxt = b.rcv_nxt /\ f.rcv_adv = b.rcv_adv /\ f.fin_received = b.fin_received
    /\ f.blocked = b.blocked

Placed(f, b, data, first, at, fresh) ==
    /\ f \in BufferType /\ SameButRing(f, b)
    /\ f.bytes_held = b.bytes_held + Cardinality(fresh)
    /\ \A i \in fresh : /\ f.occupied[PhysicalIndex(b, at + i)]
                        /\ f.storage[PhysicalIndex(b, at + i)] = data[first + i]
    /\ \A p \in Index : (\A i \in fresh : PhysicalIndex(b, at + i) # p) =>
           f.occupied[p] = b.occupied[p] /\ f.storage[p] = b.storage[p]

(* Fill changes the places of the fresh octets, and no others.               *)
LEMMA FillPlaces ==
  ASSUME NEW b \in BufferType, NEW data, NEW first, NEW at, NEW fresh,
         Freely(b, data, first, at, fresh)
  PROVE  Placed(Fill(b, data, first, at, fresh), b, data, first, at, fresh)
<1> DEFINE At(p) == {i \in fresh : PhysicalIndex(b, at + i) = p}
           store == [p \in Index |-> IF At(p) = {} THEN b.storage[p] ELSE data[first + Min(At(p))]]
           occ == [p \in Index |-> b.occupied[p] \/ At(p) # {}]
           bytes == b.bytes_held + Cardinality(fresh)
           f == Fill(b, data, first, at, fresh)
<1>1. f = [b EXCEPT !.storage = store, !.occupied = occ, !.bytes_held = bytes]
  BY ZenonT(60) DEF Fill
<1>2. \A i \in fresh : PhysicalIndex(b, at + i) \in Index /\ At(PhysicalIndex(b, at + i)) = {i}
  <2> TAKE i \in fresh
  <2>1. at + i \in Index /\ i \in Int /\ at \in Nat /\ capacity \in Nat
    BY SpaceFacts DEF Freely, Index
  <2>2. PhysicalIndex(b, at + i) \in Index
    BY <2>1, PhysicalPlaces DEF Index
  <2>3. \A j \in fresh : PhysicalIndex(b, at + j) = PhysicalIndex(b, at + i) => j = i
    <3> TAKE j \in fresh
    <3>1. at + j \in Index /\ j \in Int
      BY DEF Freely, Index
    <3>2. PhysicalIndex(b, at + j) = PhysicalIndex(b, at + i) => at + j = at + i
      BY ZenonT(60), <2>1, <3>1, PhysicalPlaces
    <3> QED BY <2>1, <3>1, <3>2
  <2> QED BY ZenonT(60), <2>2, <2>3
<1>3. \A i \in fresh : Min({i}) = i
  <2> TAKE i \in fresh
  <2>1. {i} \subseteq Nat /\ {i} # {}
    BY SpaceFacts DEF Freely, Index
  <2> QED BY ZenonT(60), <2>1, MinOf
<1>4. \A p \in Index : At(p) = {} \/ \E i \in fresh : p = PhysicalIndex(b, at + i) /\ At(p) = {i}
  <2> TAKE p \in Index
  <2>1. SUFFICES ASSUME NEW i \in At(p)
                 PROVE  \E j \in fresh : p = PhysicalIndex(b, at + j) /\ At(p) = {j}
    BY ZenonT(60)
  <2>2. i \in fresh /\ p = PhysicalIndex(b, at + i)
    BY ZenonT(60), <2>1
  <2> QED BY ZenonT(60), <2>2, <1>2
<1>5. \A p \in Index : store[p] \in 0..MaxStream
  <2> TAKE p \in Index
  <2>1. CASE At(p) = {}
    <3>1. b.storage[p] \in 0..MaxStream
      BY DEF BufferType
    <3> QED BY ZenonT(60), <2>1, <3>1
  <2>2. CASE \E i \in fresh : p = PhysicalIndex(b, at + i) /\ At(p) = {i}
    <3>1. PICK i \in fresh : At(p) = {i}
      BY ZenonT(60), <2>2
    <3>2. data[first + i] \in 0..MaxStream /\ {i} # {}
      BY ZenonT(60) DEF Freely
    <3>3. store[p] = data[first + i]
      BY ZenonT(60), <3>1, <3>2, <1>3
    <3> QED BY ZenonT(60), <3>2, <3>3
  <2> QED BY ZenonT(60), <2>1, <2>2, <1>4
<1>6. store \in [Index -> 0..MaxStream] /\ occ \in [Index -> BOOLEAN]
  <2>1. store \in [Index -> 0..MaxStream]
    BY ZenonT(60), <1>5
  <2> QED BY ZenonT(60), <2>1
<1>7. bytes \in Int
  <2>1. IsFiniteSet(fresh)
    <3>1. IsFiniteSet(Index)
      BY SpaceFacts, FS_Interval DEF Index
    <3> QED BY ZenonT(60), <3>1, FS_Subset DEF Freely
  <2>2. Cardinality(fresh) \in Nat
    BY ZenonT(60), <2>1, FS_CardinalityType
  <2>3. b.bytes_held \in Int
    BY DEF BufferType
  <2> QED BY <2>2, <2>3
<1>8. \A i \in fresh : occ[PhysicalIndex(b, at + i)] /\ store[PhysicalIndex(b, at + i)] = data[first + i]
  <2> TAKE i \in fresh
  <2>1. At(PhysicalIndex(b, at + i)) = {i} /\ {i} # {} /\ PhysicalIndex(b, at + i) \in Index
    BY ZenonT(60), <1>2
  <2> QED BY ZenonT(60), <2>1, <1>3
<1>9. \A p \in Index : (\A i \in fresh : PhysicalIndex(b, at + i) # p) =>
          occ[p] = b.occupied[p] /\ store[p] = b.storage[p]
  <2> TAKE p \in Index
  <2> HAVE \A i \in fresh : PhysicalIndex(b, at + i) # p
  <2>1. At(p) = {}
    BY ZenonT(60)
  <2>2. b.occupied[p] \in BOOLEAN
    BY DEF BufferType
  <2>3. store[p] = b.storage[p] /\ occ[p] = (b.occupied[p] \/ FALSE)
    BY ZenonT(60), <2>1
  <2> QED BY ZenonT(60), <2>2, <2>3
<1> HIDE DEF store, occ, bytes
<1>10. /\ f \in BufferType /\ SameButRing(f, b)
       /\ f.bytes_held = bytes /\ f.occupied = occ /\ f.storage = store
  <2> HIDE DEF f
  <2> QED BY <1>1, <1>6, <1>7 DEF BufferType, SameButRing
<1> QED BY ZenonT(60), <1>8, <1>9, <1>10 DEF bytes, Placed

Refilled(f, b, L, at, fresh) ==
    /\ Ring(f, L) /\ SameButRing(f, b)
    /\ Held(f) = Held(b) \cup {at + i : i \in fresh}
    /\ IsFiniteSet(fresh) /\ Cardinality(fresh) \in Nat

(* Filling with the octets of the stream keeps the ring's octets in place.   *)
LEMMA FillRing ==
  ASSUME NEW b, NEW L \in Int, Ring(b, L), NEW data, NEW first, NEW at, NEW fresh,
         Freely(b, data, first, at, fresh),
         \A i \in fresh : data[first + i] = L + (at + i)
  PROVE  Refilled(Fill(b, data, first, at, fresh), b, L, at, fresh)
<1> DEFINE f == Fill(b, data, first, at, fresh)
           new == {at + i : i \in fresh}
<1>0. b \in BufferType
  BY DEF Ring
<1>a. Placed(f, b, data, first, at, fresh)
  BY ZenonT(60), <1>0, FillPlaces
<1> HIDE DEF f
<1>1. /\ f \in BufferType /\ SameButRing(f, b)
      /\ f.bytes_held = b.bytes_held + Cardinality(fresh)
      /\ \A i \in fresh : /\ f.occupied[PhysicalIndex(b, at + i)]
                          /\ f.storage[PhysicalIndex(b, at + i)] = data[first + i]
      /\ \A p \in Index : (\A i \in fresh : PhysicalIndex(b, at + i) # p) =>
             f.occupied[p] = b.occupied[p] /\ f.storage[p] = b.storage[p]
  BY ZenonT(60), <1>a DEF Placed
<1>2. \A i : PhysicalIndex(f, i) = PhysicalIndex(b, i)
  BY ZenonT(60), <1>1 DEF SameButRing, PhysicalIndex
<1>3. new \subseteq Index /\ \A i \in fresh : at + i \in Index
  BY ZenonT(60) DEF Freely
<1>4. \A j \in Index : j \notin new => \A i \in fresh : PhysicalIndex(b, at + i) # PhysicalIndex(b, j)
  BY ZenonT(60), <1>0, <1>3, PhysicalPlaces
<1>5. \A j \in Index : PhysicalIndex(b, j) \in Index
  <2>1. \A j \in Index : j \in 0..capacity
    BY SpaceFacts DEF Index
  <2> QED BY ZenonT(60), <2>1, <1>0, PhysicalPlaces
<1>6. \A j \in Index : j \notin new => /\ OccupiedAt(f, j) = OccupiedAt(b, j)
                                       /\ f.storage[PhysicalIndex(f, j)] = b.storage[PhysicalIndex(b, j)]
  BY ZenonT(60), <1>1, <1>2, <1>4, <1>5 DEF OccupiedAt
<1>7. \A j \in new : OccupiedAt(f, j) /\ f.storage[PhysicalIndex(f, j)] = L + j
  <2> TAKE j \in new
  <2>1. PICK i \in fresh : j = at + i
    BY ZenonT(60)
  <2> QED BY ZenonT(60), <2>1, <1>1, <1>2 DEF OccupiedAt
<1>8. Held(f) = Held(b) \cup new
  <2>1. \A j \in Index : j \in Held(f) <=> (j \in Held(b) \/ j \in new)
    BY ZenonT(60), <1>6, <1>7, HeldFinite
  <2> QED BY ZenonT(60), <2>1, <1>3, HeldFinite
<1>9. \A j \in Held(f) : f.storage[PhysicalIndex(f, j)] = L + j
  <2> TAKE j \in Held(f)
  <2>1. CASE j \in new
    BY ZenonT(60), <2>1, <1>7
  <2>2. CASE j \notin new
    <3>1. j \in Held(b) /\ j \in Index
      BY ZenonT(60), <2>2, <1>8, HeldFinite
    <3> QED BY ZenonT(60), <2>2, <3>1, <1>6 DEF Ring
  <2> QED BY ZenonT(60), <2>1, <2>2
<1>10. IsFiniteSet(fresh) /\ fresh \subseteq Int /\ at \in Int
  <2>1. IsFiniteSet(Index)
    BY SpaceFacts, FS_Interval DEF Index
  <2>2. IsFiniteSet(fresh)
    BY ZenonT(60), <2>1, FS_Subset DEF Freely
  <2> QED BY <2>2 DEF Freely, Index
<1>11. IsFiniteSet(new) /\ Cardinality(new) = Cardinality(fresh)
  BY ZenonT(60), <1>10, ShiftCount
<1>12. Held(b) \cap new = {}
  BY ZenonT(60) DEF Freely
<1> HIDE DEF new
<1>13. f.bytes_held = Cardinality(Held(f)) /\ Cardinality(fresh) \in Nat
  <2>1. IsFiniteSet(Held(b)) /\ Cardinality(Held(b)) \in Nat /\ Cardinality(fresh) \in Nat
    BY ZenonT(60), HeldFinite, <1>10, FS_CardinalityType
  <2>2. Cardinality(Held(b) \cup new) = Cardinality(Held(b)) + Cardinality(new) - Cardinality(Held(b) \cap new)
    BY ZenonT(60), <2>1, <1>11, FS_Union
  <2>3. Cardinality(Held(b) \cap new) = 0
    BY ZenonT(60), <1>12, FS_EmptySet
  <2>4. b.bytes_held = Cardinality(Held(b))
    BY DEF Ring
  <2>5. Cardinality(Held(f)) = Cardinality(Held(b)) + Cardinality(fresh) - 0
    BY ZenonT(60), <2>2, <2>3, <1>8, <1>11
  <2> QED BY <2>1, <2>4, <2>5, <1>1
<1> QED BY ZenonT(60), <1>1, <1>8, <1>9, <1>10, <1>13 DEF Ring, Refilled, f, new

(* ReadyEnd is the end of the gap-free prefix.                               *)
LEMMA ReadyEndIs ==
  ASSUME NEW b \in BufferType, \A i \in 0..(b.ready_bytes - 1) : i \in Held(b)
  PROVE  /\ ReadyEnd(b) \in b.ready_bytes..capacity
         /\ \A i \in 0..(ReadyEnd(b) - 1) : i \in Held(b)
         /\ ReadyEnd(b) < capacity => ReadyEnd(b) \notin Held(b)
<1> DEFINE ends == {n \in b.ready_bytes..capacity : n = capacity \/ ~OccupiedAt(b, n)}
<1>1. b.ready_bytes \in 0..capacity /\ capacity \in Nat
  BY SpaceFacts DEF BufferType
<1>2. ends \subseteq Nat
  BY <1>1
<1>3. capacity \in ends
  BY <1>1
<1>4. ReadyEnd(b) = Min(ends)
  BY ZenonT(60) DEF ReadyEnd
<1>a. \A n \in b.ready_bytes..capacity : n \notin ends => OccupiedAt(b, n)
  BY ZenonT(60)
<1>b. ends \subseteq b.ready_bytes..capacity /\ \A n \in ends : n = capacity \/ ~OccupiedAt(b, n)
  BY ZenonT(60)
<1> HIDE DEF ends
<1>5. PICK m \in ends : m = ReadyEnd(b) /\ \A n \in ends : m <= n
  <2>1. Min(ends) \in ends /\ \A n \in ends : Min(ends) <= n
    BY ZenonT(60), <1>2, <1>3, MinOf
  <2> QED BY ZenonT(60), <2>1, <1>4
<1>6. m \in b.ready_bytes..capacity /\ m \in Int
  BY <1>5, <1>b, <1>1
<1>7. \A i \in 0..(m - 1) : i \in Held(b)
  <2> TAKE i \in 0..(m - 1)
  <2>1. CASE i < b.ready_bytes
    <3>1. i \in 0..(b.ready_bytes - 1)
      BY <1>1, <1>6, <2>1
    <3> QED BY ZenonT(60), <3>1
  <2>2. CASE i >= b.ready_bytes
    <3>1. i \in b.ready_bytes..capacity /\ ~(m <= i) /\ i \in Index
      BY <1>1, <1>6, <2>2 DEF Index
    <3>2. i \notin ends
      BY ZenonT(60), <3>1, <1>5
    <3> QED BY ZenonT(60), <3>1, <3>2, <1>a, HeldFinite
  <2>3. i < b.ready_bytes \/ i >= b.ready_bytes
    BY <1>1, <1>6
  <2> QED BY ZenonT(60), <2>1, <2>2, <2>3
<1>8. m < capacity => m \notin Held(b)
  <2> HAVE m < capacity
  <2>1. m # capacity /\ m \in Index
    BY <1>1, <1>6 DEF Index
  <2> QED BY ZenonT(60), <2>1, <1>5, <1>b, HeldFinite
<1> QED BY ZenonT(60), <1>5, <1>6, <1>7, <1>8

(* The acceptable window is what was announced above RCV.NXT.                *)
LEMMA AcceptableIs ==
  ASSUME NEW b, NEW L \in Nat, NEW E \in Nat, Intact(b, L, E), ~b.fin_received
  PROVE  /\ AcceptableWindow(b) = E - (L + b.ready_bytes)
         /\ E - (L + b.ready_bytes) \in 0..(capacity - b.ready_bytes)
         /\ b.rcv_nxt = SeqNo(L + b.ready_bytes) /\ L + b.ready_bytes \in Nat
<1>1. b.ready_bytes \in 0..capacity /\ capacity \in Nat /\ L + b.ready_bytes <= E /\ E <= L + capacity
  BY SpaceFacts DEF Intact, Ring, Window, BufferType
<1> DEFINE q == L + b.ready_bytes
<1>2. q \in Nat /\ E - q \in 0..(capacity - b.ready_bytes) /\ E - q \in 0..(SeqModulus - 1) /\ E - q < Half
  BY <1>1, SpaceFacts
<1>3. b.rcv_nxt = SeqNo(q) /\ b.rcv_adv = SeqNo(E)
  <2>1. b.rcv_nxt = SeqNo(q + 0) /\ b.rcv_adv = SeqNo(E)
    BY ZenonT(60) DEF Intact, Numbered, Window
  <2>2. q + 0 = q
    BY <1>2
  <2> QED BY ZenonT(60), <2>1, <2>2
<1> HIDE DEF q
<1>4. (b.rcv_adv - b.rcv_nxt) % SeqModulus = E - q
  <2>1. q \in Int /\ E \in Int
    BY <1>2
  <2> QED BY ZenonT(60), <1>2, <1>3, <2>1, SeqNoDistance
<1>5. AcceptableWindow(b) = IF E - q < Half THEN Smaller(E - q, capacity - b.ready_bytes) ELSE 0
  BY ZenonT(60), <1>4 DEF AcceptableWindow
<1>6. AcceptableWindow(b) = E - q
  BY <1>1, <1>2, <1>5 DEF Smaller
<1> QED BY ZenonT(60), <1>2, <1>3, <1>6 DEF q

(* What is said of a buffer depends on nothing else.                         *)
SameContent(h, g) ==
    /\ h.storage = g.storage /\ h.occupied = g.occupied /\ h.first_index = g.first_index
    /\ h.ready_bytes = g.ready_bytes /\ h.bytes_held = g.bytes_held
    /\ h.rcv_nxt = g.rcv_nxt /\ h.rcv_adv = g.rcv_adv /\ h.fin_received = g.fin_received

LEMMA SameHeld ==
  ASSUME NEW h, NEW g, h.occupied = g.occupied, h.first_index = g.first_index
  PROVE  Held(h) = Held(g) /\ \A i : PhysicalIndex(h, i) = PhysicalIndex(g, i)
BY ZenonT(60) DEF Held, OccupiedAt, PhysicalIndex

LEMMA IntactSame ==
  ASSUME NEW h, NEW g, NEW L, NEW E, Intact(g, L, E), h \in BufferType, SameContent(h, g)
  PROVE  Intact(h, L, E)
<1>1. Held(h) = Held(g) /\ \A i : PhysicalIndex(h, i) = PhysicalIndex(g, i)
  BY ZenonT(60), SameHeld DEF SameContent
<1>2. Ring(h, L)
  BY ZenonT(60), <1>1 DEF Intact, SameContent, Ring
<1>3. Prefix(h) /\ Numbered(h, L) /\ Window(h, L, E) /\ Ended(h, L)
  BY ZenonT(60), <1>1 DEF Intact, SameContent, Prefix, Numbered, Window, Ended
<1> QED BY ZenonT(60), <1>2, <1>3 DEF Intact

(* Filling below the announced edge and advancing over the octets that are   *)
(* now in order.                                                             *)
LEMMA FillAdvance ==
  ASSUME NEW b, NEW L \in Nat, NEW E \in Nat, Intact(b, L, E), ~b.fin_received,
         NEW f, NEW at \in Nat, NEW fresh, Refilled(f, b, L, at, fresh),
         \A i \in fresh : L + (at + i) < E
  PROVE  LET g == Advance(f, ReadyEnd(f)) IN
         /\ Intact(g, L, E) /\ ~g.fin_received /\ g.blocked = f.blocked
         /\ g.ready_bytes = ReadyEnd(f) /\ ReadyEnd(f) \in b.ready_bytes..capacity
<1> DEFINE m == ReadyEnd(f)
           g == Advance(f, m)
<1>1. /\ Ring(f, L) /\ f \in BufferType /\ SameButRing(f, b)
      /\ Held(f) = Held(b) \cup {at + i : i \in fresh}
  BY ZenonT(60) DEF Refilled, Ring
<1>2. /\ f.ready_bytes = b.ready_bytes /\ b.ready_bytes \in 0..capacity /\ capacity \in Nat
      /\ f.fin_received = FALSE /\ f.rcv_nxt = b.rcv_nxt /\ f.rcv_adv = b.rcv_adv
  <2>1. b \in BufferType
    BY DEF Intact, Ring
  <2> QED BY <1>1, <2>1, SpaceFacts DEF SameButRing, BufferType
<1>3. \A i \in 0..(f.ready_bytes - 1) : i \in Held(f)
  BY ZenonT(60), <1>1, <1>2 DEF Intact, Prefix
<1>4. /\ m \in f.ready_bytes..capacity
      /\ \A i \in 0..(m - 1) : i \in Held(f)
      /\ m < capacity => m \notin Held(f)
  BY ZenonT(60), <1>1, <1>3, ReadyEndIs
<1> HIDE DEF m
<1>5. b.rcv_nxt = SeqNo(L + b.ready_bytes)
  BY ZenonT(60), AcceptableIs
<1> DEFINE nxt == (f.rcv_nxt + (m - b.ready_bytes)) % SeqModulus
<1>6. nxt = SeqNo(L + m) /\ nxt \in 0..(SeqModulus - 1)
  <2>1. L + b.ready_bytes \in Int /\ m - b.ready_bytes \in Int /\ L + b.ready_bytes + (m - b.ready_bytes) = L + m
        /\ L + m \in Int
    BY <1>2, <1>4
  <2> QED BY ZenonT(60), <2>1, <1>2, <1>5, SeqNoAdd, SeqNoType
<1>7. g = [f EXCEPT !.ready_bytes = m, !.rcv_nxt = nxt]
  <2>1. f.rcv_nxt + m - f.ready_bytes = f.rcv_nxt + (m - b.ready_bytes)
    <3>1. f.rcv_nxt \in Int
      BY <1>1, SpaceFacts DEF BufferType
    <3> QED BY <3>1, <1>2, <1>4
  <2> QED BY ZenonT(60), <2>1 DEF Advance
<1> HIDE DEF nxt, g
<1>8. /\ g \in BufferType /\ g.ready_bytes = m /\ g.rcv_nxt = nxt
      /\ g.storage = f.storage /\ g.occupied = f.occupied /\ g.first_index = f.first_index
      /\ g.bytes_held = f.bytes_held /\ g.rcv_adv = f.rcv_adv
      /\ g.fin_received = f.fin_received /\ g.blocked = f.blocked
  <2>1. m \in 0..capacity
    BY <1>2, <1>4
  <2> QED BY <2>1, <1>1, <1>6, <1>7 DEF BufferType
<1>9. Held(g) = Held(f) /\ \A i : PhysicalIndex(g, i) = PhysicalIndex(f, i)
  BY ZenonT(60), <1>8, SameHeld
<1>10. Ring(g, L)
  BY ZenonT(60), <1>1, <1>8, <1>9 DEF Ring
<1>11. Prefix(g)
  BY ZenonT(60), <1>4, <1>8, <1>9 DEF Prefix
<1>12. Numbered(g, L)
  <2>1. L + m + 0 = L + m
    BY <1>2, <1>4
  <2> QED BY ZenonT(60), <2>1, <1>2, <1>6, <1>8 DEF Numbered
<1>13. \A i \in Held(g) : L + i < E
  BY ZenonT(60), <1>1, <1>9 DEF Intact, Window
<1>14. Window(g, L, E)
  <2>1. g.rcv_adv = SeqNo(E) /\ L + b.ready_bytes <= E /\ E <= L + capacity
    BY ZenonT(60), <1>2, <1>8 DEF Intact, Window
  <2>2. L + m <= E
    <3>1. CASE m = b.ready_bytes
      BY <2>1, <3>1
    <3>2. CASE m # b.ready_bytes
      <4>1. m - 1 \in 0..(m - 1) /\ m \in Int
        BY <3>2, <1>2, <1>4
      <4>2. L + (m - 1) < E
        BY ZenonT(60), <4>1, <1>4, <1>9, <1>13
      <4> QED BY <4>1, <4>2
    <3> QED BY ZenonT(60), <3>1, <3>2
  <2> QED BY ZenonT(60), <2>1, <2>2, <1>8, <1>13 DEF Window
<1>15. Ended(g, L)
  BY ZenonT(60), <1>2, <1>8 DEF Ended
<1>16. Intact(g, L, E)
  BY ZenonT(60), <1>10, <1>11, <1>12, <1>14, <1>15 DEF Intact
<1> QED BY ZenonT(60), <1>2, <1>4, <1>8, <1>16 DEF m, g

(* The run around an offset above RCV.NXT lies in the ring.                  *)
LEMMA RunType ==
  ASSUME NEW g \in BufferType, NEW i \in Index, i >= g.ready_bytes
  PROVE  RunBegin(g, i) \in 0..capacity /\ RunEnd(g, i) \in (i + 1)..capacity
<1>1. g.ready_bytes \in 0..capacity /\ i \in 0..capacity /\ i + 1 \in 0..capacity /\ capacity \in Nat
  BY SpaceFacts DEF BufferType, Index
<1> DEFINE begins == {j \in g.ready_bytes..i : \A k \in j..(i - 1) : OccupiedAt(g, k)}
           ends == {j \in (i + 1)..capacity : \A k \in (i + 1)..(j - 1) : OccupiedAt(g, k)}
<1>2. begins \subseteq 0..capacity /\ begins \subseteq Nat
  BY <1>1
<1>3. i \in begins /\ i + 1 \in ends
  <2>1. i \in g.ready_bytes..i /\ i + 1 \in (i + 1)..capacity
    BY <1>1
  <2>2. (\A k \in i..(i - 1) : OccupiedAt(g, k)) /\ (\A k \in (i + 1)..(i + 1 - 1) : OccupiedAt(g, k))
    BY <1>1
  <2> QED BY <2>1, <2>2
<1>4. ends \subseteq (i + 1)..capacity
  BY ZenonT(60)
<1>a. ends \subseteq 0..capacity
  BY <1>1, <1>4
<1>5. RunBegin(g, i) = Min(begins) /\ RunEnd(g, i) = Max(ends)
  BY ZenonT(60) DEF RunBegin, RunEnd
<1> HIDE DEF begins, ends
<1>6. Min(begins) \in begins
  BY ZenonT(60), <1>2, <1>3, MinOf
<1>7. Max(ends) \in ends
  BY ZenonT(60), <1>1, <1>a, <1>3, MaxOf
<1> QED BY ZenonT(60), <1>2, <1>4, <1>5, <1>6, <1>7

LEMMA SackBlockType ==
  ASSUME NEW g \in BufferType, NEW begin \in Int, NEW end \in Int
  PROVE  SackBlock(g, begin, end) \in SackType
<1> DEFINE x == g.rcv_nxt + begin - g.ready_bytes
           y == g.rcv_nxt + end - g.ready_bytes
<1>1. x \in Int /\ y \in Int /\ SeqModulus \in Nat \ {0}
  BY SpaceFacts DEF BufferType
<1> HIDE DEF x, y
<1>2. x % SeqModulus \in 0..(SeqModulus - 1) /\ y % SeqModulus \in 0..(SeqModulus - 1)
  BY ZenonT(60), <1>1, DivMod
<1>3. SackBlock(g, begin, end) = [left_edge |-> x % SeqModulus, right_edge |-> y % SeqModulus]
  BY ZenonT(60) DEF SackBlock, x, y
<1> QED BY SMT, <1>2, <1>3 DEF SackType

(* A segment's octets below the announced edge are taken and the buffer      *)
(* stays intact.                                                             *)
Taken(r, b, L, E) == /\ Intact(r.buf, L, E) /\ ~r.buf.fin_received
                     /\ r.buf.blocked = b.blocked
                     /\ b.ready_bytes <= r.buf.ready_bytes

LEMMA AcceptIntact ==
  ASSUME NEW b, NEW L \in Nat, NEW E \in Nat, Intact(b, L, E), ~b.fin_received,
         NEW data, NEW psh \in BOOLEAN, NEW left \in Nat, NEW acc \in Nat, NEW fresh,
         L + b.ready_bytes + acc < E,
         \A i \in fresh : i \in Nat /\ L + (b.ready_bytes + acc + i) < E,
         Freely(b, data, left + 1, b.ready_bytes + acc, fresh),
         \A i \in fresh : data[left + 1 + i] = L + (b.ready_bytes + acc + i)
  PROVE  Taken(Accept(b, data, psh, left, acc, fresh), b, L, E)
<1> DEFINE at == b.ready_bytes + acc
           f == Fill(b, data, left + 1, at, fresh)
           m == ReadyEnd(f)
           g == Advance(f, m)
           advanced == m - b.ready_bytes
           trigger == IF fresh = {} THEN acc ELSE acc + Min(fresh)
           h == IF acc > 0 /\ trigger > advanced THEN MarkSack(g, trigger, advanced) ELSE g
           immediate == \/ b.blocked \/ psh \/ acc > 0 \/ left # 0
                        \/ Cardinality(fresh) < Len(data) \/ advanced > Cardinality(fresh)
                        \/ b.delayed_ack_pending
           r == Accept(b, data, psh, left, acc, fresh)
<1>1. r.buf = [h EXCEPT !.delayed_ack_pending = ~immediate]
  BY ZenonT(60) DEF Accept
<1>2. b.ready_bytes \in 0..capacity /\ at \in Nat /\ capacity \in Nat /\ E <= L + capacity
  BY SpaceFacts DEF Intact, Ring, Window, BufferType
<1>3. Refilled(f, b, L, at, fresh)
  <2>1. L \in Int /\ Ring(b, L)
    BY DEF Intact
  <2> QED BY ZenonT(60), <2>1, FillRing
<1> HIDE DEF f
<1>4. /\ Intact(g, L, E) /\ ~g.fin_received /\ g.blocked = f.blocked
      /\ g.ready_bytes = m /\ m \in b.ready_bytes..capacity
  BY ZenonT(60), <1>2, <1>3, FillAdvance
<1>5. g.blocked = b.blocked
  BY ZenonT(60), <1>3, <1>4 DEF Refilled, SameButRing
<1> HIDE DEF g, m
<1>6. g \in BufferType
  BY ZenonT(60), <1>4 DEF Intact, Ring
<1>7. trigger \in Nat /\ L + b.ready_bytes + trigger < E
  <2>1. CASE fresh = {}
    BY <2>1
  <2>2. CASE fresh # {}
    <3>1. Min(fresh) \in fresh
      <4>1. fresh \subseteq Nat
        BY ZenonT(60)
      <4> QED BY ZenonT(60), <2>2, <4>1, MinOf
    <3>2. Min(fresh) \in Nat /\ L + (at + Min(fresh)) < E /\ trigger = acc + Min(fresh)
      BY ZenonT(60), <2>2, <3>1
    <3> QED BY <3>2, <1>2
  <2> QED BY ZenonT(60), <2>1, <2>2
<1> HIDE DEF trigger
<1>8. h \in BufferType /\ SameContent(h, g) /\ h.blocked = g.blocked
  <2>1. CASE ~(acc > 0 /\ trigger > advanced)
    BY ZenonT(60), <2>1, <1>6 DEF SameContent
  <2>2. CASE acc > 0 /\ trigger > advanced
    <3> DEFINE i == g.ready_bytes + trigger - advanced
               sack == SackBlock(g, RunBegin(g, i), RunEnd(g, i))
    <3>1. i \in Index /\ i >= g.ready_bytes
      BY <2>2, <1>2, <1>4, <1>7 DEF Index
    <3>2. h = [g EXCEPT !.recent_sack_valid = TRUE, !.recent_sack = sack]
      BY ZenonT(60), <2>2 DEF MarkSack
    <3> HIDE DEF i, h
    <3>3. RunBegin(g, i) \in Int /\ RunEnd(g, i) \in Int
      <4>1. RunBegin(g, i) \in 0..capacity /\ RunEnd(g, i) \in (i + 1)..capacity
        BY ZenonT(60), <3>1, <1>6, RunType
      <4> QED BY <4>1
    <3>4. sack \in SackType
      BY ZenonT(60), <3>3, <1>6, SackBlockType
    <3> HIDE DEF sack
    <3> QED BY <3>2, <3>4, <1>6 DEF BufferType, SameContent
  <2> QED BY ZenonT(60), <2>1, <2>2
<1> HIDE DEF h
<1>9. immediate \in BOOLEAN
  BY ZenonT(60)
<1> HIDE DEF immediate, r
<1>10. r.buf \in BufferType /\ SameContent(r.buf, h) /\ r.buf.blocked = h.blocked
  <2> DEFINE pending == ~immediate
  <2>1. pending \in BOOLEAN /\ r.buf = [h EXCEPT !.delayed_ack_pending = pending]
    BY ZenonT(60), <1>1, <1>9
  <2> HIDE DEF pending
  <2> QED BY <2>1, <1>8 DEF BufferType, SameContent
<1>11. SameContent(r.buf, g)
  BY ZenonT(60), <1>8, <1>10 DEF SameContent
<1>12. Intact(r.buf, L, E)
  BY ZenonT(60), <1>4, <1>10, <1>11, IntactSame
<1>13. r.buf.ready_bytes = m /\ ~r.buf.fin_received /\ r.buf.blocked = b.blocked
  BY ZenonT(60), <1>4, <1>5, <1>8, <1>10, <1>11 DEF SameContent
<1>14. b.ready_bytes <= m
  BY <1>2, <1>4
<1> QED BY ZenonT(60), <1>12, <1>13, <1>14 DEF Taken, r

(* OnSegment, for a segment of the client's stream near RCV.NXT.             *)
Segmented(r, b, L, E, position, n) ==
    /\ Taken(r, b, L, E) /\ r.accepted \in Nat
    /\ r.accepted > 0 => position < E /\ position + n > L + b.ready_bytes

LEMMA SegmentIntact ==
  ASSUME NEW b, NEW L \in Nat, NEW E \in Nat, Intact(b, L, E), ~b.fin_received,
         NEW position \in Nat, NEW n \in Nat, position + n <= MaxStream, NEW psh \in BOOLEAN,
         position - (L + b.ready_bytes) <= Half, (L + b.ready_bytes) - position <= Half
  PROVE  Segmented(OnSegment(b, SeqNo(position), [i \in 1..n |-> position + i - 1], psh),
                   b, L, E, position, n)
<1> DEFINE q == L + b.ready_bytes
           data == [i \in 1..n |-> position + i - 1]
           W == AcceptableWindow(b)
           begin == SequenceOffset(SeqNo(position), b.rcv_nxt)
           left == IF begin < 0 THEN Smaller(Len(data), -begin) ELSE 0
           acc == Larger(0, begin)
           candidates == Larger(0, Smaller(begin + Len(data), W) - acc)
           fresh == {i \in 0..(candidates - 1) : ~OccupiedAt(b, b.ready_bytes + acc + i)}
           refused == \/ Ambiguous(SeqNo(position), b.rcv_nxt)
                      \/ ~IsSequenceAcceptable(b, SeqNo(position), Len(data))
                      \/ candidates = 0
           r == OnSegment(b, SeqNo(position), data, psh)
<1>1. /\ W = E - q /\ E - q \in 0..(capacity - b.ready_bytes)
      /\ b.rcv_nxt = SeqNo(q) /\ q \in Nat
  BY ZenonT(60), AcceptableIs
<1>2. b \in BufferType /\ b.ready_bytes \in 0..capacity /\ capacity \in Nat /\ b.fin_received = FALSE
  <2>1. b \in BufferType
    BY DEF Intact, Ring
  <2> QED BY <2>1, SpaceFacts DEF BufferType
<1>3. Len(data) = n
  BY DEF data
<1>4. r = IF refused THEN [buf |-> [b EXCEPT !.delayed_ack_pending = FALSE], ack |-> "Immediate", accepted |-> 0]
          ELSE Accept(b, data, psh, left, acc, fresh)
  BY ZenonT(60) DEF OnSegment
<1>5. CASE refused
  <2>1. r = [buf |-> [b EXCEPT !.delayed_ack_pending = FALSE], ack |-> "Immediate", accepted |-> 0]
    BY ZenonT(60), <1>4, <1>5
  <2> HIDE DEF r
  <2>2. r.buf = [b EXCEPT !.delayed_ack_pending = FALSE] /\ r.accepted = 0
    BY <2>1
  <2>3. r.buf \in BufferType /\ SameContent(r.buf, b) /\ r.buf.blocked = b.blocked
    BY <2>2, <1>2 DEF BufferType, SameContent
  <2>4. Intact(r.buf, L, E)
    BY ZenonT(60), <2>3, IntactSame
  <2>5. r.buf.ready_bytes = b.ready_bytes /\ ~r.buf.fin_received
    BY ZenonT(60), <2>3 DEF SameContent
  <2>6. b.ready_bytes <= r.buf.ready_bytes /\ r.accepted \in Nat /\ ~(r.accepted > 0)
    BY <2>2, <2>5, <1>2
  <2> QED BY ZenonT(60), <2>3, <2>4, <2>5, <2>6 DEF Segmented, Taken, r
<1>6. CASE ~refused
  <2>1. r = Accept(b, data, psh, left, acc, fresh) /\ candidates # 0 /\ ~Ambiguous(SeqNo(position), b.rcv_nxt)
    BY ZenonT(60), <1>4, <1>6
  <2> HIDE DEF r, refused
  <2>2. begin = position - q /\ begin \in Int
    <3>a. position - q <= Half /\ q - position <= Half
      BY ZenonT(60)
    <3> HIDE DEF q, begin
    <3>b. position \in Int /\ q \in Int
      BY <1>1
    <3>1. position \in Int /\ q \in Int /\ position - q <= Half /\ q - position <= Half
      BY ZenonT(60), <3>a, <3>b
    <3>2. /\ Ambiguous(SeqNo(position), SeqNo(q)) <=> (position - q = Half \/ q - position = Half)
          /\ position - q < Half /\ q - position < Half => begin = position - q
      BY ZenonT(60), <1>1, <3>1, OffsetIs DEF begin
    <3>c. position - q # Half /\ q - position # Half
      BY ZenonT(60), <2>1, <1>1, <3>2
    <3>3. position - q < Half /\ q - position < Half
      BY <3>1, <3>c, SpaceFacts
    <3> QED BY <3>1, <3>2, <3>3
  <2> HIDE DEF q, W, begin
  <2>3. /\ candidates = Larger(0, Smaller(begin + n, W) - acc)
        /\ left = IF begin < 0 THEN Smaller(n, -begin) ELSE 0
    BY ZenonT(60), <1>3
  <2>4. /\ acc \in Nat /\ left \in Nat /\ candidates \in Nat /\ candidates > 0
        /\ acc + candidates <= W /\ begin + n > 0 /\ position + left = q + acc
        /\ left + candidates <= n /\ W \in Nat
    <3> HIDE DEF data, candidates, left
    <3>1. candidates = Larger(0, Smaller(begin + n, W) - acc) /\ acc = Larger(0, begin)
      BY ZenonT(60), <2>3
    <3>2. W \in Nat
      BY <1>1, <1>2
    <3> HIDE DEF acc
    <3> QED BY <2>1, <2>2, <2>3, <3>1, <3>2, <1>1 DEF Larger, Smaller
  <2>5. /\ fresh \subseteq 0..(candidates - 1)
        /\ \A i \in fresh : ~OccupiedAt(b, b.ready_bytes + acc + i)
    BY ZenonT(60)
  <2> HIDE DEF fresh, candidates, acc, left
  <2>6. \A i \in fresh : /\ i \in Nat /\ L + (b.ready_bytes + acc + i) < E
                         /\ b.ready_bytes + acc + i \in Index /\ i \in Index
                         /\ left + 1 + i \in 1..n
                         /\ position + (left + 1 + i) - 1 = L + (b.ready_bytes + acc + i)
                         /\ L + (b.ready_bytes + acc + i) \in 0..MaxStream
    <3> TAKE i \in fresh
    <3>1. i \in 0..(candidates - 1)
      BY ZenonT(60), <2>5
    <3>2. /\ W = E - q /\ q = L + b.ready_bytes /\ position + n <= MaxStream /\ MaxStream \in Nat
          /\ W <= capacity - b.ready_bytes
      BY <1>1, <1>2, SpaceFacts DEF q
    <3>3. i \in Nat /\ acc + i < W /\ left + i < n
      BY <3>1, <2>4
    <3>4. L + (b.ready_bytes + acc + i) < E
      BY <3>2, <3>3, <2>4, <1>2
    <3>5. b.ready_bytes + acc + i \in Index /\ i \in Index
      BY <3>2, <3>3, <2>4, <1>2 DEF Index
    <3>6. left + 1 + i \in 1..n
      BY <3>3, <2>4
    <3>7. position + (left + 1 + i) - 1 = L + (b.ready_bytes + acc + i)
      <4>1. /\ position + left = L + b.ready_bytes + acc /\ b.ready_bytes \in Int
            /\ left \in Int /\ acc \in Int /\ i \in Int
        BY <3>2, <3>3, <2>4, <1>2
      <4> QED BY ONLY <4>1, position \in Nat, L \in Nat
    <3>8. L + (b.ready_bytes + acc + i) \in 0..MaxStream
      BY <3>2, <3>3, <3>6, <3>7, <2>4, <1>2
    <3> QED BY ZenonT(60), <3>3, <3>4, <3>5, <3>6, <3>7, <3>8
  <2>7. \A i \in fresh : data[left + 1 + i] = L + (b.ready_bytes + acc + i)
    BY ZenonT(60), <2>6
  <2> HIDE DEF data
  <2>8. Freely(b, data, left + 1, b.ready_bytes + acc, fresh)
    <3>1. b.ready_bytes + acc \in Nat /\ left + 1 \in Nat
      BY <1>2, <2>4
    <3> QED BY ZenonT(60), <3>1, <2>5, <2>6, <2>7, HeldFinite DEF Freely
  <2>9. L + b.ready_bytes + acc < E
    BY <1>1, <1>2, <2>4 DEF q
  <2>10. Taken(r, b, L, E)
    BY ZenonT(60), <2>1, <2>4, <2>6, <2>7, <2>8, <2>9, AcceptIntact
  <2>11. r.accepted \in Nat
    <3>1. r.accepted = Cardinality(fresh)
      BY ZenonT(60), <2>1 DEF Accept
    <3>2. IsFiniteSet(0..(candidates - 1))
      BY <2>4, FS_Interval
    <3>3. Cardinality(fresh) \in Nat
      BY ZenonT(60), <2>5, <3>2, FS_Subset, FS_CardinalityType
    <3> QED BY ZenonT(60), <3>1, <3>3
  <2>12. position < E /\ position + n > L + b.ready_bytes
    BY <1>1, <1>2, <2>2, <2>4 DEF q
  <2> QED BY ZenonT(60), <2>10, <2>11, <2>12 DEF Segmented, r, data
<1> QED BY ZenonT(60), <1>5, <1>6

(* Freeing the first n octets moves every offset down by n.                  *)
LEMMA ConsumeIntact ==
  ASSUME NEW b, NEW L \in Nat, NEW E \in Nat, Intact(b, L, E), NEW n \in 0..b.ready_bytes
  PROVE  /\ Intact(ConsumeReady(b, n), L + n, E)
         /\ ConsumeReady(b, n).ready_bytes = b.ready_bytes - n
         /\ ConsumeReady(b, n).fin_received = b.fin_received
         /\ ConsumeReady(b, n).blocked = b.blocked
<1> DEFINE freed == {PhysicalIndex(b, i) : i \in 0..(n - 1)}
           occ == [p \in Index |-> b.occupied[p] /\ p \notin freed]
           start == PhysicalIndex(b, n)
           c == ConsumeReady(b, n)
<1>1. /\ b \in BufferType /\ b.ready_bytes \in 0..capacity /\ capacity \in Nat \ {0}
      /\ b.bytes_held = Cardinality(Held(b)) /\ b.first_index \in Index
      /\ n \in Nat /\ n <= capacity
  <2>1. b \in BufferType /\ b.bytes_held = Cardinality(Held(b))
    BY DEF Intact, Ring
  <2>2. b.ready_bytes \in 0..capacity /\ b.first_index \in Index
    BY <2>1 DEF BufferType
  <2> QED BY <2>1, <2>2, SpaceFacts
<1>2. occ \in [Index -> BOOLEAN]
  <2>1. \A p \in Index : b.occupied[p] \in BOOLEAN
    BY <1>1 DEF BufferType
  <2> QED BY ZenonT(60), <2>1
<1>3. start \in Index
  <2>1. n \in 0..capacity
    BY <1>1
  <2> QED BY ZenonT(60), <2>1, <1>1, PhysicalPlaces
<1>4. c = [b EXCEPT !.occupied = occ, !.first_index = start, !.bytes_held = b.bytes_held - n,
                    !.ready_bytes = b.ready_bytes - n]
  BY ZenonT(60) DEF ConsumeReady
<1>5. \A p \in Index : occ[p] = (b.occupied[p] /\ p \notin freed)
  BY ZenonT(60)
<1>6. \A i \in Index : i < n => PhysicalIndex(b, i) \in freed
  <2> TAKE i \in Index
  <2> HAVE i < n
  <2>1. i \in 0..(n - 1)
    BY <1>1 DEF Index
  <2> QED BY ZenonT(60), <2>1
<1>7. \A i \in Index : i >= n => PhysicalIndex(b, i) \notin freed
  <2> TAKE i \in Index
  <2> HAVE i >= n
  <2>1. \A j \in 0..(n - 1) : j \in Index /\ j # i
    BY <1>1 DEF Index
  <2>2. \A j \in 0..(n - 1) : PhysicalIndex(b, j) # PhysicalIndex(b, i)
    BY ZenonT(60), <2>1, <1>1, PhysicalPlaces
  <2> QED BY ZenonT(60), <2>2
<1> HIDE DEF occ, start, c, freed
<1>8. /\ c \in BufferType /\ c.ready_bytes = b.ready_bytes - n /\ c.bytes_held = b.bytes_held - n
      /\ c.occupied = occ /\ c.first_index = start /\ c.storage = b.storage
      /\ c.fin_received = b.fin_received /\ c.blocked = b.blocked
      /\ c.rcv_nxt = b.rcv_nxt /\ c.rcv_adv = b.rcv_adv
  <2>1. b.ready_bytes - n \in 0..capacity
    BY <1>1
  <2>2. b.bytes_held - n \in Int
    <3>1. b.bytes_held \in Int
      BY <1>1 DEF BufferType
    <3> QED BY <3>1, <1>1
  <2> QED BY <2>1, <2>2, <1>1, <1>2, <1>3, <1>4 DEF BufferType
<1>9. \A i \in Index : /\ i + n < capacity => i + n \in Index /\ PhysicalIndex(c, i) = PhysicalIndex(b, i + n)
                       /\ i + n >= capacity => /\ i + n - capacity \in Index /\ i + n - capacity < n
                                               /\ PhysicalIndex(c, i) = PhysicalIndex(b, i + n - capacity)
  <2> TAKE i \in Index
  <2>0. start = IF n < capacity - b.first_index THEN b.first_index + n ELSE n - (capacity - b.first_index)
    BY ZenonT(60) DEF start, PhysicalIndex
  <2>1. i + n < capacity => i + n \in Index /\ PhysicalIndex(c, i) = PhysicalIndex(b, i + n)
    BY <2>0, <1>1, <1>3, <1>8 DEF PhysicalIndex, Index
  <2>2. i + n >= capacity => /\ i + n - capacity \in Index /\ i + n - capacity < n
                             /\ PhysicalIndex(c, i) = PhysicalIndex(b, i + n - capacity)
    BY <2>0, <1>1, <1>3, <1>8 DEF PhysicalIndex, Index
  <2> QED BY ZenonT(60), <2>1, <2>2
<1>10. \A i \in Index : PhysicalIndex(b, i) \in Index
  <2>1. \A i \in Index : i \in 0..capacity
    BY <1>1 DEF Index
  <2> QED BY ZenonT(60), <2>1, <1>1, PhysicalPlaces
<1>11. \A i \in Index : /\ i + n < capacity => (OccupiedAt(c, i) <=> OccupiedAt(b, i + n))
                        /\ i + n >= capacity => ~OccupiedAt(c, i)
  <2> TAKE i \in Index
  <2>1. i + n >= n
    BY <1>1 DEF Index
  <2>2. i + n < capacity => (OccupiedAt(c, i) <=> OccupiedAt(b, i + n))
    BY ZenonT(60), <2>1, <1>5, <1>7, <1>8, <1>9, <1>10 DEF OccupiedAt
  <2>3. i + n >= capacity => ~OccupiedAt(c, i)
    BY ZenonT(60), <1>5, <1>6, <1>8, <1>9, <1>10 DEF OccupiedAt
  <2> QED BY ZenonT(60), <2>2, <2>3
<1>12. \A i \in Held(c) : i \in Index /\ i + n \in Held(b) /\ PhysicalIndex(c, i) = PhysicalIndex(b, i + n)
  <2> TAKE i \in Held(c)
  <2>1. i \in Index /\ OccupiedAt(c, i)
    BY ZenonT(60), HeldFinite
  <2>2. i + n < capacity \/ i + n >= capacity
    BY <2>1, <1>1 DEF Index
  <2> QED BY ZenonT(60), <2>1, <2>2, <1>9, <1>11, HeldFinite
<1>13. \A i \in Index : i + n \in Held(b) => i \in Held(c)
  <2> TAKE i \in Index
  <2> HAVE i + n \in Held(b)
  <2>1. i + n \in Index /\ OccupiedAt(b, i + n)
    BY ZenonT(60), HeldFinite
  <2>2. i + n < capacity
    BY <2>1, <1>1 DEF Index
  <2> QED BY ZenonT(60), <2>1, <2>2, <1>11, HeldFinite
<1>14. Ring(c, L + n)
  <2>1. \A i \in Held(c) : c.storage[PhysicalIndex(c, i)] = L + n + i
    <3> TAKE i \in Held(c)
    <3>1. c.storage[PhysicalIndex(c, i)] = L + (i + n) /\ i \in Index
      BY ZenonT(60), <1>8, <1>12 DEF Intact, Ring
    <3> QED BY <3>1, <1>1 DEF Index
  <2>2. c.bytes_held = Cardinality(Held(c))
    <3> DEFINE low == 0..(n - 1)
               high == {n + i : i \in Held(c)}
    <3>1. \A j \in Held(b) : j \in low \/ j \in high
      <4> TAKE j \in Held(b)
      <4>1. j \in Index
        BY ZenonT(60), HeldFinite
      <4>2. CASE j < n
        BY <4>1, <4>2, <1>1 DEF Index
      <4>3. CASE j >= n
        <5>1. j - n \in Index /\ (j - n) + n = j /\ n + (j - n) = j
          BY <4>1, <4>3, <1>1 DEF Index
        <5>2. j - n \in Held(c)
          BY ZenonT(60), <5>1, <1>13
        <5> QED BY ZenonT(60), <5>1, <5>2
      <4>4. j < n \/ j >= n
        BY <4>1, <1>1 DEF Index
      <4> QED BY ZenonT(60), <4>2, <4>3, <4>4
    <3>2. \A j \in low : j \in Held(b)
      <4> TAKE j \in low
      <4>1. j \in 0..(b.ready_bytes - 1)
        BY <1>1
      <4> QED BY ZenonT(60), <4>1 DEF Intact, Prefix
    <3>3. \A j \in high : j \in Held(b) /\ j \notin low
      <4> TAKE j \in high
      <4>1. PICK i \in Held(c) : j = n + i
        BY ZenonT(60)
      <4>2. i \in Index /\ i + n \in Held(b)
        BY ZenonT(60), <1>12
      <4>3. i + n = j /\ j \notin low
        BY <4>1, <4>2, <1>1 DEF Index
      <4> QED BY ZenonT(60), <4>2, <4>3
    <3>4. IsFiniteSet(low) /\ Cardinality(low) = n
      BY ZenonT(60), <1>1, BelowCount
    <3>5. IsFiniteSet(high) /\ Cardinality(high) = Cardinality(Held(c)) /\ Cardinality(Held(c)) \in Nat
      <4>1. IsFiniteSet(Held(c)) /\ Held(c) \subseteq Int /\ n \in Int /\ Cardinality(Held(c)) \in Nat
        BY <1>1, HeldFinite DEF Index
      <4> QED BY ZenonT(60), <4>1, ShiftCount
    <3> HIDE DEF low, high
    <3>6. Held(b) = low \cup high /\ low \cap high = {}
      BY ZenonT(60), <3>1, <3>2, <3>3
    <3>7. Cardinality(low \cup high) = Cardinality(low) + Cardinality(high) - Cardinality(low \cap high)
      BY ZenonT(60), <3>4, <3>5, FS_Union
    <3>8. Cardinality(low \cap high) = 0
      BY ZenonT(60), <3>6, FS_EmptySet
    <3>9. Cardinality(Held(b)) = n + Cardinality(Held(c)) - 0
      BY ZenonT(60), <3>4, <3>5, <3>6, <3>7, <3>8
    <3> QED BY <3>5, <3>9, <1>1, <1>8
  <2> QED BY ZenonT(60), <2>1, <2>2, <1>8 DEF Ring
<1>15. Prefix(c)
  <2>1. \A i \in 0..(c.ready_bytes - 1) : i \in Held(c)
    <3> TAKE i \in 0..(c.ready_bytes - 1)
    <3>1. i \in Index /\ i + n \in 0..(b.ready_bytes - 1)
      BY <1>1, <1>8 DEF Index
    <3>2. i + n \in Held(b)
      BY ZenonT(60), <3>1 DEF Intact, Prefix
    <3> QED BY ZenonT(60), <3>1, <3>2, <1>13
  <2>2. c.ready_bytes < capacity => c.ready_bytes \notin Held(c)
    <3> SUFFICES ASSUME c.ready_bytes \in Held(c) PROVE FALSE
      BY ZenonT(60)
    <3>1. c.ready_bytes + n \in Held(b) /\ c.ready_bytes + n \in Index
      BY ZenonT(60), <1>12, HeldFinite
    <3>2. c.ready_bytes + n = b.ready_bytes /\ b.ready_bytes < capacity
      BY <3>1, <1>1, <1>8 DEF Index
    <3> QED BY ZenonT(60), <3>1, <3>2 DEF Intact, Prefix
  <2> QED BY ZenonT(60), <2>1, <2>2 DEF Prefix
<1>16. (L + n) + c.ready_bytes = L + b.ready_bytes
  BY <1>1, <1>8
<1>17. Numbered(c, L + n) /\ Ended(c, L + n)
  BY ZenonT(60), <1>8, <1>16 DEF Intact, Numbered, Ended
<1>18. Window(c, L + n, E)
  <2> SUFFICES ASSUME ~c.fin_received
               PROVE  /\ c.rcv_adv = SeqNo(E)
                      /\ (L + n) + c.ready_bytes <= E /\ E <= (L + n) + capacity
                      /\ \A i \in Held(c) : L + n + i < E
    BY ZenonT(60) DEF Window
  <2>1. /\ c.rcv_adv = SeqNo(E) /\ L + b.ready_bytes <= E /\ E <= L + capacity
        /\ \A i \in Held(b) : L + i < E
    BY ZenonT(60), <1>8 DEF Intact, Window
  <2>2. E <= (L + n) + capacity
    BY <2>1, <1>1
  <2>3. \A i \in Held(c) : L + n + i < E
    <3> TAKE i \in Held(c)
    <3>1. L + (i + n) < E /\ i \in Index
      BY ZenonT(60), <2>1, <1>12
    <3> QED BY <3>1, <1>1 DEF Index
  <2> QED BY ZenonT(60), <2>1, <2>2, <2>3, <1>16
<1> QED BY ZenonT(60), <1>8, <1>14, <1>15, <1>17, <1>18 DEF Intact, c

(* What a drain hands to the session: the octets in order, and a session     *)
(* that would take more stays on the delivery list.                          *)
Handed(o, b, L, E) ==
    \E n \in 0..b.ready_bytes :
        /\ Intact(o.buf, L + n, E)
        /\ o.buf.ready_bytes = b.ready_bytes - n /\ o.buf.fin_received = b.fin_received
        /\ o.octets \in Seq(0..MaxStream) /\ Len(o.octets) = n
        /\ \A i \in 1..n : o.octets[i] = L + (i - 1)
        /\ o.session \in {"none", "bound"} /\ o.pending \in BOOLEAN
        /\ o.buf.ready_bytes > 0 /\ o.session = "bound" /\ ~o.buf.blocked => o.pending

LEMMA ResultsType ==
  ASSUME NEW b \in BufferType, NEW r \in DeliveryResults(b)
  PROVE  /\ r.octets \in 0..b.ready_bytes
         /\ r.status \in {"WouldBlock", "Closed", "Error", "Drained", "BudgetExhausted"}
         /\ r.status = "Drained" => r.octets = b.ready_bytes
<1>1. /\ b.ready_bytes \in 0..capacity /\ b.first_index \in Index /\ capacity \in Nat \ {0}
      /\ CallBudget \in Nat \ {0}
  BY ReceiveAssumption DEF BufferType
<1> DEFINE reach == IF CallBudget = 1 THEN Smaller(b.ready_bytes, capacity - b.first_index)
                    ELSE b.ready_bytes
<1>2. reach \in 0..b.ready_bytes
  BY <1>1 DEF Smaller, Index
<1>3. \/ r = [octets |-> 0, status |-> "Closed"]
      \/ r \in [octets : 0..reach, status : {"WouldBlock", "Closed", "Error"}]
      \/ r \in [octets : {b.ready_bytes} \cap 0..reach, status : {"Drained"}]
      \/ r \in [octets : CallBudget..Smaller(reach, b.ready_bytes - 1), status : {"BudgetExhausted"}]
  BY ZenonT(60) DEF DeliveryResults
<1> HIDE DEF reach
<1>4. CASE r = [octets |-> 0, status |-> "Closed"]
  BY <1>1, <1>4
<1>5. CASE r \in [octets : 0..reach, status : {"WouldBlock", "Closed", "Error"}]
  BY <1>1, <1>2, <1>5
<1>6. CASE r \in [octets : {b.ready_bytes} \cap 0..reach, status : {"Drained"}]
  BY <1>1, <1>2, <1>6
<1>7. CASE r \in [octets : CallBudget..Smaller(reach, b.ready_bytes - 1), status : {"BudgetExhausted"}]
  BY <1>1, <1>2, <1>7 DEF Smaller
<1> QED BY ZenonT(60), <1>3, <1>4, <1>5, <1>6, <1>7

LEMMA DrainIntact ==
  ASSUME NEW b, NEW L \in Nat, NEW E \in Nat, Intact(b, L, E),
         NEW s \in {"none", "bound"}, delivery_pending \in BOOLEAN,
         NEW o \in DrainSession(b, s)
  PROVE  Handed(o, b, L, E)
<1>1. b \in BufferType /\ b.ready_bytes \in 0..capacity /\ capacity \in Nat \ {0}
  <2>1. b \in BufferType
    BY DEF Intact, Ring
  <2> QED BY <2>1, SpaceFacts DEF BufferType
<1>2. CASE s = "none" \/ b.ready_bytes = 0 \/ b.blocked
  <2>1. o = [buf |-> b, session |-> s, pending |-> delivery_pending, octets |-> << >>]
    BY ZenonT(60), <1>2 DEF DrainSession, Untouched
  <2>2. o.buf = b /\ o.session = s /\ o.pending = delivery_pending /\ o.octets = << >>
    BY <2>1
  <2>3. 0 \in 0..b.ready_bytes /\ L + 0 = L /\ b.ready_bytes - 0 = b.ready_bytes
    BY <1>1
  <2>4. o.octets \in Seq(0..MaxStream) /\ Len(o.octets) = 0 /\ \A i \in 1..0 : o.octets[i] = L + (i - 1)
    BY <2>2
  <2>5. ~(o.buf.ready_bytes > 0 /\ o.session = "bound" /\ ~o.buf.blocked)
    BY <1>1, <1>2, <2>2
  <2> QED BY ZenonT(60), <2>2, <2>3, <2>4, <2>5 DEF Handed
<1>3. CASE ~(s = "none" \/ b.ready_bytes = 0 \/ b.blocked)
  <2>1. PICK r \in DeliveryResults(b) :
          o = [buf |-> [ConsumeReady(b, r.octets) EXCEPT
                          !.blocked = IF r.status = "BudgetExhausted" THEN @ ELSE r.status # "Drained"],
               session |-> IF r.status \in {"Closed", "Error"} THEN "none" ELSE s,
               pending |-> r.status = "BudgetExhausted",
               octets  |-> [i \in 1..r.octets |-> b.storage[PhysicalIndex(b, i - 1)]]]
    BY ZenonT(60), <1>3 DEF DrainSession
  <2> DEFINE n == r.octets
             c == ConsumeReady(b, n)
             blocked == IF r.status = "BudgetExhausted" THEN c.blocked ELSE r.status # "Drained"
  <2>2. /\ n \in 0..b.ready_bytes
        /\ r.status \in {"WouldBlock", "Closed", "Error", "Drained", "BudgetExhausted"}
        /\ r.status = "Drained" => n = b.ready_bytes
    BY ZenonT(60), <1>1, ResultsType
  <2>3. /\ o.buf = [c EXCEPT !.blocked = blocked]
        /\ o.session = IF r.status \in {"Closed", "Error"} THEN "none" ELSE s
        /\ o.pending = (r.status = "BudgetExhausted")
        /\ o.octets = [i \in 1..n |-> b.storage[PhysicalIndex(b, i - 1)]]
    BY <2>1
  <2>4. /\ Intact(c, L + n, E) /\ c.ready_bytes = b.ready_bytes - n
        /\ c.fin_received = b.fin_received /\ c.blocked = b.blocked
    BY ZenonT(60), <2>2, ConsumeIntact
  <2> HIDE DEF c, n
  <2>5. c \in BufferType
    BY ZenonT(60), <2>4 DEF Intact, Ring
  <2>6. blocked \in BOOLEAN
    <3>1. c.blocked \in BOOLEAN
      BY <2>5 DEF BufferType
    <3> QED BY ZenonT(60), <3>1
  <2> HIDE DEF blocked
  <2>7. o.buf \in BufferType /\ SameContent(o.buf, c) /\ o.buf.blocked = blocked
    BY <2>3, <2>5, <2>6 DEF BufferType, SameContent
  <2>8. Intact(o.buf, L + n, E)
    BY ZenonT(60), <2>4, <2>7, IntactSame
  <2>9. o.buf.ready_bytes = b.ready_bytes - n /\ o.buf.fin_received = b.fin_received
    BY ZenonT(60), <2>4, <2>7 DEF SameContent
  <2>10. \A i \in 1..n : /\ o.octets[i] = L + (i - 1)
                         /\ b.storage[PhysicalIndex(b, i - 1)] \in 0..MaxStream
    <3> TAKE i \in 1..n
    <3>1. i - 1 \in 0..(b.ready_bytes - 1) /\ i - 1 \in 0..capacity
      BY <1>1, <2>2
    <3>2. i - 1 \in Held(b) /\ PhysicalIndex(b, i - 1) \in Index
      BY ZenonT(60), <1>1, <3>1, PhysicalPlaces DEF Intact, Prefix
    <3>3. b.storage[PhysicalIndex(b, i - 1)] = L + (i - 1)
      BY ZenonT(60), <3>2 DEF Intact, Ring
    <3>4. b.storage[PhysicalIndex(b, i - 1)] \in 0..MaxStream
      BY <1>1, <3>2 DEF BufferType
    <3> QED BY ZenonT(60), <2>3, <3>3, <3>4
  <2>11. o.octets \in Seq(0..MaxStream) /\ Len(o.octets) = n
    <3>1. n \in Nat
      BY <1>1, <2>2
    <3>2. o.octets \in [1..n -> 0..MaxStream]
      BY ZenonT(60), <2>3, <2>10
    <3> QED BY ZenonT(60), <3>1, <3>2, FunctionSeq
  <2>12. o.session \in {"none", "bound"} /\ o.pending \in BOOLEAN
    BY <2>3
  <2>13. o.buf.ready_bytes > 0 /\ o.session = "bound" /\ ~o.buf.blocked => o.pending
    <3>1. r.status = "Drained" => ~(o.buf.ready_bytes > 0)
      BY <2>2, <2>9, <1>1
    <3>2. r.status = "WouldBlock" => o.buf.blocked
      BY <2>7 DEF blocked
    <3>3. r.status \in {"Closed", "Error"} => o.session # "bound"
      BY <2>3
    <3>4. r.status = "BudgetExhausted" => o.pending
      BY <2>3
    <3> QED BY ZenonT(60), <2>2, <3>1, <3>2, <3>3, <3>4
  <2> QED BY ZenonT(60), <2>2, <2>8, <2>9, <2>10, <2>11, <2>12, <2>13 DEF Handed
<1> QED BY ZenonT(60), <1>2, <1>3

(* The client's FIN takes one sequence number.                               *)
LEMMA FinIntact ==
  ASSUME NEW b, NEW L \in Nat, NEW E \in Nat, Intact(b, L, E), ~b.fin_received,
         L + b.ready_bytes = MaxStream
  PROVE  /\ Intact(ConsumeFin(b), L, E) /\ ConsumeFin(b).ready_bytes = b.ready_bytes
         /\ ConsumeFin(b).blocked = b.blocked /\ ConsumeFin(b).fin_received = TRUE
<1> DEFINE c == ConsumeFin(b)
           nxt == (b.rcv_nxt + 1) % SeqModulus
           q == L + b.ready_bytes
<1>1. b.rcv_nxt = SeqNo(q) /\ q \in Nat
  BY ZenonT(60), AcceptableIs
<1> HIDE DEF q
<1>2. nxt = SeqNo(q + 1) /\ nxt \in 0..(SeqModulus - 1)
  <2>1. q \in Int /\ 1 \in Int /\ q + 1 \in Int
    BY <1>1
  <2> QED BY ZenonT(60), <2>1, <1>1, SeqNoAdd, SeqNoType
<1>3. c = [b EXCEPT !.rcv_nxt = nxt, !.fin_received = TRUE]
  BY ZenonT(60) DEF ConsumeFin
<1> HIDE DEF c, nxt
<1>4. b \in BufferType
  BY DEF Intact, Ring
<1>5. /\ c \in BufferType /\ c.storage = b.storage /\ c.occupied = b.occupied
      /\ c.first_index = b.first_index /\ c.ready_bytes = b.ready_bytes
      /\ c.bytes_held = b.bytes_held /\ c.rcv_nxt = nxt /\ c.fin_received = TRUE
      /\ c.blocked = b.blocked
  BY <1>2, <1>3, <1>4 DEF BufferType
<1>6. Held(c) = Held(b) /\ \A i : PhysicalIndex(c, i) = PhysicalIndex(b, i)
  BY ZenonT(60), <1>5, SameHeld
<1>7. Ring(c, L) /\ Prefix(c)
  BY ZenonT(60), <1>5, <1>6 DEF Intact, Ring, Prefix
<1>8. Numbered(c, L) /\ Ended(c, L) /\ Window(c, L, E)
  BY ZenonT(60), <1>2, <1>5 DEF Numbered, Ended, Window, q
<1> QED BY ZenonT(60), <1>5, <1>7, <1>8 DEF Intact, c

(* The octets held are at least those ready and at most the capacity.        *)
LEMMA BytesHeld ==
  ASSUME NEW b, NEW L, NEW E, Intact(b, L, E)
  PROVE  b.bytes_held \in b.ready_bytes..capacity /\ b.ready_bytes \in 0..capacity
<1>1. b.ready_bytes \in Nat /\ b.ready_bytes \in 0..capacity /\ b.bytes_held = Cardinality(Held(b))
  BY SpaceFacts DEF Intact, Ring, BufferType
<1> DEFINE low == 0..(b.ready_bytes - 1)
<1>2. IsFiniteSet(low) /\ Cardinality(low) = b.ready_bytes
  BY ZenonT(60), <1>1, BelowCount
<1>3. low \subseteq Held(b)
  BY ZenonT(60) DEF Intact, Prefix
<1> HIDE DEF low
<1>4. IsFiniteSet(Held(b)) /\ Cardinality(Held(b)) \in 0..capacity
  BY ZenonT(60), HeldFinite
<1>5. Cardinality(low) <= Cardinality(Held(b))
  BY ZenonT(60), <1>3, <1>4, FS_Subset
<1> QED BY <1>1, <1>2, <1>4, <1>5, SpaceFacts

(* The window that the scaled field of the header can say is no larger than  *)
(* the one that is free.                                                     *)
LEMMA WireWindowFits ==
  ASSUME NEW a \in Nat
  PROVE  WireWindow(a) \in 0..a
<1>1. WindowUnit \in Nat \ {0} /\ MaxWireWindow \in Nat
  BY ReceiveAssumption
<1> DEFINE d == a \div WindowUnit
<1>2. PICK m \in Nat : d \in Int /\ a = WindowUnit * d + m
  <2>1. a \in Int
    OBVIOUS
  <2>2. d \in Int /\ a % WindowUnit \in 0..(WindowUnit - 1) /\ a = WindowUnit * d + (a % WindowUnit)
    BY ZenonT(60), <1>1, <2>1, DivMod
  <2>3. a % WindowUnit \in Nat
    BY <1>1, <2>2
  <2> QED BY ZenonT(60), <2>2, <2>3
<1>3. d >= 0
  BY <1>1
<1> DEFINE k == Smaller(d, MaxWireWindow)
<1>4. k \in Nat /\ d - k \in Nat
  <2> HIDE DEF d
  <2> QED BY <1>1, <1>2, <1>3 DEF Smaller
<1>5. WireWindow(a) = WindowUnit * k
  BY ZenonT(60) DEF WireWindow
<1> HIDE DEF d, k
<1>6. WindowUnit * k \in Nat /\ WindowUnit * (d - k) \in Nat
  BY <1>1, <1>4
<1>7. WindowUnit * d = WindowUnit * k + WindowUnit * (d - k)
  BY <1>1, <1>2, <1>4
<1> QED BY <1>2, <1>5, <1>6, <1>7

(* An ACK announces the free part of the ring and moves rcv_adv_ with it.    *)
Announced(b) == [RecordAdvertisedWindow(b, WireWindow(AdvertisedWindow(b)))
                   EXCEPT !.delayed_ack_pending = FALSE]
Position(b, L) == L + b.ready_bytes + (IF b.fin_received THEN 1 ELSE 0)
Edge(b, L, E) == Larger(E, Position(b, L) + WireWindow(AdvertisedWindow(b)))

LEMMA AckIntact ==
  ASSUME NEW b, NEW L \in Nat, NEW E \in Nat, Intact(b, L, E)
  PROVE  /\ Intact(Announced(b), L, Edge(b, L, E)) /\ Edge(b, L, E) \in Nat
         /\ Announced(b).ready_bytes = b.ready_bytes /\ Announced(b).blocked = b.blocked
         /\ Announced(b).fin_received = b.fin_received /\ Position(b, L) \in Nat
<1> DEFINE w == WireWindow(AdvertisedWindow(b))
           u == Smaller(w, capacity - b.ready_bytes)
           cand == (b.rcv_nxt + u) % SeqModulus
           moves == ~Ambiguous(cand, b.rcv_adv) /\ SequenceOffset(cand, b.rcv_adv) > 0
           adv == IF moves THEN cand ELSE b.rcv_adv
           c == Announced(b)
           E2 == Edge(b, L, E)
           q == Position(b, L)
<1>1. /\ b \in BufferType /\ b.ready_bytes \in 0..capacity /\ capacity \in Nat
      /\ b.bytes_held \in b.ready_bytes..capacity
      /\ b.rcv_nxt \in 0..(SeqModulus - 1) /\ b.rcv_adv \in 0..(SeqModulus - 1)
      /\ b.fin_received \in BOOLEAN
  <2>1. b \in BufferType
    BY DEF Intact, Ring
  <2>2. b.bytes_held \in b.ready_bytes..capacity /\ b.ready_bytes \in 0..capacity
    BY ZenonT(60), BytesHeld
  <2>3. /\ b.rcv_nxt \in 0..(SeqModulus - 1) /\ b.rcv_adv \in 0..(SeqModulus - 1)
        /\ b.fin_received \in BOOLEAN /\ capacity \in Nat
    BY <2>1, SpaceFacts DEF BufferType
  <2> QED BY ZenonT(60), <2>1, <2>2, <2>3
<1>2. w \in 0..(capacity - b.ready_bytes) /\ w \in Nat
  <2> DEFINE a == AdvertisedWindow(b)
  <2>1. a \in 0..(capacity - b.ready_bytes) /\ a \in Nat
    BY <1>1 DEF AdvertisedWindow
  <2> HIDE DEF a
  <2>2. WireWindow(a) \in 0..a
    BY ZenonT(60), <2>1, WireWindowFits
  <2>3. w = WireWindow(a)
    BY ZenonT(60) DEF a
  <2> HIDE DEF w
  <2> QED BY <1>1, <2>1, <2>2, <2>3
<1>3. c = [b EXCEPT !.rcv_adv = adv, !.delayed_ack_pending = FALSE]
  <2>1. RecordAdvertisedWindow(b, w) = IF moves THEN [b EXCEPT !.rcv_adv = cand] ELSE b
    BY ZenonT(60) DEF RecordAdvertisedWindow
  <2>2. c = [RecordAdvertisedWindow(b, w) EXCEPT !.delayed_ack_pending = FALSE]
    BY ZenonT(60) DEF Announced
  <2> HIDE DEF moves, cand, w, c
  <2>3. CASE moves
    <3>1. c = [[b EXCEPT !.rcv_adv = cand] EXCEPT !.delayed_ack_pending = FALSE] /\ adv = cand
      BY ZenonT(60), <2>1, <2>2, <2>3
    <3> HIDE DEF adv
    <3> QED BY <3>1
  <2>4. CASE ~moves
    <3>1. c = [b EXCEPT !.delayed_ack_pending = FALSE] /\ adv = b.rcv_adv
      BY ZenonT(60), <2>1, <2>2, <2>4
    <3> HIDE DEF adv
    <3> QED BY <3>1, <1>1 DEF BufferType
  <2> QED BY ZenonT(60), <2>3, <2>4
<1> HIDE DEF w
<1>4. u = w /\ u \in Nat
  BY <1>1, <1>2 DEF Smaller
<1> HIDE DEF u
<1>5. cand \in 0..(SeqModulus - 1)
  <2>1. b.rcv_nxt + u \in Int /\ SeqModulus \in Nat \ {0}
    BY <1>1, <1>4, SpaceFacts
  <2> QED BY ZenonT(60), <2>1, DivMod
<1>6. adv \in 0..(SeqModulus - 1)
  BY ZenonT(60), <1>1, <1>5
<1>7. q \in Nat /\ q + w \in Nat /\ b.rcv_nxt = SeqNo(q) /\ E2 = Larger(E, q + w) /\ E2 \in Nat
  <2>1. q \in Nat /\ q + w \in Nat
    BY <1>1, <1>2 DEF Position
  <2>2. b.rcv_nxt = SeqNo(q)
    BY ZenonT(60) DEF Intact, Numbered, Position
  <2>3. E2 = Larger(E, q + w)
    BY ZenonT(60) DEF Edge, w
  <2> HIDE DEF q, E2
  <2>4. E2 \in Nat
    BY <2>1, <2>3 DEF Larger
  <2> QED BY ZenonT(60), <2>1, <2>2, <2>3, <2>4
<1>8. cand = SeqNo(q + w)
  <2>1. q \in Int /\ w \in Int
    BY <1>2, <1>7
  <2> QED BY ZenonT(60), <2>1, <1>4, <1>7, SeqNoAdd
<1>9. ~b.fin_received => /\ b.rcv_adv = SeqNo(E) /\ q <= E /\ E <= L + capacity
                         /\ q = L + b.ready_bytes /\ \A i \in Held(b) : L + i < E
  <2> SUFFICES ASSUME ~b.fin_received
               PROVE  /\ b.rcv_adv = SeqNo(E) /\ q <= E /\ E <= L + capacity
                      /\ q = L + b.ready_bytes /\ \A i \in Held(b) : L + i < E
    BY ZenonT(60)
  <2>1. /\ b.rcv_adv = SeqNo(E) /\ L + b.ready_bytes <= E /\ E <= L + capacity
        /\ \A i \in Held(b) : L + i < E
    BY ZenonT(60) DEF Intact, Window
  <2>2. q = L + b.ready_bytes + 0
    BY ZenonT(60) DEF Position
  <2>3. q = L + b.ready_bytes
    <3> HIDE DEF q
    <3> QED BY <2>2, <1>1
  <2> QED BY ZenonT(60), <2>1, <2>3
<1> HIDE DEF q, E2, cand
<1>10. ~b.fin_received => /\ adv = SeqNo(E2) /\ q <= E2 /\ E2 <= L + capacity
                          /\ \A i \in Held(b) : L + i < E2
  <2> SUFFICES ASSUME ~b.fin_received
               PROVE  /\ adv = SeqNo(E2) /\ q <= E2 /\ E2 <= L + capacity
                      /\ \A i \in Held(b) : L + i < E2
    BY ZenonT(60)
  <2> DEFINE p == q + w
  <2>1. /\ p \in Int /\ E \in Int /\ p - E <= Half /\ E - p <= Half /\ p - E < Half /\ E - p < Half
        /\ p - E # Half /\ E - p # Half /\ p <= L + capacity
    BY <1>1, <1>2, <1>7, <1>9, SpaceFacts
  <2> HIDE DEF p
  <2>2. ~Ambiguous(SeqNo(p), SeqNo(E)) /\ SequenceOffset(SeqNo(p), SeqNo(E)) = p - E
    BY ZenonT(60), <2>1, OffsetIs
  <2>3. moves <=> p - E > 0
    BY ZenonT(60), <2>2, <1>8, <1>9 DEF p
  <2> HIDE DEF moves
  <2>4. E2 = Larger(E, p)
    BY ZenonT(60), <1>7 DEF p
  <2>5. adv = SeqNo(E2)
    <3>1. CASE p - E > 0
      <4>1. E2 = p
        BY <3>1, <2>1, <2>4 DEF Larger
      <4> QED BY ZenonT(60), <3>1, <4>1, <2>3, <1>8 DEF p
    <3>2. CASE ~(p - E > 0)
      <4>1. E2 = E
        BY <3>2, <2>1, <2>4 DEF Larger
      <4> QED BY ZenonT(60), <3>2, <4>1, <2>3, <1>9
    <3> QED BY ZenonT(60), <3>1, <3>2
  <2>6. E2 >= E /\ E2 \in Int /\ E2 <= L + capacity
    BY <1>1, <1>9, <2>1, <2>4 DEF Larger
  <2>7. q <= E2
    BY <1>7, <1>9, <2>6
  <2>8. \A i \in Held(b) : L + i < E2
    <3> TAKE i \in Held(b)
    <3>1. L + i < E /\ i \in Index
      BY ZenonT(60), <1>9, HeldFinite
    <3> QED BY <3>1, <2>6, <1>1 DEF Index
  <2> QED BY ZenonT(60), <2>5, <2>6, <2>7, <2>8
<1> HIDE DEF adv, c
<1>11. /\ c \in BufferType /\ c.storage = b.storage /\ c.occupied = b.occupied
       /\ c.first_index = b.first_index /\ c.ready_bytes = b.ready_bytes
       /\ c.bytes_held = b.bytes_held /\ c.rcv_nxt = b.rcv_nxt /\ c.rcv_adv = adv
       /\ c.fin_received = b.fin_received /\ c.blocked = b.blocked
  BY <1>1, <1>3, <1>6 DEF BufferType
<1>12. Held(c) = Held(b) /\ \A i : PhysicalIndex(c, i) = PhysicalIndex(b, i)
  BY ZenonT(60), <1>11, SameHeld
<1>13. Ring(c, L) /\ Prefix(c) /\ Numbered(c, L) /\ Ended(c, L)
  <2>1. Ring(c, L) /\ Prefix(c)
    BY ZenonT(60), <1>11, <1>12 DEF Intact, Ring, Prefix
  <2>2. Numbered(c, L) /\ Ended(c, L)
    BY ZenonT(60), <1>11 DEF Intact, Numbered, Ended
  <2> QED BY ZenonT(60), <2>1, <2>2
<1>14. Window(c, L, E2)
  BY ZenonT(60), <1>9, <1>10, <1>11, <1>12 DEF Window
<1>15. Intact(c, L, E2)
  BY ZenonT(60), <1>13, <1>14 DEF Intact
<1> QED BY ZenonT(60), <1>7, <1>11, <1>15 DEF c, E2, q

-----------------------------------------------------------------------------
(* The inductive invariant. *)

Stream(d) == d \in Seq(0..MaxStream) /\ \A i \in 1..Len(d) : d[i] = i - 1

(* A buffer b, a history d, a session s and its place on the delivery list   *)
(* that a step may leave behind when the announced edge is E.                *)
After(b, d, s, pending, E) ==
    /\ Stream(d) /\ Intact(b, Len(d), E)
    /\ s \in {"none", "bound"} /\ pending \in BOOLEAN
    /\ b.ready_bytes > 0 /\ s = "bound" /\ ~b.blocked => pending

Flags == write_shutdown \in BOOLEAN /\ close_flow \in BOOLEAN /\ ack_timer \in BOOLEAN
Edges == last_ack \in Nat /\ ack_edge \in Nat /\ data_edge \in Nat

IInv == After(buf, delivered, session, delivery_pending, ack_edge) /\ Flags /\ Edges

LEMMA StreamLen ==
  ASSUME NEW d, Stream(d)
  PROVE  Len(d) \in Nat
BY DEF Stream

LEMMA StreamAppend ==
  ASSUME NEW d, Stream(d), NEW e \in Seq(0..MaxStream),
         \A i \in 1..Len(e) : e[i] = Len(d) + (i - 1)
  PROVE  Stream(d \o e) /\ Len(d \o e) = Len(d) + Len(e)
<1>1. d \in Seq(0..MaxStream) /\ d \o e \in Seq(0..MaxStream) /\ Len(d \o e) = Len(d) + Len(e)
  BY DEF Stream
<1>2. Len(d) \in Nat /\ Len(e) \in Nat
  BY <1>1
<1>3. \A i \in 1..Len(d \o e) : (d \o e)[i] = i - 1
  <2> TAKE i \in 1..Len(d \o e)
  <2>1. CASE i <= Len(d)
    <3>1. (d \o e)[i] = d[i] /\ i \in 1..Len(d)
      BY <1>1, <1>2, <2>1
    <3> QED BY ZenonT(60), <3>1 DEF Stream
  <2>2. CASE i > Len(d)
    <3>1. (d \o e)[i] = e[i - Len(d)] /\ i - Len(d) \in 1..Len(e) /\ i \in Int
      BY <1>1, <1>2, <2>2
    <3>2. (d \o e)[i] = Len(d) + (i - Len(d) - 1)
      BY ZenonT(60), <3>1
    <3> QED BY <3>1, <3>2, <1>2
  <2>3. i <= Len(d) \/ i > Len(d)
    BY <1>1, <1>2
  <2> QED BY ZenonT(60), <2>1, <2>2, <2>3
<1> QED BY ZenonT(60), <1>1, <1>3 DEF Stream

(* A step that ends with an ACK.                                             *)
LEMMA Acked ==
  ASSUME IInv, NEW b, NEW d, d = delivered', BuildAck(b, d),
         After(b, d, session', delivery_pending', ack_edge),
         write_shutdown' \in BOOLEAN, close_flow' \in BOOLEAN
  PROVE  IInv'
<1> DEFINE L == Len(d)
<1>1. L \in Nat /\ ack_edge \in Nat /\ last_ack \in Nat /\ data_edge \in Nat /\ Intact(b, L, ack_edge)
  BY ZenonT(60), StreamLen DEF IInv, Edges, After
<1>2. RcvNxtPosition(b, d) = Position(b, L)
  BY ZenonT(60) DEF RcvNxtPosition, Position
<1>3. /\ buf' = Announced(b) /\ ack_timer' = FALSE /\ data_edge' = data_edge
      /\ last_ack' = Larger(last_ack, Position(b, L)) /\ ack_edge' = Edge(b, L, ack_edge)
  BY ZenonT(60), <1>2 DEF BuildAck, Announced, Edge
<1> HIDE DEF L
<1>4. /\ Intact(buf', L, ack_edge') /\ ack_edge' \in Nat
      /\ buf'.ready_bytes = b.ready_bytes /\ buf'.blocked = b.blocked /\ Position(b, L) \in Nat
  BY ZenonT(60), <1>1, <1>3, AckIntact
<1>5. last_ack' \in Nat
  BY <1>1, <1>3, <1>4 DEF Larger
<1>6. After(buf', delivered', session', delivery_pending', ack_edge')
  BY ZenonT(60), <1>4 DEF After, L
<1> QED BY ZenonT(60), <1>1, <1>3, <1>4, <1>5, <1>6 DEF IInv, Flags, Edges

(* A step that sends none.                                                   *)
LEMMA Unacked ==
  ASSUME IInv, After(buf', delivered', session', delivery_pending', ack_edge),
         write_shutdown' \in BOOLEAN, close_flow' \in BOOLEAN, ack_timer' \in BOOLEAN,
         UNCHANGED <<last_ack, ack_edge, data_edge>>
  PROVE  IInv'
<1>1. last_ack' = last_ack /\ ack_edge' = ack_edge /\ data_edge' = data_edge
  BY ZenonT(60)
<1> QED BY ZenonT(60), <1>1 DEF IInv, Flags, Edges

(* A step that only answers with an ACK.                                     *)
LEMMA Answered ==
  ASSUME IInv, BuildAck(buf, delivered), Keep
  PROVE  IInv'
<1>1. /\ session' = session /\ write_shutdown' = write_shutdown /\ close_flow' = close_flow
      /\ delivery_pending' = delivery_pending /\ delivered' = delivered
  BY ZenonT(60) DEF Keep
<1>2. BuildAck(buf, delivered') /\ After(buf, delivered', session', delivery_pending', ack_edge)
  BY ZenonT(60), <1>1 DEF IInv
<1>3. write_shutdown' \in BOOLEAN /\ close_flow' \in BOOLEAN
  BY ZenonT(60), <1>1 DEF IInv, Flags
<1> QED BY ZenonT(60), <1>2, <1>3, Acked

(* What a drain leaves for the caller.                                       *)
LEMMA DrainAfter ==
  ASSUME IInv, NEW b, Intact(b, Len(delivered), ack_edge), NEW s \in {"none", "bound"},
         NEW o \in DrainSession(b, s), Drained(o)
  PROVE  /\ After(o.buf, delivered', session', delivery_pending', ack_edge)
         /\ Len(delivered') + o.buf.ready_bytes = Len(delivered) + b.ready_bytes
         /\ o.buf.fin_received = b.fin_received /\ o.session \in {"none", "bound"}
<1> DEFINE L == Len(delivered)
<1>1. L \in Nat /\ ack_edge \in Nat /\ delivery_pending \in BOOLEAN /\ Stream(delivered)
  BY ZenonT(60), StreamLen DEF IInv, Edges, After
<1>2. session' = o.session /\ delivery_pending' = o.pending /\ delivered' = delivered \o o.octets
  BY ZenonT(60) DEF Drained
<1>3. Handed(o, b, L, ack_edge)
  BY ZenonT(60), <1>1, DrainIntact
<1>4. PICK n \in 0..b.ready_bytes :
        /\ Intact(o.buf, L + n, ack_edge)
        /\ o.buf.ready_bytes = b.ready_bytes - n /\ o.buf.fin_received = b.fin_received
        /\ o.octets \in Seq(0..MaxStream) /\ Len(o.octets) = n
        /\ \A i \in 1..n : o.octets[i] = L + (i - 1)
        /\ o.session \in {"none", "bound"} /\ o.pending \in BOOLEAN
        /\ o.buf.ready_bytes > 0 /\ o.session = "bound" /\ ~o.buf.blocked => o.pending
  BY ZenonT(60), <1>3 DEF Handed
<1>5. Stream(delivered') /\ Len(delivered') = L + n
  BY ZenonT(60), <1>1, <1>2, <1>4, StreamAppend
<1>6. After(o.buf, delivered', session', delivery_pending', ack_edge)
  BY ZenonT(60), <1>2, <1>4, <1>5 DEF After
<1>7. (L + n) + o.buf.ready_bytes = L + b.ready_bytes
  <2>1. b.ready_bytes \in 0..capacity /\ capacity \in Nat
    BY SpaceFacts, BytesHeld
  <2> QED BY <1>1, <1>4, <2>1
<1> QED BY ZenonT(60), <1>4, <1>5, <1>6, <1>7

(* The FIN is consumed only where the stream ends: its sequence number is    *)
(* RCV.NXT's, and both positions are near.                                   *)
LEMMA FinAfter ==
  ASSUME IInv, NEW b, NEW d, NEW s, NEW p, After(b, d, s, p, ack_edge), ~b.fin_received,
         Len(d) + b.ready_bytes = MaxStream
  PROVE  After(ConsumeFin(b), d, s, p, ack_edge)
<1>1. Len(d) \in Nat /\ ack_edge \in Nat /\ Intact(b, Len(d), ack_edge)
  BY ZenonT(60), StreamLen DEF IInv, Edges, After
<1>2. /\ Intact(ConsumeFin(b), Len(d), ack_edge) /\ ConsumeFin(b).ready_bytes = b.ready_bytes
      /\ ConsumeFin(b).blocked = b.blocked
  BY ZenonT(60), <1>1, FinIntact
<1> QED BY ZenonT(60), <1>2 DEF After

LEMMA PureFinInv ==
  ASSUME IInv, PureFin(MaxStream)
  PROVE  IInv'
<1> DEFINE L == Len(delivered)
<1>1. /\ L \in Nat /\ ack_edge \in Nat /\ Intact(buf, L, ack_edge)
      /\ write_shutdown \in BOOLEAN /\ close_flow \in BOOLEAN
  BY ZenonT(60), StreamLen DEF IInv, Edges, Flags, After
<1>2. CASE SeqNo(MaxStream) # buf.rcv_nxt
  <2>1. BuildAck(buf, delivered) /\ Keep
    BY ZenonT(60), <1>2 DEF PureFin
  <2> QED BY ZenonT(60), <2>1, Answered
<1>3. CASE SeqNo(MaxStream) = buf.rcv_nxt
  <2>1. /\ Nearby(MaxStream) /\ BuildAck(ConsumeFin(buf), delivered) /\ HandleFin(session)
        /\ session' = session /\ delivery_pending' = delivery_pending
        /\ close_flow' = close_flow /\ delivered' = delivered
    BY ZenonT(60), <1>3 DEF PureFin
  <2> DEFINE q == RcvNxtPosition(buf, delivered)
  <2>2. /\ buf.ready_bytes \in 0..capacity /\ capacity \in Nat /\ buf.fin_received \in BOOLEAN
        /\ buf.rcv_nxt = SeqNo(q)
    <3>1. buf \in BufferType /\ buf.rcv_nxt = SeqNo(q)
      BY ZenonT(60), <1>1 DEF Intact, Ring, Numbered, RcvNxtPosition
    <3> HIDE DEF q
    <3> QED BY <3>1, SpaceFacts DEF BufferType
  <2>3. q \in Nat /\ q = L + buf.ready_bytes + (IF buf.fin_received THEN 1 ELSE 0)
    BY <1>1, <2>2 DEF RcvNxtPosition
  <2>4. MaxStream - q <= Half /\ -(MaxStream - q) <= Half
    BY ZenonT(60), <2>1 DEF Nearby
  <2> HIDE DEF q
  <2>5. MaxStream = q
    <3>1. MaxStream \in Int /\ q \in Int /\ MaxStream - q < SeqModulus /\ q - MaxStream < SeqModulus
      BY <2>3, <2>4, SpaceFacts
    <3> QED BY ZenonT(60), <3>1, <1>3, <2>2, SeqNoInjective
  <2>6. ~buf.fin_received
    <3> SUFFICES ASSUME buf.fin_received PROVE FALSE
      BY ZenonT(60)
    <3>1. L + buf.ready_bytes = MaxStream /\ q = L + buf.ready_bytes + 1
      BY ZenonT(60), <1>1, <2>3 DEF Intact, Ended
    <3> HIDE DEF L
    <3> QED BY <3>1, <2>2, <2>5, <1>1
  <2>7. L + buf.ready_bytes = MaxStream
    <3>1. q = L + buf.ready_bytes + 0
      BY ZenonT(60), <2>3, <2>6
    <3> HIDE DEF L
    <3> QED BY <3>1, <2>2, <2>5, <1>1
  <2>8. After(ConsumeFin(buf), delivered', session', delivery_pending', ack_edge)
    <3>1. After(buf, delivered', session', delivery_pending', ack_edge)
      BY ZenonT(60), <2>1 DEF IInv
    <3> QED BY ZenonT(60), <3>1, <2>1, <2>6, <2>7, FinAfter
  <2>9. write_shutdown' \in BOOLEAN /\ close_flow' \in BOOLEAN /\ BuildAck(ConsumeFin(buf), delivered')
    BY ZenonT(60), <1>1, <2>1 DEF HandleFin
  <2> QED BY ZenonT(60), <2>8, <2>9, Acked
<1> QED BY ZenonT(60), <1>2, <1>3

LEMMA DataInv ==
  ASSUME IInv, NEW position \in 0..MaxStream, NEW n \in 0..MaxSegment,
         NEW psh \in BOOLEAN, NEW fin \in BOOLEAN,
         position + n <= MaxStream, fin => position + n = MaxStream,
         Data(position, n, psh, fin)
  PROVE  IInv'
<1> DEFINE L == Len(delivered)
           data == [i \in 1..n |-> position + i - 1]
           r == OnSegment(buf, SeqNo(position), data, psh)
<1>1. /\ L \in Nat /\ ack_edge \in Nat /\ Intact(buf, L, ack_edge) /\ session \in {"none", "bound"}
      /\ write_shutdown \in BOOLEAN /\ close_flow \in BOOLEAN
  BY ZenonT(60), StreamLen DEF IInv, Edges, Flags, After
<1>2. PICK o \in DrainSession(r.buf, session) :
        /\ Drained(o)
        /\ IF fin /\ SeqNo(position + n) = o.buf.rcv_nxt /\ r.accepted > 0
           THEN /\ BuildAck(ConsumeFin(o.buf), delivered')
                /\ HandleFin(o.session)
           ELSE /\ UNCHANGED write_shutdown
                /\ \/ BuildAck(o.buf, delivered')
                   \/ /\ ~fin /\ r.ack = "Delayed" /\ (o.buf.blocked => buf.blocked)
                      /\ ack_timer' = TRUE
                      /\ buf' = o.buf
                      /\ UNCHANGED <<last_ack, ack_edge, data_edge>>
  BY ZenonT(60) DEF Data
<1>3. ~buf.fin_received /\ Nearby(position) /\ close_flow' = close_flow
  BY ZenonT(60) DEF Data
<1>4. /\ position \in Nat /\ n \in Nat /\ n <= Half /\ capacity \in Nat
      /\ buf.ready_bytes \in 0..capacity
  <2>1. buf.ready_bytes \in 0..capacity
    BY ZenonT(60), <1>1, BytesHeld
  <2> QED BY <2>1, SpaceFacts
<1>5. position - (L + buf.ready_bytes) <= Half /\ (L + buf.ready_bytes) - position <= Half
  <2> DEFINE q == L + buf.ready_bytes + 0
  <2>1. position - q <= Half /\ -(position - q) <= Half
    BY ZenonT(60), <1>3 DEF Nearby, RcvNxtPosition
  <2>2. q = L + buf.ready_bytes /\ q \in Nat
    BY <1>1, <1>4
  <2> HIDE DEF q, L
  <2> QED BY <2>1, <2>2, <1>1, <1>4, SpaceFacts
<1>6. Segmented(r, buf, L, ack_edge, position, n)
  BY ZenonT(60), <1>1, <1>3, <1>4, <1>5, SegmentIntact
<1> HIDE DEF r, L
<1>7. /\ Intact(r.buf, L, ack_edge) /\ ~r.buf.fin_received /\ buf.ready_bytes <= r.buf.ready_bytes
      /\ r.accepted > 0 => position < ack_edge /\ position + n > L + buf.ready_bytes
  BY ZenonT(60), <1>6 DEF Segmented, Taken
<1>8. /\ After(o.buf, delivered', session', delivery_pending', ack_edge)
      /\ Len(delivered') + o.buf.ready_bytes = L + r.buf.ready_bytes
      /\ ~o.buf.fin_received
  BY ZenonT(60), <1>1, <1>2, <1>7, DrainAfter DEF L
<1>9. CASE fin /\ SeqNo(position + n) = o.buf.rcv_nxt /\ r.accepted > 0
  <2>1. BuildAck(ConsumeFin(o.buf), delivered') /\ HandleFin(o.session)
    BY ZenonT(60), <1>2, <1>9
  <2> DEFINE q == L + r.buf.ready_bytes
  <2>2. q \in Nat /\ q >= L + buf.ready_bytes /\ q <= L + capacity /\ ack_edge <= L + capacity
    <3>1. r.buf.ready_bytes \in 0..capacity
      BY ZenonT(60), <1>7, BytesHeld
    <3>2. ack_edge <= L + capacity
      BY ZenonT(60), <1>1, <1>3 DEF Intact, Window
    <3> QED BY <3>1, <3>2, <1>1, <1>4, <1>7
  <2>3. o.buf.rcv_nxt = SeqNo(q)
    <3>1. Intact(o.buf, Len(delivered'), ack_edge) /\ Len(delivered') \in Nat
      BY ZenonT(60), <1>8, StreamLen DEF After
    <3>2. o.buf.rcv_nxt = SeqNo(Len(delivered') + o.buf.ready_bytes)
      BY ZenonT(60), <3>1, <1>1, <1>8, AcceptableIs
    <3> QED BY ZenonT(60), <3>2, <1>8
  <2> HIDE DEF q
  <2>4. position + n = MaxStream /\ SeqNo(position + n) = SeqNo(q)
    BY ZenonT(60), <1>9, <2>3
  <2>5. position < ack_edge /\ position + n > L + buf.ready_bytes
    BY ZenonT(60), <1>7, <1>9
  <2> DEFINE e == position + n
  <2>6. e \in Int /\ q \in Int /\ e - q < SeqModulus /\ q - e < SeqModulus
    BY <1>1, <1>4, <2>2, <2>5, SpaceFacts
  <2> HIDE DEF e
  <2>7. e = q
    BY ZenonT(60), <2>4, <2>6, SeqNoInjective DEF e
  <2>8. Len(delivered') + o.buf.ready_bytes = MaxStream
    BY ZenonT(60), <1>8, <2>4, <2>7 DEF e, q
  <2>9. After(ConsumeFin(o.buf), delivered', session', delivery_pending', ack_edge)
    BY ZenonT(60), <1>8, <2>8, FinAfter
  <2>10. write_shutdown' \in BOOLEAN /\ close_flow' \in BOOLEAN
    BY ZenonT(60), <1>1, <1>3, <2>1 DEF HandleFin
  <2> QED BY ZenonT(60), <2>1, <2>9, <2>10, Acked
<1>10. CASE ~(fin /\ SeqNo(position + n) = o.buf.rcv_nxt /\ r.accepted > 0)
  <2>1. /\ UNCHANGED write_shutdown
        /\ \/ BuildAck(o.buf, delivered')
           \/ ack_timer' = TRUE /\ buf' = o.buf /\ UNCHANGED <<last_ack, ack_edge, data_edge>>
    BY ZenonT(60), <1>2, <1>10
  <2>2. write_shutdown' \in BOOLEAN /\ close_flow' \in BOOLEAN
    BY ZenonT(60), <1>1, <1>3, <2>1
  <2>3. CASE BuildAck(o.buf, delivered')
    BY ZenonT(60), <1>8, <2>2, <2>3, Acked
  <2>4. CASE ack_timer' = TRUE /\ buf' = o.buf /\ UNCHANGED <<last_ack, ack_edge, data_edge>>
    BY ZenonT(60), <1>8, <2>2, <2>4, Unacked
  <2> QED BY ZenonT(60), <2>1, <2>3, <2>4
<1> QED BY ZenonT(60), <1>9, <1>10

(* A drain on behalf of the session, which has just said it is writable.     *)
LEMMA UnblockedIntact ==
  ASSUME NEW b, NEW L, NEW E, Intact(b, L, E)
  PROVE  Intact([b EXCEPT !.blocked = FALSE], L, E)
<1> DEFINE c == [b EXCEPT !.blocked = FALSE]
<1>1. b \in BufferType
  BY DEF Intact, Ring
<1>2. c \in BufferType /\ SameContent(c, b)
  BY <1>1 DEF BufferType, SameContent
<1> HIDE DEF c
<1>3. Intact(c, L, E)
  BY ZenonT(60), <1>2, IntactSame
<1> QED BY ZenonT(60), <1>3 DEF c

LEMMA SessionInv ==
  ASSUME IInv, AttachSession \/ OnSessionWritable \/ PumpSessionDeliveries
  PROVE  IInv'
<1>1. Intact(buf, Len(delivered), ack_edge) /\ write_shutdown \in BOOLEAN /\ close_flow \in BOOLEAN
      /\ ack_timer \in BOOLEAN
  BY ZenonT(60) DEF IInv, Flags, After
<1>2. Intact([buf EXCEPT !.blocked = FALSE], Len(delivered), ack_edge)
  BY ZenonT(60), <1>1, UnblockedIntact
<1>3. write_shutdown' \in BOOLEAN /\ close_flow' \in BOOLEAN
  BY ZenonT(60), <1>1 DEF AttachSession, OnSessionWritable, PumpSessionDeliveries
<1>4. CASE AttachSession \/ OnSessionWritable
  <2>1. PICK o \in DrainSession([buf EXCEPT !.blocked = FALSE], "bound") :
          Drained(o) /\ BuildAck(o.buf, delivered')
    BY ZenonT(60), <1>4 DEF AttachSession, OnSessionWritable
  <2>2. After(o.buf, delivered', session', delivery_pending', ack_edge)
    BY ZenonT(60), <1>2, <2>1, DrainAfter
  <2> QED BY ZenonT(60), <1>3, <2>1, <2>2, Acked
<1>5. CASE PumpSessionDeliveries
  <2>1. PICK o \in DrainSession(buf, "bound") :
          /\ Drained(o)
          /\ IF o.octets # << >> THEN BuildAck(o.buf, delivered')
             ELSE buf' = o.buf /\ UNCHANGED <<ack_timer, last_ack, ack_edge, data_edge>>
    BY ZenonT(60), <1>5 DEF PumpSessionDeliveries
  <2>2. After(o.buf, delivered', session', delivery_pending', ack_edge)
    BY ZenonT(60), <1>1, <2>1, DrainAfter
  <2>3. CASE BuildAck(o.buf, delivered')
    BY ZenonT(60), <1>3, <2>2, <2>3, Acked
  <2>4. CASE buf' = o.buf /\ UNCHANGED <<ack_timer, last_ack, ack_edge, data_edge>>
    BY ZenonT(60), <1>1, <1>3, <2>2, <2>4, Unacked
  <2> QED BY ZenonT(60), <2>1, <2>3, <2>4
<1> QED BY ZenonT(60), <1>4, <1>5

LEMMA InitInv == Init => IInv
<1> SUFFICES ASSUME Init PROVE IInv
  BY ZenonT(60)
<1> DEFINE E == Smaller(MaxWireWindow, capacity)
           adv == (InitialSequence + E) % SeqModulus
<1>1. /\ E \in Nat /\ E <= capacity /\ capacity \in Nat \ {0} /\ MaxStream \in Nat
      /\ InitialSequence \in 0..(SeqModulus - 1) /\ InitialSequence \in Int /\ SeqModulus \in Nat \ {0}
  BY ReceiveAssumption, SpaceFacts DEF Smaller
<1>2. /\ buf = NewReceiveBuffer /\ session \in {"none", "bound"} /\ delivered = << >>
      /\ write_shutdown = FALSE /\ close_flow = FALSE /\ delivery_pending = FALSE /\ ack_timer = FALSE
      /\ last_ack = 0 /\ ack_edge = E /\ data_edge = 0
  BY ZenonT(60) DEF Init
<1>3. SeqNo(0) = InitialSequence /\ SeqNo(E) = adv /\ adv \in 0..(SeqModulus - 1)
  <2>1. InitialSequence + 0 = InitialSequence /\ E \in Int
    BY <1>1
  <2>2. InitialSequence % SeqModulus = InitialSequence
    BY ZenonT(60), <1>1, SmallMod
  <2>3. SeqNo(0) = InitialSequence
    BY ZenonT(60), <2>1, <2>2 DEF SeqNo
  <2>4. SeqNo(E) = adv
    BY ZenonT(60) DEF SeqNo
  <2>5. SeqNo(E) \in 0..(SeqModulus - 1)
    BY ZenonT(60), <2>1, SeqNoType
  <2> QED BY ZenonT(60), <2>3, <2>4, <2>5
<1> HIDE DEF E
<1>4. /\ buf \in BufferType /\ buf.occupied = [p \in Index |-> FALSE]
      /\ buf.ready_bytes = 0 /\ buf.bytes_held = 0 /\ buf.rcv_nxt = InitialSequence
      /\ buf.rcv_adv = adv /\ buf.fin_received = FALSE
  <2> DEFINE store == [p \in Index |-> 0]
             occ == [p \in Index |-> FALSE]
             sack == [left_edge |-> 0, right_edge |-> 0]
  <2>1. store \in [Index -> 0..MaxStream] /\ occ \in [Index -> BOOLEAN]
    BY <1>1
  <2>2. sack \in SackType /\ 0 \in Index /\ 0 \in 0..capacity
    BY <1>1 DEF SackType, Index
  <2>3. buf = [storage |-> store, occupied |-> occ,
               first_index |-> 0, ready_bytes |-> 0, bytes_held |-> 0,
               rcv_nxt |-> InitialSequence, rcv_adv |-> adv,
               blocked |-> FALSE, delayed_ack_pending |-> FALSE,
               recent_sack |-> sack, recent_sack_valid |-> FALSE, fin_received |-> FALSE]
    BY ZenonT(60), <1>2 DEF NewReceiveBuffer, E
  <2> HIDE DEF store, occ, sack, adv
  <2> QED BY <2>1, <2>2, <2>3, <1>1, <1>3 DEF BufferType, occ
<1>5. Held(buf) = {} /\ Cardinality(Held(buf)) = 0
  <2>1. \A i \in Index : PhysicalIndex(buf, i) \in Index
    <3>1. \A i \in Index : i \in 0..capacity
      BY <1>1 DEF Index
    <3> QED BY ZenonT(60), <3>1, <1>4, PhysicalPlaces
  <2>2. \A i \in Index : ~OccupiedAt(buf, i)
    BY ZenonT(60), <1>4, <2>1 DEF OccupiedAt
  <2>3. Held(buf) = {}
    BY ZenonT(60), <2>2, HeldFinite
  <2> QED BY ZenonT(60), <2>3, FS_EmptySet
<1>6. Ring(buf, 0) /\ Prefix(buf)
  <2>1. \A i \in 0..(0 - 1) : i \in Held(buf)
    OBVIOUS
  <2>2. Ring(buf, 0)
    BY ZenonT(60), <1>4, <1>5 DEF Ring
  <2>3. Prefix(buf)
    BY ZenonT(60), <1>4, <1>5, <2>1 DEF Prefix
  <2> QED BY ZenonT(60), <2>2, <2>3
<1>7. Numbered(buf, 0) /\ Ended(buf, 0) /\ Window(buf, 0, E)
  <2>1. 0 + 0 + 0 = 0 /\ 0 + 0 = 0 /\ 0 + capacity = capacity /\ 0 <= E
    BY <1>1
  <2>2. Numbered(buf, 0)
    BY <1>3, <1>4 DEF Numbered
  <2>3. Window(buf, 0, E)
    BY ZenonT(60), <2>1, <1>1, <1>3, <1>4, <1>5 DEF Window
  <2> QED BY ZenonT(60), <2>2, <2>3, <1>4 DEF Ended
<1>8. Stream(delivered) /\ Len(delivered) = 0
  BY <1>2 DEF Stream
<1>9. After(buf, delivered, session, delivery_pending, ack_edge)
  <2>1. ~(buf.ready_bytes > 0)
    BY <1>4
  <2> QED BY ZenonT(60), <2>1, <1>2, <1>6, <1>7, <1>8 DEF After, Intact
<1>10. Flags /\ Edges
  BY <1>1, <1>2 DEF Flags, Edges
<1> QED BY ZenonT(60), <1>9, <1>10 DEF IInv

LEMMA NextInv ==
  ASSUME IInv, [Next]_vars
  PROVE  IInv'
<1>1. CASE UNCHANGED vars
  <2>1. /\ buf' = buf /\ session' = session /\ write_shutdown' = write_shutdown
        /\ delivery_pending' = delivery_pending /\ close_flow' = close_flow
        /\ ack_timer' = ack_timer /\ delivered' = delivered /\ last_ack' = last_ack
        /\ ack_edge' = ack_edge /\ data_edge' = data_edge
    BY ZenonT(60), <1>1 DEF vars
  <2> QED BY ZenonT(60), <2>1 DEF IInv, Flags, Edges
<1>2. CASE \E position \in 0..MaxStream, n \in 0..MaxSegment, psh, fin \in BOOLEAN :
             /\ position + n <= MaxStream
             /\ fin => position + n = MaxStream
             /\ n > 0 \/ fin
             /\ Segment(position, n, psh, fin)
  <2>1. PICK position \in 0..MaxStream, n \in 0..MaxSegment, psh \in BOOLEAN, fin \in BOOLEAN :
             /\ position + n <= MaxStream
             /\ fin => position + n = MaxStream
             /\ Segment(position, n, psh, fin)
    BY ZenonT(60), <1>2
  <2>2. CASE Unacceptable(position, n, fin) \/ LateData(position, n, fin)
    BY ZenonT(60), <2>2, Answered DEF Unacceptable, LateData
  <2>3. CASE Data(position, n, psh, fin)
    BY ZenonT(60), <2>1, <2>3, DataInv
  <2> QED BY ZenonT(60), <2>1, <2>2, <2>3 DEF Segment
<1>3. CASE PureFin(MaxStream)
  BY ZenonT(60), <1>3, PureFinInv
<1>4. CASE ChallengeAck \/ OnDelayedAck
  BY ZenonT(60), <1>4, Answered DEF ChallengeAck, OnDelayedAck
<1>5. CASE AttachSession \/ OnSessionWritable \/ PumpSessionDeliveries
  BY ZenonT(60), <1>5, SessionInv
<1>6. CASE OnSessionClosed
  <2>1. /\ buf' = buf /\ session' = "none" /\ write_shutdown' = write_shutdown
        /\ delivery_pending' = delivery_pending /\ close_flow' = TRUE
        /\ ack_timer' = ack_timer /\ delivered' = delivered
        /\ UNCHANGED <<last_ack, ack_edge, data_edge>>
    BY ZenonT(60), <1>6 DEF OnSessionClosed
  <2>2. After(buf', delivered', session', delivery_pending', ack_edge)
    <3>1. "none" # "bound"
      BY SMT
    <3> QED BY ZenonT(60), <2>1, <3>1 DEF IInv, After
  <2>3. write_shutdown' \in BOOLEAN /\ close_flow' \in BOOLEAN /\ ack_timer' \in BOOLEAN
    BY ZenonT(60), <2>1 DEF IInv, Flags
  <2> QED BY ZenonT(60), <2>1, <2>2, <2>3, Unacked
<1>7. CASE PumpSendPaths
  <2> DEFINE q == RcvNxtPosition(buf, delivered)
             w == WireWindow(AdvertisedWindow(buf))
  <2>1. /\ last_ack' = Larger(last_ack, q) /\ data_edge' = Larger(data_edge, q + w)
        /\ buf' = buf /\ session' = session /\ write_shutdown' = write_shutdown
        /\ delivery_pending' = delivery_pending /\ close_flow' = close_flow
        /\ ack_timer' = ack_timer /\ delivered' = delivered /\ ack_edge' = ack_edge
    BY ZenonT(60), <1>7 DEF PumpSendPaths
  <2>2. q \in Nat /\ w \in Nat
    <3>1. Intact(buf, Len(delivered), ack_edge) /\ Len(delivered) \in Nat
      BY ZenonT(60), StreamLen DEF IInv, After
    <3>2. /\ buf.ready_bytes \in 0..capacity /\ buf.bytes_held \in buf.ready_bytes..capacity
          /\ capacity \in Nat
      BY <3>1, BytesHeld, SpaceFacts
    <3>3. q \in Nat
      BY <3>1, <3>2 DEF RcvNxtPosition
    <3> DEFINE a == AdvertisedWindow(buf)
    <3>4. a \in Nat
      BY <3>2 DEF AdvertisedWindow
    <3> HIDE DEF a
    <3>5. WireWindow(a) \in 0..a
      BY ZenonT(60), <3>4, WireWindowFits
    <3>6. WireWindow(a) \in Nat
      BY <3>4, <3>5
    <3> QED BY ZenonT(60), <3>3, <3>6 DEF a
  <2> HIDE DEF q, w
  <2>3. last_ack' \in Nat /\ data_edge' \in Nat /\ ack_edge' \in Nat
    <3>1. last_ack \in Nat /\ data_edge \in Nat /\ ack_edge \in Nat
      BY DEF IInv, Edges
    <3> QED BY <2>1, <2>2, <3>1 DEF Larger
  <2> QED BY ZenonT(60), <2>1, <2>3 DEF IInv, Flags, Edges
<1> QED BY ZenonT(60), <1>1, <1>2, <1>3, <1>4, <1>5, <1>6, <1>7 DEF Next

LEMMA InvHolds == Spec => []IInv
<1>1. Init => IInv
  BY InitInv
<1>2. IInv /\ [Next]_vars => IInv'
  BY NextInv
<1> QED BY <1>1, <1>2, PTL DEF Spec

(* Ready octets are never forgotten, for every ring, budget and stream: a    *)
(* session that has not pushed back while octets are ready is on the list    *)
(* of PumpSessionDeliveries.                                                 *)
THEOREM NothingStranded == Spec => []NoStranding
<1>1. IInv => NoStranding
  BY ZenonT(60) DEF IInv, After, NoStranding
<1> QED BY <1>1, InvHolds, PTL

-----------------------------------------------------------------------------
(* The SACK blocks. *)

(* The nth element of a set of numbers, lowest first.                        *)
LEMMA NthElement ==
  ASSUME NEW S, IsFiniteSet(S), S \subseteq Int
  PROVE  /\ Cardinality(S) \in Nat
         /\ \A n \in 1..Cardinality(S) : Nth(S, n) \in S
         /\ \A i \in S : \E n \in 1..Cardinality(S) : Nth(S, n) = i
<1> DEFINE below(i) == {j \in S : j < i}
           rank == [i \in S |-> Cardinality(below(i)) + 1]
           N == Cardinality(S)
<1>1. N \in Nat /\ IsFiniteSet(1..N) /\ Cardinality(1..N) = N
  <2>1. N \in Nat
    BY ZenonT(60), FS_CardinalityType
  <2> HIDE DEF N
  <2>2. 1 \in Int /\ N \in Int /\ (IF 1 > N THEN 0 ELSE N - 1 + 1) = N
    BY <2>1
  <2>3. IsFiniteSet(1..N) /\ Cardinality(1..N) = IF 1 > N THEN 0 ELSE N - 1 + 1
    BY ZenonT(60), <2>2, FS_Interval
  <2> QED BY <2>1, <2>2, <2>3
<1>2. \A i \in S : /\ IsFiniteSet(below(i)) /\ Cardinality(below(i)) \in Nat
                   /\ Cardinality(below(i)) < N
  <2> TAKE i \in S
  <2>1. below(i) \subseteq S /\ i \notin below(i)
    BY SMT
  <2>2. IsFiniteSet(below(i)) /\ Cardinality(below(i)) \in Nat
    BY ZenonT(60), <2>1, FS_Subset, FS_CardinalityType
  <2>3. Cardinality(below(i)) <= N /\ N # Cardinality(below(i))
    BY ZenonT(60), <2>1, FS_Subset
  <2> HIDE DEF N, below
  <2> QED BY <1>1, <2>2, <2>3
<1>3. \A i, j \in S : i < j => Cardinality(below(i)) < Cardinality(below(j))
  <2> TAKE i, j \in S
  <2> HAVE i < j
  <2>0. ~(i < i) /\ \A k \in S : k < i => k < j
    BY SMT
  <2>1. below(i) \subseteq below(j) /\ i \in below(j) /\ i \notin below(i)
    BY ZenonT(60), <2>0
  <2>2. Cardinality(below(i)) <= Cardinality(below(j)) /\ Cardinality(below(j)) # Cardinality(below(i))
    BY ZenonT(60), <1>2, <2>1, FS_Subset
  <2>3. Cardinality(below(i)) \in Nat /\ Cardinality(below(j)) \in Nat
    BY ZenonT(60), <1>2
  <2> HIDE DEF below
  <2> QED BY <2>2, <2>3
<1>4. \A i, j \in S : Cardinality(below(i)) = Cardinality(below(j)) => i = j
  <2> TAKE i, j \in S
  <2>1. i < j \/ j < i \/ i = j
    BY SMT
  <2>2. ~(Cardinality(below(i)) < Cardinality(below(i)))
    <3>1. Cardinality(below(i)) \in Nat
      BY ZenonT(60), <1>2
    <3> HIDE DEF below
    <3> QED BY <3>1
  <2> QED BY ZenonT(60), <1>3, <2>1, <2>2
<1>5. rank \in Injection(S, 1..N)
  <2>1. \A i \in S : rank[i] \in 1..N
    <3> TAKE i \in S
    <3>1. rank[i] = Cardinality(below(i)) + 1 /\ Cardinality(below(i)) \in Nat /\ Cardinality(below(i)) < N
      BY ZenonT(60), <1>2
    <3> HIDE DEF rank, below, N
    <3> QED BY <3>1, <1>1
  <2>2. \A i, j \in S : rank[i] = rank[j] => i = j
    <3> TAKE i, j \in S
    <3> HAVE rank[i] = rank[j]
    <3>1. Cardinality(below(i)) + 1 = Cardinality(below(j)) + 1
      BY ZenonT(60)
    <3>2. Cardinality(below(i)) \in Nat /\ Cardinality(below(j)) \in Nat
      BY ZenonT(60), <1>2
    <3>3. Cardinality(below(i)) = Cardinality(below(j))
      <4> HIDE DEF below
      <4> QED BY <3>1, <3>2
    <3> QED BY ZenonT(60), <1>4, <3>3
  <2>3. rank \in [S -> 1..N]
    BY ZenonT(60), <2>1
  <2> QED BY ZenonT(60), <2>2, <2>3 DEF Injection, IsInjective
<1>6. rank \in Surjection(S, 1..N)
  <2> HIDE DEF rank
  <2> QED BY ZenonT(60), <1>1, <1>5, FS_Injection
<1>7. \A n \in 1..N : \E i \in S : Cardinality(below(i)) = n - 1
  <2> TAKE n \in 1..N
  <2>1. PICK i \in S : rank[i] = n
    BY ZenonT(60), <1>6 DEF Surjection
  <2>2. Cardinality(below(i)) + 1 = n /\ Cardinality(below(i)) \in Nat
    BY ZenonT(60), <2>1, <1>2
  <2>3. Cardinality(below(i)) = n - 1
    <3> HIDE DEF below
    <3> QED BY <2>2
  <2> QED BY ZenonT(60), <2>3
<1>8. \A n \in 1..N : Nth(S, n) \in S /\ Cardinality(below(Nth(S, n))) = n - 1
  BY ZenonT(60), <1>7 DEF Nth
<1>9. \A i \in S : \E n \in 1..N : Nth(S, n) = i
  <2> TAKE i \in S
  <2> DEFINE n == Cardinality(below(i)) + 1
  <2>1. n \in 1..N /\ n - 1 = Cardinality(below(i))
    <3>1. Cardinality(below(i)) \in Nat /\ Cardinality(below(i)) < N
      BY ZenonT(60), <1>2
    <3> HIDE DEF below, N
    <3> QED BY <3>1, <1>1
  <2> HIDE DEF n
  <2>2. Nth(S, n) = i
    BY ZenonT(60), <2>1, <1>4, <1>8
  <2> QED BY ZenonT(60), <2>1, <2>2
<1> QED BY ZenonT(60), <1>1, <1>8, <1>9

(* RunEnd is where the run that i belongs to ends.                           *)
LEMMA RunEndIs ==
  ASSUME NEW g \in BufferType, NEW i \in Index
  PROVE  /\ RunEnd(g, i) \in (i + 1)..capacity
         /\ \A k \in (i + 1)..(RunEnd(g, i) - 1) : OccupiedAt(g, k)
         /\ \A j \in (i + 1)..capacity : (\A k \in (i + 1)..(j - 1) : OccupiedAt(g, k)) => j <= RunEnd(g, i)
<1>1. i \in 0..capacity /\ i + 1 \in 0..capacity /\ capacity \in Nat
  BY SpaceFacts DEF Index
<1> DEFINE ends == {j \in (i + 1)..capacity : \A k \in (i + 1)..(j - 1) : OccupiedAt(g, k)}
<1>2. i + 1 \in ends
  <2>1. i + 1 \in (i + 1)..capacity /\ \A k \in (i + 1)..(i + 1 - 1) : OccupiedAt(g, k)
    BY <1>1
  <2> QED BY <2>1
<1>3. ends \subseteq (i + 1)..capacity
  BY ZenonT(60)
<1>4. ends \subseteq 0..capacity /\ ends # {}
  <2>1. ends # {}
    BY ZenonT(60), <1>2
  <2> HIDE DEF ends
  <2> QED BY <1>1, <1>3, <2>1
<1>5. RunEnd(g, i) = Max(ends)
  BY ZenonT(60) DEF RunEnd
<1>6. Max(ends) \in ends /\ \A y \in ends : Max(ends) >= y
  <2> HIDE DEF ends
  <2> QED BY ZenonT(60), <1>1, <1>4, MaxOf
<1>7. \A j \in ends : j \in Int
  BY <1>1, <1>3
<1>8. \A j \in ends : j <= Max(ends)
  <2> HIDE DEF ends
  <2> QED BY <1>6, <1>7
<1> QED BY ZenonT(60), <1>3, <1>5, <1>6, <1>8

(* A block says where its run is.                                            *)
LEMMA BlockCovers ==
  ASSUME NEW b \in BufferType, NEW s \in b.ready_bytes..(capacity - 1), NEW e \in (s + 1)..capacity
  PROVE  Covered(b, SackBlock(b, s, e)) = s..(e - 1)
<1>1. /\ b.ready_bytes \in 0..capacity /\ capacity \in Nat /\ s \in Int /\ e \in Int
      /\ b.rcv_nxt \in 0..(SeqModulus - 1) /\ SeqModulus \in Nat \ {0} /\ b.rcv_nxt \in Int
  BY SpaceFacts DEF BufferType
<1> DEFINE n == b.rcv_nxt
           x == s - b.ready_bytes
           y == e - b.ready_bytes
           l == (n + x) % SeqModulus
           r == (n + y) % SeqModulus
<1>2. SackBlock(b, s, e).left_edge = l /\ SackBlock(b, s, e).right_edge = r
  BY DEF SackBlock
<1>3. /\ n \in Int /\ x \in Int /\ y \in Int /\ n + x \in Int /\ n + y \in Int
      /\ (n + x) - n = x /\ (n + y) - (n + x) = e - s
      /\ x \in 0..(SeqModulus - 1) /\ e - s \in 0..(SeqModulus - 1) /\ x < Half
      /\ b.ready_bytes + x = s /\ s + (e - s) - 1 = e - 1 /\ e - s \in Int
  BY <1>1, SpaceFacts
<1>4. n % SeqModulus = n
  BY ZenonT(60), <1>1, SmallMod
<1> HIDE DEF n, x, y
<1>5. (l - n) % SeqModulus = x
  <2>1. (((n + x) % SeqModulus) - (n % SeqModulus)) % SeqModulus = ((n + x) - n) % SeqModulus
    BY ZenonT(60), <1>1, <1>3, WrapSub
  <2>2. x % SeqModulus = x
    BY ZenonT(60), <1>1, <1>3, SmallMod
  <2> QED BY ZenonT(60), <2>1, <2>2, <1>3, <1>4
<1>6. (r - l) % SeqModulus = e - s
  <2>1. (r - l) % SeqModulus = ((n + y) - (n + x)) % SeqModulus
    BY ZenonT(60), <1>1, <1>3, WrapSub
  <2>2. (e - s) % SeqModulus = e - s
    BY ZenonT(60), <1>1, <1>3, SmallMod
  <2> QED BY ZenonT(60), <2>1, <2>2, <1>3
<1> HIDE DEF l, r
<1>7. SequenceOffset(l, n) = x
  BY <1>3, <1>5 DEF SequenceOffset
<1>8. Covered(b, SackBlock(b, s, e)) = (b.ready_bytes + x)..(b.ready_bytes + x + (e - s) - 1)
  BY ZenonT(60), <1>2, <1>6, <1>7 DEF Covered, n
<1>9. b.ready_bytes + x + (e - s) - 1 = e - 1
  BY <1>1, <1>3 DEF x
<1> QED BY ZenonT(60), <1>3, <1>8, <1>9

HeldAbove(b, S) == \A i \in S : i \in Held(b) /\ i >= b.ready_bytes

(* Every run is reported where it is, and every octet held above RCV.NXT is  *)
(* in a run.                                                                 *)
LEMMA StartsIs ==
  ASSUME NEW b \in BufferType, NEW skipped
  PROVE  \A s \in Starts(b, skipped) :
            /\ s \in Index /\ s >= b.ready_bytes /\ s \in Held(b)
            /\ Covered(b, SackBlock(b, s, RunEnd(b, s))) = s..(RunEnd(b, s) - 1)
            /\ HeldAbove(b, s..(RunEnd(b, s) - 1))
<1> TAKE s \in Starts(b, skipped)
<1>1. s \in b.ready_bytes..(capacity - 1) /\ OccupiedAt(b, s)
  BY ZenonT(60) DEF Starts
<1>2. b.ready_bytes \in 0..capacity /\ capacity \in Nat
  BY SpaceFacts DEF BufferType
<1>3. s \in Index /\ s >= b.ready_bytes /\ s \in Int
  BY <1>1, <1>2 DEF Index
<1>4. s \in Held(b)
  BY ZenonT(60), <1>1, <1>3, HeldFinite
<1> DEFINE e == RunEnd(b, s)
<1>5. e \in (s + 1)..capacity /\ \A k \in (s + 1)..(e - 1) : OccupiedAt(b, k)
  BY ZenonT(60), <1>3, RunEndIs
<1> HIDE DEF e
<1>6. Covered(b, SackBlock(b, s, e)) = s..(e - 1)
  BY ZenonT(60), <1>1, <1>5, BlockCovers
<1>7. HeldAbove(b, s..(e - 1))
  <2> SUFFICES ASSUME NEW i \in s..(e - 1) PROVE i \in Held(b) /\ i >= b.ready_bytes
    BY ZenonT(60) DEF HeldAbove
  <2>1. i \in Index /\ i >= b.ready_bytes /\ (i = s \/ i \in (s + 1)..(e - 1))
    BY <1>2, <1>3, <1>5 DEF Index
  <2> QED BY ZenonT(60), <2>1, <1>1, <1>5, HeldFinite
<1> QED BY ZenonT(60), <1>3, <1>4, <1>6, <1>7 DEF e

LEMMA StartsAll ==
  ASSUME NEW b \in BufferType, NEW i \in Held(b), i >= b.ready_bytes
  PROVE  \E s \in Starts(b, {}) : i \in s..(RunEnd(b, s) - 1)
<1> DEFINE begins == {j \in b.ready_bytes..i : \A k \in j..i : OccupiedAt(b, k)}
<1>1. i \in Index /\ OccupiedAt(b, i)
  BY ZenonT(60), HeldFinite
<1>2. b.ready_bytes \in 0..capacity /\ capacity \in Nat /\ i \in Nat /\ i <= capacity - 1
  BY <1>1, SpaceFacts DEF BufferType, Index
<1>3. i \in begins
  <2>1. i \in b.ready_bytes..i /\ \A k \in i..i : k = i
    BY <1>2
  <2> QED BY ZenonT(60), <1>1, <2>1
<1>a. begins \subseteq b.ready_bytes..i
  BY ZenonT(60)
<1>4. begins \subseteq Nat
  <2> HIDE DEF begins
  <2> QED BY <1>2, <1>a
<1>5. PICK s \in begins : \A y \in begins : s <= y
  <2>1. begins # {}
    BY ZenonT(60), <1>3
  <2> HIDE DEF begins
  <2> QED BY ZenonT(60), <2>1, <1>4, MinOf
<1>6. s \in b.ready_bytes..i /\ \A k \in s..i : OccupiedAt(b, k)
  BY ZenonT(60), <1>5
<1>7. s \in b.ready_bytes..(capacity - 1) /\ s \in Index /\ s \in s..i /\ s \in Int /\ i \in s..i
  BY <1>2, <1>6 DEF Index
<1>8. s = b.ready_bytes \/ ~OccupiedAt(b, s - 1)
  <2> SUFFICES ASSUME s # b.ready_bytes, OccupiedAt(b, s - 1) PROVE FALSE
    BY ZenonT(60)
  <2>1. s - 1 \in b.ready_bytes..i /\ ~(s <= s - 1) /\ \A k \in (s - 1)..i : k = s - 1 \/ k \in s..i
    BY <1>2, <1>6, <1>7
  <2>2. s - 1 \in begins
    BY ZenonT(60), <1>6, <2>1
  <2> HIDE DEF begins
  <2> QED BY ZenonT(60), <1>5, <2>1, <2>2
<1>9. s \in Starts(b, {})
  <2>1. SackBlock(b, s, RunEnd(b, s)) \notin {}
    BY ZenonT(60)
  <2> QED BY ZenonT(60), <1>6, <1>7, <1>8, <2>1 DEF Starts
<1> DEFINE e == RunEnd(b, s)
<1>10. e \in (s + 1)..capacity /\ i + 1 <= e
  <2> DEFINE j == i + 1
  <2>1. j \in (s + 1)..capacity /\ \A k \in (s + 1)..(j - 1) : k \in s..i
    BY <1>2, <1>6, <1>7
  <2> HIDE DEF j
  <2>2. j <= e /\ e \in (s + 1)..capacity
    BY ZenonT(60), <1>6, <1>7, <2>1, RunEndIs
  <2> QED BY ZenonT(60), <2>2 DEF j
<1> HIDE DEF e
<1>11. i \in s..(e - 1)
  BY <1>2, <1>6, <1>7, <1>10
<1> QED BY ZenonT(60), <1>9, <1>11 DEF e

(* Skipping a block leaves out the runs that it is, and no other.            *)
LEMMA StartsSkip ==
  ASSUME NEW b, NEW skipped, NEW s \in Starts(b, {})
  PROVE  s \in Starts(b, skipped) \/ SackBlock(b, s, RunEnd(b, s)) \in skipped
BY ZenonT(60) DEF Starts

(* There is room in the ring for fewer runs than octets.                     *)
LEMMA StartsFew ==
  ASSUME NEW b \in BufferType, Prefix(b), NEW skipped
  PROVE  /\ IsFiniteSet(Starts(b, skipped)) /\ Starts(b, skipped) \subseteq Int
         /\ Cardinality(Starts(b, skipped)) \in 0..(capacity - 1)
<1> DEFINE S == Starts(b, skipped)
           T == 1..(capacity - 1)
<1>1. \A s \in S : s \in Index /\ s >= b.ready_bytes /\ s \in Held(b)
  BY ZenonT(60), StartsIs
<1>2. b.ready_bytes \in 0..capacity /\ capacity \in Nat \ {0}
  BY SpaceFacts DEF BufferType
<1>3. \A s \in S : s \in T
  <2> TAKE s \in S
  <2>1. s # 0
    <3> SUFFICES ASSUME s = 0 PROVE FALSE
      BY ZenonT(60)
    <3>1. s \in Index /\ s >= b.ready_bytes /\ s \in Held(b)
      BY ZenonT(60), <1>1
    <3>2. b.ready_bytes = s /\ b.ready_bytes < capacity
      BY <1>2, <3>1 DEF Index
    <3> QED BY ZenonT(60), <3>1, <3>2 DEF Prefix
  <2>2. s \in Index
    BY ZenonT(60), <1>1
  <2> QED BY <1>2, <2>1, <2>2 DEF Index
<1> DEFINE m == capacity - 1
<1>4. IsFiniteSet(T) /\ Cardinality(T) = m /\ m \in Nat
  <2>1. m \in Nat /\ 1 \in Int /\ m \in Int
    BY <1>2
  <2> HIDE DEF m
  <2>2. IsFiniteSet(1..m) /\ Cardinality(1..m) = IF 1 > m THEN 0 ELSE m - 1 + 1
    BY ZenonT(60), <2>1, FS_Interval
  <2>3. IsFiniteSet(1..m) /\ Cardinality(1..m) = m
    BY <2>1, <2>2
  <2> QED BY ZenonT(60), <2>1, <2>3 DEF m
<1> HIDE DEF S, T, m
<1>5. IsFiniteSet(S) /\ Cardinality(S) <= Cardinality(T)
  BY ZenonT(60), <1>3, <1>4, FS_Subset
<1>6. Cardinality(S) \in Nat
  BY ZenonT(60), <1>5, FS_CardinalityType
<1>7. Cardinality(S) \in 0..m
  BY <1>4, <1>5, <1>6
<1>8. S \subseteq Int
  BY <1>3 DEF T
<1> QED BY ZenonT(60), <1>5, <1>7, <1>8 DEF S, m

(* The block reported first, if there is one, covers octets that are held.   *)
LEMMA RecentIs ==
  ASSUME NEW b \in BufferType
  PROVE  /\ Recent(b) = << >> \/ Recent(b) = <<b.recent_sack>>
         /\ Recent(b) = <<b.recent_sack>> => HeldAbove(b, Covered(b, b.recent_sack))
         /\ b.recent_sack \in SackType
<1> DEFINE n == b.rcv_nxt
           l == b.recent_sack.left_edge
           r == b.recent_sack.right_edge
           f == (l - n) % SeqModulus
           width == (r - l) % SeqModulus
           begin == b.ready_bytes + f
           complete == /\ b.recent_sack_valid /\ width # 0 /\ begin - b.ready_bytes < Half
                       /\ \A i \in begin..(begin + width - 1) : i < capacity /\ OccupiedAt(b, i)
<1>1. Recent(b) = IF complete THEN <<b.recent_sack>> ELSE << >>
  BY ZenonT(60) DEF Recent
<1>2. /\ b.ready_bytes \in 0..capacity /\ capacity \in Nat /\ SeqModulus \in Nat \ {0}
      /\ b.recent_sack \in SackType /\ n \in Int
  BY SpaceFacts DEF BufferType
<1>3. l \in Int /\ r \in Int
  <2>1. l \in 0..(SeqModulus - 1) /\ r \in 0..(SeqModulus - 1)
    BY <1>2 DEF SackType
  <2> QED BY <1>2, <2>1
<1>4. f \in 0..(SeqModulus - 1) /\ width \in 0..(SeqModulus - 1)
  <2> DEFINE x == l - n
             y == r - l
  <2>1. x \in Int /\ y \in Int
    BY <1>2, <1>3
  <2> HIDE DEF x, y
  <2>2. x % SeqModulus \in 0..(SeqModulus - 1) /\ y % SeqModulus \in 0..(SeqModulus - 1)
    BY ZenonT(60), <1>2, <2>1, DivMod
  <2> QED BY ZenonT(60), <2>2 DEF x, y
<1>5. complete => HeldAbove(b, Covered(b, b.recent_sack))
  <2> SUFFICES ASSUME complete PROVE HeldAbove(b, Covered(b, b.recent_sack))
    BY ZenonT(60)
  <2>1. begin - b.ready_bytes < Half /\ \A i \in begin..(begin + width - 1) : i < capacity /\ OccupiedAt(b, i)
    BY ZenonT(60)
  <2>2. SequenceOffset(l, n) = IF f < Half THEN f ELSE f - SeqModulus
    BY ZenonT(60) DEF SequenceOffset
  <2> HIDE DEF f, width, complete
  <2>3. f < Half /\ begin \in Nat /\ begin >= b.ready_bytes
    BY <1>2, <1>4, <2>1
  <2>4. SequenceOffset(l, n) = f
    BY ZenonT(60), <2>2, <2>3
  <2>5. Covered(b, b.recent_sack) = begin..(begin + width - 1)
    BY ZenonT(60), <2>4 DEF Covered, width
  <2> HIDE DEF begin
  <2>6. \A i \in begin..(begin + width - 1) : i >= b.ready_bytes /\ i \in Held(b)
    <3> TAKE i \in begin..(begin + width - 1)
    <3>1. i < capacity /\ OccupiedAt(b, i)
      BY ZenonT(60), <2>1
    <3>2. i \in Index /\ i >= b.ready_bytes
      BY <3>1, <2>3, <1>2, <1>4 DEF Index
    <3> QED BY ZenonT(60), <3>1, <3>2, HeldFinite
  <2> QED BY ZenonT(60), <2>5, <2>6 DEF HeldAbove
<1> HIDE DEF complete
<1>6. << >> # <<b.recent_sack>>
  BY SMT
<1> QED BY ZenonT(60), <1>1, <1>2, <1>5, <1>6

(* What SackBlocks tells the client.                                         *)
LEMMA SackReports ==
  ASSUME NEW b \in BufferType, Prefix(b)
  PROVE  /\ \A m \in Nat : \A k \in 1..Len(SackBlocks(b, m)) :
                HeldAbove(b, Covered(b, SackBlocks(b, m)[k]))
         /\ \A i \in Held(b) : i >= b.ready_bytes =>
                \E k \in 1..Len(SackBlocks(b, capacity)) : i \in Covered(b, SackBlocks(b, capacity)[k])
<1> DEFINE A == Recent(b)
           K == {A[k] : k \in DOMAIN A}
           S == Starts(b, K)
           N == Cardinality(S)
           R == Runs(b, K)
           B == A \o R
           Run(s) == SackBlock(b, s, RunEnd(b, s))
<1>1. /\ A = << >> \/ A = <<b.recent_sack>>
      /\ A = <<b.recent_sack>> => HeldAbove(b, Covered(b, b.recent_sack))
      /\ b.recent_sack \in SackType
  BY ZenonT(60), RecentIs
<1> HIDE DEF A
<1>2. A \in Seq(SackType) /\ Len(A) \in 0..1
  <2>1. CASE A = << >>
    <3>1. Len(A) = 0 /\ A \in Seq(SackType)
      BY <2>1
    <3> QED BY <3>1
  <2>2. CASE A = <<b.recent_sack>>
    <3>1. Len(A) = 1 /\ A \in Seq(SackType)
      BY <2>2, <1>1
    <3> QED BY <3>1
  <2> QED BY ZenonT(60), <2>1, <2>2, <1>1
<1>3. \A k \in 1..Len(A) : A[k] = b.recent_sack /\ A = <<b.recent_sack>>
  BY <1>1
<1>4. \A x \in K : \E k \in 1..Len(A) : x = A[k]
  <2>1. DOMAIN A = 1..Len(A)
    BY <1>2
  <2> QED BY ZenonT(60), <2>1
<1> HIDE DEF K
<1>5. IsFiniteSet(S) /\ S \subseteq Int /\ N \in 0..(capacity - 1) /\ capacity \in Nat \ {0}
  BY ZenonT(60), StartsFew, SpaceFacts
<1>6. /\ N \in Nat
      /\ \A n \in 1..N : Nth(S, n) \in S
      /\ \A s \in S : \E n \in 1..N : Nth(S, n) = s
  BY ZenonT(60), <1>5, NthElement
<1>7. R = [n \in 1..N |-> Run(Nth(S, n))]
  BY ZenonT(60) DEF Runs
<1>8. \A s \in S : /\ s \in Index /\ s >= b.ready_bytes
                   /\ Covered(b, Run(s)) = s..(RunEnd(b, s) - 1)
                   /\ HeldAbove(b, Covered(b, Run(s)))
  BY ZenonT(60), StartsIs
<1>9. \A s \in S : Run(s) \in SackType
  <2> TAKE s \in S
  <2>1. s \in Index
    BY ZenonT(60), <1>8
  <2>2. RunEnd(b, s) \in (s + 1)..capacity
    BY ZenonT(60), <2>1, RunEndIs
  <2>3. s \in Int /\ RunEnd(b, s) \in Int
    BY <2>1, <2>2 DEF Index
  <2> QED BY ZenonT(60), <2>3, SackBlockType
<1> HIDE DEF S, N, R
<1>10. R \in Seq(SackType) /\ Len(R) = N /\ \A n \in 1..N : R[n] = Run(Nth(S, n))
  <2>1. R \in [1..N -> SackType]
    BY ZenonT(60), <1>6, <1>7, <1>9
  <2> QED BY ZenonT(60), <2>1, <1>6, <1>7, FunctionSeq
<1> HIDE DEF Run
<1>11. /\ B \in Seq(SackType) /\ Len(B) = Len(A) + N
       /\ \A k \in 1..Len(A) : B[k] = A[k]
       /\ \A n \in 1..N : B[Len(A) + n] = R[n]
  BY <1>2, <1>6, <1>10
<1>12. \A k \in 1..Len(B) : k \in 1..Len(A) \/ \E n \in 1..N : k = Len(A) + n
  <2> TAKE k \in 1..Len(B)
  <2>1. k \in 1..Len(A) \/ (k - Len(A) \in 1..N /\ k = Len(A) + (k - Len(A)))
    BY <1>2, <1>6, <1>11
  <2> QED BY ZenonT(60), <2>1
<1>13. \A k \in 1..Len(B) : HeldAbove(b, Covered(b, B[k]))
  <2> TAKE k \in 1..Len(B)
  <2>1. CASE k \in 1..Len(A)
    BY ZenonT(60), <2>1, <1>1, <1>3, <1>11
  <2>2. CASE \E n \in 1..N : k = Len(A) + n
    BY ZenonT(60), <2>2, <1>6, <1>8, <1>10, <1>11
  <2> QED BY ZenonT(60), <2>1, <2>2, <1>12
<1>14. Len(B) \in 0..capacity /\ Len(B) \in Nat
  <2>1. Len(A) \in 0..1 /\ N \in 0..(capacity - 1) /\ capacity \in Nat \ {0} /\ Len(B) = Len(A) + N
    BY ZenonT(60), <1>2, <1>5, <1>11
  <2> DEFINE x == Len(A)
             y == Len(B)
  <2> HIDE DEF x, y, N
  <2>2. x \in 0..1 /\ N \in 0..(capacity - 1) /\ capacity \in Nat \ {0} /\ y = x + N
    BY ZenonT(60), <2>1 DEF x, y
  <2>3. y \in 0..capacity /\ y \in Nat
    BY <2>2
  <2> QED BY ZenonT(60), <2>3 DEF y
<1>15. \A m \in Nat : /\ Len(SackBlocks(b, m)) = Smaller(m, Len(B))
                      /\ \A k \in 1..Smaller(m, Len(B)) : k \in 1..Len(B) /\ SackBlocks(b, m)[k] = B[k]
  <2> TAKE m \in Nat
  <2>1. SackBlocks(b, m) = SubSeq(B, 1, Smaller(m, Len(B)))
    BY ZenonT(60) DEF SackBlocks, FirstBlocks, A, K, R
  <2> HIDE DEF B
  <2>2. Smaller(m, Len(B)) \in 0..Len(B)
    BY <1>14 DEF Smaller
  <2> QED BY <2>1, <2>2, <1>11, <1>14
<1> HIDE DEF B
<1>16. \A m \in Nat : \A k \in 1..Len(SackBlocks(b, m)) : HeldAbove(b, Covered(b, SackBlocks(b, m)[k]))
  BY ZenonT(60), <1>13, <1>15
<1>17. \A i \in Held(b) : i >= b.ready_bytes => \E k \in 1..Len(B) : i \in Covered(b, B[k])
  <2> TAKE i \in Held(b)
  <2> HAVE i >= b.ready_bytes
  <2>1. PICK s \in Starts(b, {}) : i \in s..(RunEnd(b, s) - 1)
    BY ZenonT(60), StartsAll
  <2>2. Covered(b, Run(s)) = s..(RunEnd(b, s) - 1)
    BY ZenonT(60), StartsIs DEF Run
  <2>3. CASE s \in S
    <3>1. PICK n \in 1..N : Nth(S, n) = s
      BY ZenonT(60), <2>3, <1>6
    <3>2. B[Len(A) + n] = Run(s)
      BY ZenonT(60), <3>1, <1>10, <1>11
    <3>3. Len(A) + n \in 1..Len(B)
      BY <1>2, <1>6, <1>11
    <3> QED BY ZenonT(60), <3>2, <3>3, <2>1, <2>2
  <2>4. CASE Run(s) \in K
    <3>1. PICK k \in 1..Len(A) : Run(s) = A[k]
      BY ZenonT(60), <2>4, <1>4
    <3>2. B[k] = Run(s)
      BY ZenonT(60), <3>1, <1>11
    <3>3. k \in 1..Len(B)
      BY <1>2, <1>6, <1>11
    <3> QED BY ZenonT(60), <3>2, <3>3, <2>1, <2>2
  <2> QED BY ZenonT(60), <2>3, <2>4, StartsSkip DEF S, Run
<1>18. Smaller(capacity, Len(B)) = Len(B) /\ capacity \in Nat
  BY <1>5, <1>14 DEF Smaller
<1>19. \A i \in Held(b) : i >= b.ready_bytes =>
           \E k \in 1..Len(SackBlocks(b, capacity)) : i \in Covered(b, SackBlocks(b, capacity)[k])
  BY ZenonT(60), <1>15, <1>17, <1>18
<1> QED BY ZenonT(60), <1>16, <1>19

(* What the receive half holds, delivers and tells the client is the         *)
(* client's stream, for every capacity, sequence space and stream and        *)
(* whatever the segments, the session and the timers do: the octets reach    *)
(* the session once each and in order, the ring and its counters agree,      *)
(* RCV.NXT and the SACK blocks report exactly what is there, and an edge     *)
(* that an ACK announced stays acceptable.                                   *)
THEOREM ReceivedIsExact == Spec => []ReceiveExact
<1>1. IInv => ReceiveExact
  <2> SUFFICES ASSUME IInv PROVE ReceiveExact
    BY ZenonT(60)
  <2> DEFINE L == Len(delivered)
  <2>1. /\ Intact(buf, L, ack_edge) /\ Stream(delivered) /\ L \in Nat /\ ack_edge \in Nat
        /\ session \in {"none", "bound"} /\ delivery_pending \in BOOLEAN
    BY ZenonT(60), StreamLen DEF IInv, Edges, After
  <2>2. /\ buf \in BufferType /\ Ring(buf, L) /\ Prefix(buf) /\ Numbered(buf, L)
    BY ZenonT(60), <2>1 DEF Intact, Ring
  <2>3. TypeOK
    <3>1. buf.bytes_held \in buf.ready_bytes..capacity /\ buf.ready_bytes \in 0..capacity
      BY ZenonT(60), <2>1, BytesHeld
    <3>2. /\ buf.storage \in [Index -> 0..MaxStream] /\ buf.occupied \in [Index -> BOOLEAN]
          /\ buf.first_index \in Index
          /\ {buf.rcv_nxt, buf.rcv_adv} \subseteq 0..(SeqModulus - 1)
          /\ {buf.blocked, buf.delayed_ack_pending, buf.fin_received, buf.recent_sack_valid} \subseteq BOOLEAN
      BY <2>2 DEF BufferType
    <3>3. /\ {write_shutdown, delivery_pending, close_flow, ack_timer} \subseteq BOOLEAN
          /\ {last_ack, ack_edge, data_edge} \subseteq Nat
      BY ZenonT(60), <2>1 DEF IInv, Flags, Edges
    <3> QED BY ZenonT(60), <2>1, <3>1, <3>2, <3>3 DEF TypeOK, Stream
  <2>4. StreamIntact
    BY ZenonT(60), <2>1, <2>2 DEF StreamIntact, Stream, Ring
  <2>5. ReadyIsPrefix
    BY ZenonT(60), <2>2 DEF ReadyIsPrefix, Ring, Prefix, Numbered, RcvNxtPosition
  <2>6. SackExact
    <3> DEFINE Reported(n) == UNION {Covered(buf, SackBlocks(buf, n)[k]) :
                                       k \in 1..Len(SackBlocks(buf, n))}
               outOfOrder == {i \in Held(buf) : i >= buf.ready_bytes}
    <3>1. /\ \A m \in Nat : \A k \in 1..Len(SackBlocks(buf, m)) :
                 HeldAbove(buf, Covered(buf, SackBlocks(buf, m)[k]))
          /\ \A i \in Held(buf) : i >= buf.ready_bytes =>
                 \E k \in 1..Len(SackBlocks(buf, capacity)) : i \in Covered(buf, SackBlocks(buf, capacity)[k])
      BY ZenonT(60), <2>2, SackReports
    <3>2. \A m \in Nat : Reported(m) \subseteq outOfOrder
      <4> TAKE m \in Nat
      <4> SUFFICES ASSUME NEW i \in Reported(m) PROVE i \in outOfOrder
        BY ZenonT(60)
      <4>1. PICK k \in 1..Len(SackBlocks(buf, m)) : i \in Covered(buf, SackBlocks(buf, m)[k])
        BY ZenonT(60)
      <4> QED BY ZenonT(60), <3>1, <4>1 DEF HeldAbove
    <3>3. outOfOrder \subseteq Reported(capacity)
      BY ZenonT(60), <3>1
    <3>4. capacity \in Nat /\ MaxSackBlocks \in Nat
      BY ReceiveAssumption
    <3>5. Reported(MaxSackBlocks) \subseteq outOfOrder /\ Reported(capacity) = outOfOrder
      <4> HIDE DEF Reported, outOfOrder
      <4> QED BY ZenonT(60), <3>2, <3>3, <3>4
    <3> QED BY ZenonT(60), <3>5 DEF SackExact
  <2>7. AckWindowHonoured
    <3> SUFFICES ASSUME ~buf.fin_received
                 PROVE  AcceptableWindow(buf) >= ack_edge - RcvNxtPosition(buf, delivered)
      BY ZenonT(60) DEF AckWindowHonoured
    <3>1. AcceptableWindow(buf) = ack_edge - (L + buf.ready_bytes) /\ L + buf.ready_bytes \in Nat
      BY ZenonT(60), <2>1, AcceptableIs
    <3>2. RcvNxtPosition(buf, delivered) = L + buf.ready_bytes + 0
      BY ZenonT(60) DEF RcvNxtPosition
    <3>3. buf.ready_bytes \in Int
      BY <2>2, SpaceFacts DEF BufferType
    <3> HIDE DEF L
    <3> QED BY <2>1, <3>1, <3>2, <3>3
  <2> QED BY ZenonT(60), <2>3, <2>4, <2>5, <2>6, <2>7 DEF ReceiveExact
<1> QED BY <1>1, InvHolds, PTL

=============================================================================
