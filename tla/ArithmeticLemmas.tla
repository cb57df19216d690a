-------------------------- MODULE ArithmeticLemmas --------------------------
(***************************************************************************)
(* Facts the proofs about the components share.  Induction first, stated   *)
(* for sets of numbers and sets of subsets in place of predicates.  Then   *)
(* SumFunctionOnSet and SumFunction of module Functions, which count       *)
(* octets, leases and packets: the order in which a sum takes its terms    *)
(* does not matter (Functions takes them in the order of CHOOSE, by        *)
(* recursion over subsets), and what one step changes in it.  Last,        *)
(* counters and sequence numbers that wrap.                                *)
(***************************************************************************)
EXTENDS Integers, Sequences, FiniteSets, Functions, FiniteSetTheorems, WellFoundedInduction, TLAPS

-----------------------------------------------------------------------------
(* Induction. *)

(* A set of natural numbers that is not empty has a least element.          *)
LEMMA LeastNat ==
  ASSUME NEW T, T \subseteq Nat, T # {}
  PROVE  \E x \in T : \A y \in T : x <= y
<1> DEFINE R == OpToRel(<, Nat)
<1>1. IsWellFoundedOn(R, Nat)
  BY NatLessThanWellFounded
<1>2. \A x, y \in Nat : y < x => <<y, x>> \in R
  BY DEF OpToRel
<1> HIDE DEF R
<1>3. PICK x \in T : \A y \in T : ~(<<y, x>> \in R)
  BY <1>1, WFMin
<1>4. \A y \in T : ~(y < x)
  BY ZenonT(60), <1>2, <1>3
<1>5. \A y \in T : x <= y
  BY <1>4
<1> QED
  BY ZenonT(60), <1>5

(* A set that has 0 and, with every number, the next one has all numbers.   *)
LEMMA NatSetInduction ==
  ASSUME NEW S, 0 \in S, \A n \in Nat : n \in S => n + 1 \in S
  PROVE  Nat \subseteq S
<1> SUFFICES ASSUME Nat \ S # {} PROVE FALSE
  BY ZenonT(60)
<1>1. PICK x \in Nat \ S : \A y \in Nat \ S : x <= y
  BY LeastNat
<1>2. x # 0 /\ x - 1 \in Nat /\ x - 1 \notin Nat \ S
  BY <1>1
<1> QED
  BY <1>2

(* A collection of subsets of a finite set that has a set whenever it has   *)
(* all that lack one of its elements has all subsets.                       *)
LEMMA SubsetInduction ==
  ASSUME NEW S, IsFiniteSet(S), NEW Q,
         \A T \in SUBSET S : (\A x \in T : T \ {x} \in Q) => T \in Q
  PROVE  SUBSET S \subseteq Q
<1> SUFFICES ASSUME (SUBSET S) \ Q # {} PROVE FALSE
  BY ZenonT(60)
<1>0. \A T \in SUBSET S : IsFiniteSet(T) /\ Cardinality(T) \in Nat
  BY ZenonT(60), FS_Subset, FS_CardinalityType
<1> DEFINE sizes == {Cardinality(T) : T \in (SUBSET S) \ Q}
<1>1. sizes \subseteq Nat /\ sizes # {}
  BY <1>0
<1>2. PICK n \in sizes : \A m \in sizes : n <= m
  BY <1>1, LeastNat
<1>3. PICK T \in (SUBSET S) \ Q : n = Cardinality(T)
  BY ZenonT(60), <1>2
<1>4. ASSUME NEW x \in T PROVE T \ {x} \in Q
  <2>1. T \ {x} \in SUBSET S /\ Cardinality(T \ {x}) = Cardinality(T) - 1
    BY <1>0, <1>3, FS_RemoveElement
  <2>2. ~(n <= Cardinality(T \ {x}))
    BY <1>0, <1>3, <2>1
  <2>3. Cardinality(T \ {x}) \notin sizes
    BY ZenonT(60), <1>2, <2>2
  <2> QED
    BY ZenonT(60), <2>1, <2>3
<1> QED
  BY ZenonT(60), <1>3, <1>4

-----------------------------------------------------------------------------
(* The recursion of module Folds, for sums. *)

FirstOf(s) == CHOOSE x \in s : TRUE
TermAnd(f, g, s) == IF s = {} THEN 0 ELSE f[FirstOf(s)] + g[s \ {FirstOf(s)}]
PartialSums(f, S) == CHOOSE g : g = [s \in SUBSET S |-> IF s = {} THEN 0 ELSE f[FirstOf(s)] + g[s \ {FirstOf(s)}]]

LEMMA PickIn ==
  ASSUME NEW s, s # {}
  PROVE  FirstOf(s) \in s
BY ZenonT(60) DEF FirstOf

(* SumFunctionOnSet is the value of that recursion at the whole set.        *)
LEMMA SumIsIter ==
  ASSUME NEW f, NEW S
  PROVE  SumFunctionOnSet(f, S) = PartialSums(f, S)[S]
BY ZenonT(60) DEF SumFunctionOnSet, FoldFunctionOnSet, MapThenFoldSet, PartialSums, FirstOf

(* The recursion has a solution on the subsets of at most n elements.       *)
LEMMA IterUpTo ==
  ASSUME NEW S, IsFiniteSet(S), NEW f, \A x \in S : f[x] \in Int, NEW n \in Nat
  PROVE  \E g \in [{s \in SUBSET S : Cardinality(s) <= n} -> Int] :
            \A s \in SUBSET S : Cardinality(s) <= n => g[s] = TermAnd(f, g, s)
<1> DEFINE D(k) == {s \in SUBSET S : Cardinality(s) <= k}
           Solves(g, k) == \A s \in D(k) : g[s] = TermAnd(f, g, s)
           K == {k \in Nat : \E g \in [D(k) -> Int] : Solves(g, k)}
<1>0. \A s \in SUBSET S : IsFiniteSet(s) /\ Cardinality(s) \in Nat
  BY ZenonT(60), FS_Subset, FS_CardinalityType
<1>1. 0 \in K
  <2> DEFINE g == [s \in D(0) |-> 0]
  <2>1. \A s \in D(0) : s = {}
    <3> TAKE s \in D(0)
    <3>1. Cardinality(s) = 0
      BY <1>0
    <3> QED
      BY ZenonT(60), <1>0, <3>1, FS_EmptySet
  <2>2. Solves(g, 0)
    BY ZenonT(60), <2>1 DEF TermAnd
  <2>3. g \in [D(0) -> Int]
    BY SMT
  <2> HIDE DEF g, D, Solves
  <2> QED
    BY ZenonT(60), <2>2, <2>3
<1>2. ASSUME NEW k \in Nat, k \in K PROVE k + 1 \in K
  <2>1. PICK g \in [D(k) -> Int] : Solves(g, k)
    BY ZenonT(60), <1>2
  <2> DEFINE h == [s \in D(k + 1) |-> TermAnd(f, g, s)]
  <2>2. \A s \in D(k + 1) : s # {} => s \ {FirstOf(s)} \in D(k) /\ FirstOf(s) \in S
    <3> TAKE s \in D(k + 1)
    <3> HAVE s # {}
    <3>1. FirstOf(s) \in s
      BY ZenonT(60), PickIn
    <3>2. Cardinality(s \ {FirstOf(s)}) = Cardinality(s) - 1
      BY ZenonT(60), <1>0, <3>1, FS_RemoveElement
    <3> QED
      BY <1>0, <3>1, <3>2
  <2>3. h \in [D(k + 1) -> Int]
    <3> SUFFICES ASSUME NEW s \in D(k + 1) PROVE TermAnd(f, g, s) \in Int
      BY ZenonT(60)
    <3>1. CASE s = {}
      BY <3>1 DEF TermAnd
    <3>2. CASE s # {}
      <4>1. f[FirstOf(s)] \in Int /\ g[s \ {FirstOf(s)}] \in Int
        BY ZenonT(60), <2>2, <3>2
      <4> QED
        BY <4>1, <3>2 DEF TermAnd
    <3> QED
      BY <3>1, <3>2
  <2>4. \A s \in D(k) : s \in D(k + 1)
    BY <1>0
  <2>5. \A s \in D(k) : h[s] = g[s]
    BY ZenonT(60), <2>1, <2>4
  <2>6. Solves(h, k + 1)
    <3> SUFFICES ASSUME NEW s \in D(k + 1) PROVE h[s] = TermAnd(f, h, s)
      BY ZenonT(60)
    <3>1. h[s] = TermAnd(f, g, s)
      BY ZenonT(60)
    <3>2. s # {} => h[s \ {FirstOf(s)}] = g[s \ {FirstOf(s)}]
      BY ZenonT(60), <2>2, <2>5
    <3> HIDE DEF h
    <3> QED
      BY ZenonT(60), <3>1, <3>2 DEF TermAnd
  <2> HIDE DEF h, D, Solves
  <2> QED
    BY <2>3, <2>6
<1>3. n \in K
  <2> HIDE DEF K
  <2> QED
    BY <1>1, <1>2, NatSetInduction
<1>4. PICK g \in [D(n) -> Int] : Solves(g, n)
  BY ZenonT(60), <1>3
<1>5. \A s \in SUBSET S : Cardinality(s) <= n => g[s] = TermAnd(f, g, s)
  BY ZenonT(60), <1>4
<1> QED
  BY ZenonT(60), <1>5

(* On a finite set the recursion is defined, and gives an integer.           *)
LEMMA IterSolves ==
  ASSUME NEW S, IsFiniteSet(S), NEW f, \A x \in S : f[x] \in Int
  PROVE  \A s \in SUBSET S : /\ PartialSums(f, S)[s] = TermAnd(f, PartialSums(f, S), s)
                             /\ PartialSums(f, S)[s] \in Int
<1> DEFINE it == PartialSums(f, S)
<1>1. PICK n \in Nat : n = Cardinality(S)
  BY ZenonT(60), FS_CardinalityType
<1>2. \A s \in SUBSET S : Cardinality(s) <= n
  BY ZenonT(60), <1>1, FS_Subset
<1>3. PICK g \in [{s \in SUBSET S : Cardinality(s) <= n} -> Int] :
          \A s \in SUBSET S : Cardinality(s) <= n => g[s] = TermAnd(f, g, s)
  BY IterUpTo
<1>4. {s \in SUBSET S : Cardinality(s) <= n} = SUBSET S
  BY ZenonT(60), <1>2
<1>5. g = [s \in SUBSET S |-> IF s = {} THEN 0 ELSE f[FirstOf(s)] + g[s \ {FirstOf(s)}]]
  BY <1>2, <1>3, <1>4 DEF TermAnd
<1>6. it = [s \in SUBSET S |-> IF s = {} THEN 0 ELSE f[FirstOf(s)] + it[s \ {FirstOf(s)}]]
  BY ZenonT(60), <1>5 DEF PartialSums
<1> HIDE DEF it
<1>7. \A s \in SUBSET S : it[s] = TermAnd(f, it, s)
  BY ZenonT(60), <1>6 DEF TermAnd
<1> DEFINE Q == {s \in SUBSET S : it[s] \in Int}
<1>8. ASSUME NEW T \in SUBSET S, \A x \in T : T \ {x} \in Q PROVE T \in Q
  <2>1. CASE T = {}
    <3>1. it[T] = 0
      BY ZenonT(60), <1>7, <2>1 DEF TermAnd
    <3> QED
      BY <3>1
  <2>2. CASE T # {}
    <3>1. FirstOf(T) \in T
      BY ZenonT(60), <2>2, PickIn
    <3>2. f[FirstOf(T)] \in Int /\ it[T \ {FirstOf(T)}] \in Int
      BY ZenonT(60), <1>8, <3>1
    <3>3. it[T] = f[FirstOf(T)] + it[T \ {FirstOf(T)}]
      BY ZenonT(60), <1>7, <2>2 DEF TermAnd
    <3> QED
      BY <3>2, <3>3
  <2> QED
    BY ZenonT(60), <2>1, <2>2
<1>9. SUBSET S \subseteq Q
  <2> HIDE DEF Q
  <2> QED
    BY ZenonT(60), <1>8, SubsetInduction
<1> QED
  BY ZenonT(60), <1>7, <1>9 DEF it

(* It does not depend on the set whose subsets it runs over.                *)
LEMMA IterAgrees ==
  ASSUME NEW S, IsFiniteSet(S), NEW f, \A x \in S : f[x] \in Int, NEW R \in SUBSET S
  PROVE  PartialSums(f, S)[R] = PartialSums(f, R)[R]
<1>1. IsFiniteSet(R) /\ \A x \in R : f[x] \in Int
  BY ZenonT(60), FS_Subset
<1> DEFINE u == PartialSums(f, S)
           v == PartialSums(f, R)
           Q == {s \in SUBSET R : u[s] = v[s]}
<1>2. \A s \in SUBSET R : u[s] = TermAnd(f, u, s)
  BY ZenonT(60), IterSolves
<1>3. \A s \in SUBSET R : v[s] = TermAnd(f, v, s)
  BY ZenonT(60), <1>1, IterSolves
<1> HIDE DEF u, v
<1>4. ASSUME NEW T \in SUBSET R, \A x \in T : T \ {x} \in Q PROVE T \in Q
  <2>1. CASE T = {}
    BY ZenonT(60), <1>2, <1>3, <2>1 DEF TermAnd
  <2>2. CASE T # {}
    BY ZenonT(60), <1>2, <1>3, <1>4, <2>2, PickIn DEF TermAnd
  <2> QED
    BY ZenonT(60), <2>1, <2>2
<1>5. SUBSET R \subseteq Q
  <2> HIDE DEF Q
  <2> QED
    BY ZenonT(60), <1>1, <1>4, SubsetInduction
<1> QED
  BY ZenonT(60), <1>5 DEF u, v

-----------------------------------------------------------------------------
(* Sums over finite sets. *)

(* A sum of integers is an integer; over no terms it is zero.               *)
LEMMA SumType ==
  ASSUME NEW S, IsFiniteSet(S), NEW f, \A x \in S : f[x] \in Int
  PROVE  SumFunctionOnSet(f, S) \in Int
BY ZenonT(60), SumIsIter, IterSolves

LEMMA SumEmpty ==
  ASSUME NEW f
  PROVE  SumFunctionOnSet(f, {}) = 0
<1>1. IsFiniteSet({})
  BY ZenonT(60), FS_EmptySet
<1>2. \A x \in {} : f[x] \in Int
  BY ZenonT(60)
<1>3. PartialSums(f, {})[{}] = TermAnd(f, PartialSums(f, {}), {})
  BY ZenonT(60), <1>1, <1>2, IterSolves
<1> QED
  BY ZenonT(60), <1>3, SumIsIter DEF TermAnd

(* The term the recursion takes first can be split off ...                  *)
LEMMA SumPick ==
  ASSUME NEW S, IsFiniteSet(S), NEW f, \A x \in S : f[x] \in Int, S # {}
  PROVE  SumFunctionOnSet(f, S) = f[FirstOf(S)] + SumFunctionOnSet(f, S \ {FirstOf(S)})
<1>1. PartialSums(f, S)[S] = f[FirstOf(S)] + PartialSums(f, S)[S \ {FirstOf(S)}]
  BY ZenonT(60), IterSolves DEF TermAnd
<1>2. PartialSums(f, S)[S \ {FirstOf(S)}] = PartialSums(f, S \ {FirstOf(S)})[S \ {FirstOf(S)}]
  BY ZenonT(60), IterAgrees
<1> QED
  BY ZenonT(60), <1>1, <1>2, SumIsIter

(* ... and so can any other: the order of the terms does not matter.        *)
LEMMA SumSplit ==
  ASSUME NEW S, IsFiniteSet(S), NEW f, \A x \in S : f[x] \in Int, NEW e \in S
  PROVE  SumFunctionOnSet(f, S) = f[e] + SumFunctionOnSet(f, S \ {e})
<1> DEFINE Sum(T) == SumFunctionOnSet(f, T)
           Q == {T \in SUBSET S : \A x \in T : Sum(T) = f[x] + Sum(T \ {x})}
<1>1. \A T \in SUBSET S : IsFiniteSet(T)
  BY ZenonT(60), FS_Subset
<1>2. \A T \in SUBSET S : Sum(T) \in Int
  BY ZenonT(60), <1>1, SumType
<1>3. \A T \in SUBSET S : T # {} => Sum(T) = f[FirstOf(T)] + Sum(T \ {FirstOf(T)})
  BY ZenonT(60), <1>1, SumPick
<1> HIDE DEF Sum
<1>4. ASSUME NEW T \in SUBSET S, \A x \in T : T \ {x} \in Q PROVE T \in Q
  <2> SUFFICES ASSUME NEW x \in T PROVE Sum(T) = f[x] + Sum(T \ {x})
    BY ZenonT(60)
  <2> DEFINE p == FirstOf(T)
  <2>1. p \in T
    BY ZenonT(60), PickIn
  <2>2. Sum(T) = f[p] + Sum(T \ {p})
    BY ZenonT(60), <1>3, <2>1
  <2> HIDE DEF p
  <2>3. CASE x = p
    BY ZenonT(60), <2>2, <2>3
  <2>4. CASE x # p
    <3>1. Sum(T \ {p}) = f[x] + Sum((T \ {p}) \ {x})
      BY ZenonT(60), <1>4, <2>1, <2>4
    <3>2. Sum(T \ {x}) = f[p] + Sum((T \ {x}) \ {p})
      BY ZenonT(60), <1>4, <2>1, <2>4
    <3>3. (T \ {p}) \ {x} = (T \ {x}) \ {p}
      BY ZenonT(60)
    <3>4. Sum((T \ {x}) \ {p}) \in Int /\ f[x] \in Int /\ f[p] \in Int
      BY ZenonT(60), <1>2, <2>1
    <3>5. \A a, b, c \in Int : a + (b + c) = b + (a + c)
      BY SMT
    <3>6. Sum(T) = f[p] + (f[x] + Sum((T \ {x}) \ {p}))
      BY ZenonT(60), <2>2, <3>1, <3>3
    <3>7. f[p] + (f[x] + Sum((T \ {x}) \ {p})) = f[x] + (f[p] + Sum((T \ {x}) \ {p}))
      BY ZenonT(60), <3>4, <3>5
    <3> QED
      BY ZenonT(60), <3>2, <3>6, <3>7
  <2> QED
    BY ZenonT(60), <2>3, <2>4
<1>5. S \in Q
  <2> HIDE DEF Q
  <2> QED
    BY ZenonT(60), <1>4, SubsetInduction
<1> QED
  BY ZenonT(60), <1>5 DEF Sum

(* A sum depends only on the terms it adds up.                              *)
LEMMA SumCongruent ==
  ASSUME NEW S, IsFiniteSet(S), NEW f, NEW g,
         \A x \in S : f[x] \in Int /\ g[x] = f[x]
  PROVE  SumFunctionOnSet(g, S) = SumFunctionOnSet(f, S)
<1> DEFINE F(T) == SumFunctionOnSet(f, T)
           G(T) == SumFunctionOnSet(g, T)
           Q == {T \in SUBSET S : G(T) = F(T)}
<1>1. \A T \in SUBSET S : IsFiniteSet(T)
  BY ZenonT(60), FS_Subset
<1>2. \A T \in SUBSET S : T # {} => F(T) = f[FirstOf(T)] + F(T \ {FirstOf(T)})
  BY ZenonT(60), <1>1, SumPick
<1>3. \A T \in SUBSET S : T # {} => G(T) = g[FirstOf(T)] + G(T \ {FirstOf(T)})
  BY ZenonT(60), <1>1, SumPick
<1>4. F({}) = 0 /\ G({}) = 0
  BY ZenonT(60), SumEmpty
<1> HIDE DEF F, G
<1>5. ASSUME NEW T \in SUBSET S, \A x \in T : T \ {x} \in Q PROVE T \in Q
  <2>1. CASE T = {}
    BY ZenonT(60), <1>4, <2>1
  <2>2. CASE T # {}
    <3>1. FirstOf(T) \in T
      BY ZenonT(60), <2>2, PickIn
    <3>2. G(T \ {FirstOf(T)}) = F(T \ {FirstOf(T)}) /\ g[FirstOf(T)] = f[FirstOf(T)]
      BY ZenonT(60), <1>5, <3>1
    <3> QED
      BY ZenonT(60), <1>2, <1>3, <2>2, <3>2
  <2> QED
    BY ZenonT(60), <2>1, <2>2
<1>6. S \in Q
  <2> HIDE DEF Q
  <2> QED
    BY ZenonT(60), <1>5, SubsetInduction
<1> QED
  BY ZenonT(60), <1>6 DEF F, G

(* Adding a term, and changing one.                                         *)
LEMMA SumAdd ==
  ASSUME NEW S, IsFiniteSet(S), NEW f, NEW e, e \notin S,
         \A x \in S \cup {e} : f[x] \in Int
  PROVE  SumFunctionOnSet(f, S \cup {e}) = f[e] + SumFunctionOnSet(f, S)
<1>1. IsFiniteSet(S \cup {e})
  BY ZenonT(60), FS_AddElement
<1>2. (S \cup {e}) \ {e} = S
  BY ZenonT(60)
<1>3. SumFunctionOnSet(f, S \cup {e}) = f[e] + SumFunctionOnSet(f, (S \cup {e}) \ {e})
  BY ZenonT(60), <1>1, SumSplit
<1> QED
  BY ZenonT(60), <1>2, <1>3

LEMMA SumChange ==
  ASSUME NEW S, IsFiniteSet(S), NEW f, NEW g, NEW e \in S,
         \A x \in S : f[x] \in Int /\ g[x] \in Int,
         \A x \in S \ {e} : g[x] = f[x]
  PROVE  SumFunctionOnSet(g, S) = SumFunctionOnSet(f, S) - f[e] + g[e]
<1> DEFINE r == SumFunctionOnSet(f, S \ {e})
<1>1. IsFiniteSet(S \ {e})
  BY ZenonT(60), FS_Subset
<1>2. r \in Int
  BY ZenonT(60), <1>1, SumType
<1>3. SumFunctionOnSet(f, S) = f[e] + r
  BY ZenonT(60), SumSplit
<1>4. SumFunctionOnSet(g, S) = g[e] + SumFunctionOnSet(g, S \ {e})
  BY ZenonT(60), SumSplit
<1>5. SumFunctionOnSet(g, S \ {e}) = r
  BY ZenonT(60), <1>1, SumCongruent
<1>6. f[e] \in Int /\ g[e] \in Int
  BY ZenonT(60)
<1> HIDE DEF r
<1> QED
  BY <1>2, <1>3, <1>4, <1>5, <1>6

(* Terms that are natural numbers: no term exceeds their sum.               *)
LEMMA SumNat ==
  ASSUME NEW S, IsFiniteSet(S), NEW f, \A x \in S : f[x] \in Nat
  PROVE  /\ SumFunctionOnSet(f, S) \in Nat
         /\ \A x \in S : f[x] <= SumFunctionOnSet(f, S)
<1> DEFINE F(T) == SumFunctionOnSet(f, T)
           Q == {T \in SUBSET S : F(T) \in Nat}
<1>0. \A x \in S : f[x] \in Int
  BY SMT
<1>1. \A T \in SUBSET S : IsFiniteSet(T)
  BY ZenonT(60), FS_Subset
<1>2. \A T \in SUBSET S : \A x \in T : F(T) = f[x] + F(T \ {x})
  BY ZenonT(60), <1>0, <1>1, SumSplit
<1>3. F({}) = 0
  BY ZenonT(60), SumEmpty
<1> HIDE DEF F
<1>4. ASSUME NEW T \in SUBSET S, \A x \in T : T \ {x} \in Q PROVE T \in Q
  <2>1. CASE T = {}
    BY <1>3, <2>1
  <2>2. CASE T # {}
    <3>1. PICK x \in T : TRUE
      BY ZenonT(60), <2>2
    <3>2. F(T) = f[x] + F(T \ {x}) /\ F(T \ {x}) \in Nat /\ f[x] \in Nat
      BY ZenonT(60), <1>2, <1>4
    <3>3. F(T) \in Nat
      BY <3>2
    <3> QED
      BY ZenonT(60), <3>3
  <2> QED
    BY ZenonT(60), <2>1, <2>2
<1>5. SUBSET S \subseteq Q
  <2> HIDE DEF Q
  <2> QED
    BY ZenonT(60), <1>4, SubsetInduction
<1>6. ASSUME NEW x \in S PROVE f[x] <= F(S)
  <2>1. F(S) = f[x] + F(S \ {x}) /\ F(S \ {x}) \in Nat /\ f[x] \in Nat
    BY ZenonT(60), <1>2, <1>5
  <2> QED
    BY <2>1
<1> QED
  BY ZenonT(60), <1>5, <1>6 DEF F

(* A sum of terms none of which is larger is not larger.                     *)
LEMMA SumMonotone ==
  ASSUME NEW S, IsFiniteSet(S), NEW f, NEW g,
         \A x \in S : f[x] \in Int /\ g[x] \in Int /\ g[x] <= f[x]
  PROVE  SumFunctionOnSet(g, S) <= SumFunctionOnSet(f, S)
<1> DEFINE F(T) == SumFunctionOnSet(f, T)
           G(T) == SumFunctionOnSet(g, T)
           Q == {T \in SUBSET S : G(T) <= F(T)}
<1>1. \A T \in SUBSET S : IsFiniteSet(T)
  BY ZenonT(60), FS_Subset
<1>2. \A T \in SUBSET S : \A x \in T : F(T) = f[x] + F(T \ {x}) /\ G(T) = g[x] + G(T \ {x})
  BY ZenonT(60), <1>1, SumSplit
<1>3. F({}) = 0 /\ G({}) = 0
  BY ZenonT(60), SumEmpty
<1>4. \A T \in SUBSET S : F(T) \in Int /\ G(T) \in Int
  BY ZenonT(60), <1>1, SumType
<1> HIDE DEF F, G
<1>5. ASSUME NEW T \in SUBSET S, \A x \in T : T \ {x} \in Q PROVE T \in Q
  <2>1. CASE T = {}
    BY <1>3, <2>1
  <2>2. CASE T # {}
    <3>1. PICK x \in T : TRUE
      BY ZenonT(60), <2>2
    <3>2. /\ F(T) = f[x] + F(T \ {x}) /\ G(T) = g[x] + G(T \ {x})
          /\ G(T \ {x}) <= F(T \ {x}) /\ g[x] <= f[x] /\ f[x] \in Int /\ g[x] \in Int
      BY ZenonT(60), <1>2, <1>5
    <3>3. F(T \ {x}) \in Int /\ G(T \ {x}) \in Int
      BY ZenonT(60), <1>4
    <3>4. G(T) <= F(T)
      BY <3>2, <3>3
    <3> QED
      BY ZenonT(60), <3>4
  <2> QED
    BY ZenonT(60), <2>1, <2>2
<1>6. SUBSET S \subseteq Q
  <2> HIDE DEF Q
  <2> QED
    BY ZenonT(60), <1>5, SubsetInduction
<1> QED
  BY ZenonT(60), <1>6 DEF F, G

(* Renaming the indices.                                                    *)
LEMMA SumRename ==
  ASSUME NEW S, IsFiniteSet(S), NEW f, NEW g, NEW R, NEW h \in Bijection(S, R),
         \A x \in S : g[x] \in Int /\ g[x] = f[h[x]]
  PROVE  SumFunctionOnSet(g, S) = SumFunctionOnSet(f, R)
<1> DEFINE Image(T) == {h[x] : x \in T}
           F(T) == SumFunctionOnSet(f, Image(T))
           G(T) == SumFunctionOnSet(g, T)
           Q == {T \in SUBSET S : G(T) = F(T)}
<1>0. /\ \A x \in S : h[x] \in R
      /\ \A y \in R : \E x \in S : y = h[x]
      /\ \A x, y \in S : h[x] = h[y] => x = y
  BY ZenonT(60) DEF Bijection, Injection, Surjection, IsInjective
<1>1. \A T \in SUBSET S : IsFiniteSet(T) /\ IsFiniteSet(Image(T))
  <2> TAKE T \in SUBSET S
  <2>1. IsFiniteSet(T)
    BY ZenonT(60), FS_Subset
  <2>2. [x \in T |-> h[x]] \in Surjection(T, Image(T))
    BY SMT DEF Surjection
  <2> HIDE DEF Image
  <2> QED
    BY ZenonT(60), <2>1, <2>2, FS_Surjection
<1>2. \A T \in SUBSET S : \A x \in T : Image(T) \ {h[x]} = Image(T \ {x})
  BY SMT, <1>0
<1>3. \A T \in SUBSET S : \A x \in T : F(T) = f[h[x]] + F(T \ {x})
  <2> TAKE T \in SUBSET S
  <2> TAKE x \in T
  <2>1. \A y \in Image(T) : f[y] \in Int
    BY SMT
  <2>2. h[x] \in Image(T)
    BY ZenonT(60)
  <2> HIDE DEF Image
  <2>3. SumFunctionOnSet(f, Image(T)) = f[h[x]] + SumFunctionOnSet(f, Image(T) \ {h[x]})
    BY ZenonT(60), <1>1, <2>1, <2>2, SumSplit
  <2> QED
    BY ZenonT(60), <1>2, <2>3
<1>4. \A T \in SUBSET S : \A x \in T : G(T) = g[x] + G(T \ {x})
  BY ZenonT(60), <1>1, SumSplit
<1>5. F({}) = 0 /\ G({}) = 0
  <2>1. Image({}) = {}
    BY ZenonT(60)
  <2> QED
    BY ZenonT(60), <2>1, SumEmpty
<1> HIDE DEF F, G
<1>6. ASSUME NEW T \in SUBSET S, \A x \in T : T \ {x} \in Q PROVE T \in Q
  <2>1. CASE T = {}
    BY ZenonT(60), <1>5, <2>1
  <2>2. CASE T # {}
    <3>1. PICK x \in T : TRUE
      BY ZenonT(60), <2>2
    <3>2. G(T \ {x}) = F(T \ {x}) /\ g[x] = f[h[x]]
      BY ZenonT(60), <1>6
    <3>3. F(T) = f[h[x]] + F(T \ {x}) /\ G(T) = g[x] + G(T \ {x})
      BY ZenonT(60), <1>3, <1>4
    <3>4. G(T) = F(T)
      BY ZenonT(60), <3>2, <3>3
    <3> QED
      BY ZenonT(60), <3>4
  <2> QED
    BY ZenonT(60), <2>1, <2>2
<1>7. S \in Q
  <2> HIDE DEF Q
  <2> QED
    BY ZenonT(60), <1>6, SubsetInduction
<1>8. Image(S) = R
  BY ZenonT(60), <1>0
<1> QED
  BY ZenonT(60), <1>7, <1>8 DEF F, G

-----------------------------------------------------------------------------
(* Sums along a sequence, by its indices. *)

(* Appending an element adds its term.                                      *)
LEMMA SumLast ==
  ASSUME NEW n \in Nat, NEW f, \A i \in 1..(n + 1) : f[i] \in Int
  PROVE  SumFunctionOnSet(f, 1..(n + 1)) = f[n + 1] + SumFunctionOnSet(f, 1..n)
<1>1. 1..(n + 1) = (1..n) \cup {n + 1} /\ n + 1 \notin 1..n
  BY SMT
<1>2. IsFiniteSet(1..n)
  BY FS_Interval
<1>3. \A i \in (1..n) \cup {n + 1} : f[i] \in Int
  BY ZenonT(60), <1>1
<1> QED
  BY ZenonT(60), <1>1, <1>2, <1>3, SumAdd

(* Taking the first element away takes its term away.                       *)
LEMMA SumFirst ==
  ASSUME NEW n \in Nat, NEW f, \A i \in 1..(n + 1) : f[i] \in Int,
         NEW g, \A i \in 1..n : g[i] = f[i + 1]
  PROVE  SumFunctionOnSet(f, 1..(n + 1)) = f[1] + SumFunctionOnSet(g, 1..n)
<1> DEFINE h == [i \in 1..n |-> i + 1]
<1>1. /\ \A i \in 1..n : h[i] \in (1..(n + 1)) \ {1}
      /\ \A j \in (1..(n + 1)) \ {1} : \E i \in 1..n : j = h[i]
  <2>1. ASSUME NEW j \in (1..(n + 1)) \ {1} PROVE \E i \in 1..n : j = h[i]
    <3>1. j - 1 \in 1..n /\ h[j - 1] = j
      BY SMT
    <3> QED
      BY ZenonT(60), <3>1
  <2>2. \A i \in 1..n : h[i] \in (1..(n + 1)) \ {1}
    BY SMT
  <2> HIDE DEF h
  <2> QED
    BY ZenonT(60), <2>1, <2>2
<1>2. \A i \in 1..n : g[i] \in Int /\ g[i] = f[h[i]]
  BY SMT
<1>3. \A i, j \in 1..n : h[i] = h[j] => i = j
  BY SMT
<1>4. IsFiniteSet(1..n) /\ IsFiniteSet(1..(n + 1))
  BY FS_Interval
<1> HIDE DEF h
<1>5. SumFunctionOnSet(g, 1..n) = SumFunctionOnSet(f, (1..(n + 1)) \ {1})
  <2>1. h \in Bijection(1..n, (1..(n + 1)) \ {1})
    BY ZenonT(60), <1>1, <1>3 DEF Bijection, Injection, Surjection, IsInjective, h
  <2> DEFINE S == 1..n
             R == (1..(n + 1)) \ {1}
  <2>2. PICK k \in Bijection(S, R) : k = h
    BY ZenonT(60), <2>1
  <2>3. IsFiniteSet(S) /\ \A i \in S : g[i] \in Int /\ g[i] = f[k[i]]
    BY ZenonT(60), <1>2, <1>4, <2>2
  <2> HIDE DEF S, R
  <2>4. SumFunctionOnSet(g, S) = SumFunctionOnSet(f, R)
    BY ONLY SMT, k \in Bijection(S, R), <2>3, SumRename
  <2> QED
    BY ZenonT(60), <2>4 DEF S, R
<1>6. 1 \in 1..(n + 1)
  BY SMT
<1>7. SumFunctionOnSet(f, 1..(n + 1)) = f[1] + SumFunctionOnSet(f, (1..(n + 1)) \ {1})
  BY ZenonT(60), <1>4, <1>6, SumSplit
<1> QED
  BY ZenonT(60), <1>5, <1>7

-----------------------------------------------------------------------------
(* Arithmetic of free-running counters.                                     *)

(* A positive multiple is no smaller than the number.                        *)
LEMMA Multiple ==
  ASSUME NEW b \in Nat \ {0}, NEW k \in Int, k >= 1
  PROVE  b * k >= b
OBVIOUS

(* Quotient and remainder.                                                   *)
LEMMA DivMod ==
  ASSUME NEW a \in Int, NEW b \in Nat \ {0}
  PROVE  a \div b \in Int /\ a % b \in 0..(b - 1) /\ a = b * (a \div b) + (a % b)
OBVIOUS

(* The remainder is determined by the number.                                *)
LEMMA QuotientUnique ==
  ASSUME NEW b \in Nat \ {0}, NEW q1 \in Int, NEW q2 \in Int,
         NEW r1 \in 0..(b - 1), NEW r2 \in 0..(b - 1),
         b * q1 + r1 = b * q2 + r2
  PROVE  r1 = r2
<1>1. b * (q1 - q2) = r2 - r1 /\ b * (q2 - q1) = r1 - r2
  OBVIOUS
<1>2. ~(q1 - q2 >= 1) /\ ~(q2 - q1 >= 1)
  BY <1>1, Multiple
<1>3. q1 = q2
  BY <1>2
<1> QED BY <1>3

(* The remainder is the number below b that differs from a by a multiple.   *)
LEMMA ModIs ==
  ASSUME NEW b \in Nat \ {0}, NEW a \in Int, NEW q \in Int, NEW r \in 0..(b - 1),
         a = b * q + r
  PROVE  a % b = r
<1>1. a \div b \in Int /\ a % b \in 0..(b - 1) /\ a = b * (a \div b) + (a % b)
  BY ZenonT(60), DivMod
<1> QED BY ZenonT(60), <1>1, QuotientUnique

(* Two counters less than a capacity apart name the same slot only if equal. *)
LEMMA SlotsDiffer ==
  ASSUME NEW b \in Nat \ {0}, NEW m \in Int, NEW n \in Int, m < n, n - m < b
  PROVE  m % b # n % b
<1> SUFFICES ASSUME m % b = n % b PROVE FALSE
  BY ZenonT(60)
<1>1. /\ m \div b \in Int /\ m % b \in Int /\ m = b * (m \div b) + (m % b)
      /\ n \div b \in Int /\ n = b * (n \div b) + (n % b)
  BY DivMod
<1> DEFINE k == (n \div b) - (m \div b)
<1>2. k \in Int /\ b * k = n - m
  BY <1>1
<1> HIDE DEF k
<1>3. ~(k >= 1)
  BY <1>2, Multiple
<1>4. ~(-k >= 0)
  <2>1. -k >= 0 => b * (-k) >= 0
    BY <1>2
  <2>2. b * (-k) = m - n
    BY <1>2
  <2> QED BY <2>1, <2>2
<1> QED BY <1>2, <1>3, <1>4

(* head_ - tail_ in unsigned arithmetic is the true distance.                *)
LEMMA Distance ==
  ASSUME NEW b \in Nat \ {0}, NEW m \in Int, NEW n \in Int, m <= n, n - m < b
  PROVE  ((n % b) - (m % b)) % b = n - m
<1>1. /\ m \div b \in Int /\ m % b \in Int /\ m = b * (m \div b) + (m % b)
      /\ n \div b \in Int /\ n % b \in Int /\ n = b * (n \div b) + (n % b)
  BY DivMod
<1> DEFINE q == (m \div b) - (n \div b)
<1>2. q \in Int /\ (n % b) - (m % b) = b * q + (n - m)
  BY <1>1
<1> HIDE DEF q
<1>3. n - m \in 0..(b - 1) /\ (n % b) - (m % b) \in Int
  BY <1>1
<1> QED BY ZenonT(60), <1>2, <1>3, ModIs

(* Numbers that differ by a multiple of b have the same remainder.           *)
LEMMA ModCongruent ==
  ASSUME NEW b \in Nat \ {0}, NEW a \in Int, NEW x \in Int, NEW k \in Int, a = b * k + x
  PROVE  a % b = x % b
<1>1. PICK d \in Int, r \in 0..(b - 1) : x = b * d + r /\ x % b = r
  BY ZenonT(60), DivMod
<1>2. k + d \in Int /\ a = b * (k + d) + r
  BY <1>1
<1>3. a % b = r
  BY ZenonT(60), <1>2, ModIs
<1> QED BY ZenonT(60), <1>1, <1>3

(* Counting on from a wrapped counter.                                       *)
LEMMA WrapAdd ==
  ASSUME NEW b \in Nat \ {0}, NEW n \in Int, NEW i \in Int
  PROVE  ((n % b) + i) % b = (n + i) % b
<1>1. PICK d \in Int, r \in 0..(b - 1) : n = b * d + r /\ n % b = r
  BY ZenonT(60), DivMod
<1>2. n + i = b * d + (r + i) /\ n + i \in Int /\ r + i \in Int
  BY <1>1
<1>3. (n + i) % b = (r + i) % b
  BY ZenonT(60), <1>2, ModCongruent
<1> QED BY ZenonT(60), <1>1, <1>3

(* Wrapping at a multiple of the capacity does not change the slot.          *)
LEMMA MultipleOf ==
  ASSUME NEW b \in Nat \ {0}, NEW c \in Nat \ {0}, b % c = 0, NEW d \in Int
  PROVE  \E k \in Int : b * d = c * k
<1>1. b \div c \in Int /\ b = c * (b \div c) + (b % c)
  BY DivMod
<1>2. PICK m \in Int : b = c * m
  BY <1>1
<1>3. m * d \in Int /\ b * d = c * (m * d)
  BY <1>2
<1> QED BY ZenonT(60), <1>3

Congruent(a, x, c) == \E k \in Int : a = c * k + x

(* Congruence is kept by adding the same number.                             *)
LEMMA ShiftCongruent ==
  ASSUME NEW c \in Nat \ {0}, NEW n \in Int, NEW r \in Int, NEW i \in Int, Congruent(n, r, c)
  PROVE  (n + i) % c = (r + i) % c
<1> DEFINE a == n + i
           x == r + i
<1>1. PICK k \in Int : a = c * k + x /\ a \in Int /\ x \in Int
  BY DEF Congruent
<1> HIDE DEF a, x
<1>2. a % c = x % c
  BY ZenonT(60), <1>1, ModCongruent
<1> QED BY ZenonT(60), <1>2 DEF a, x

(* Wrapping at a multiple of c keeps a counter congruent modulo c.           *)
LEMMA WrapCongruent ==
  ASSUME NEW b \in Nat \ {0}, NEW c \in Nat \ {0}, b % c = 0, NEW n \in Int
  PROVE  Congruent(n, n % b, c) /\ n % b \in Int
<1>1. n \div b \in Int /\ n % b \in Int /\ n = b * (n \div b) + (n % b)
  BY DivMod
<1>2. PICK k \in Int : b * (n \div b) = c * k
  BY ZenonT(60), <1>1, MultipleOf
<1> QED BY ZenonT(60), <1>1, <1>2 DEF Congruent

(* A wrapped counter selects the slot of the counter.                        *)
LEMMA WrapSlot ==
  ASSUME NEW b \in Nat \ {0}, NEW c \in Nat \ {0}, b % c = 0, NEW n \in Int, NEW i \in Int
  PROVE  ((n % b) + i) % c = (n + i) % c
<1> DEFINE r == n % b
<1>1. Congruent(n, r, c) /\ r \in Int
  BY ZenonT(60), WrapCongruent
<1> HIDE DEF r
<1>2. (n + i) % c = (r + i) % c
  BY ZenonT(60), <1>1, ShiftCongruent
<1> QED BY ZenonT(60), <1>2 DEF r

=============================================================================
