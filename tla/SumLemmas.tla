----------------------------- MODULE SumLemmas -----------------------------
(***************************************************************************)
(* Facts about sums over finite sets (MapThenSumSet) that the proofs cite: *)
(* a sum loses an element's value when it loses the element, and depends   *)
(* on the values at its elements only.                                     *)
(*                                                                         *)
(* The induction theorems of the library take a predicate as a parameter,  *)
(* which the provers cannot instantiate.  The inductions below are over a  *)
(* set of naturals instead: of one that is not everything, the smallest    *)
(* missing number (WFMin) would have a predecessor.                        *)
(***************************************************************************)
EXTENDS Integers, FiniteSets, FiniteSetsExt, FiniteSetTheorems, WellFoundedInduction, TLAPS

SumOver(f, S) == MapThenSumSet(LAMBDA x : f[x], S)

\* The element the fold takes next, and what one step of it computes from the
\* sums g of the smaller sets.
Pick(s) == CHOOSE x \in s : TRUE
OneStep(f, g, s) == IF s = {} THEN 0 ELSE f[Pick(s)] + g[s \ {Pick(s)}]

\* g tabulates the sums of all subsets of S, as the fold's own recursion does.
Tabulates(f, S, g) == g = [s \in SUBSET S |-> OneStep(f, g, s)]

\* A set of naturals that has 0 and is closed under successor is Nat.
LEMMA NatSetInduction ==
    ASSUME NEW S \in SUBSET Nat, 0 \in S, \A n \in S : n + 1 \in S
    PROVE  S = Nat
<1> DEFINE M == Nat \ S
<1>1. SUFFICES ASSUME M # {} PROVE FALSE
  OBVIOUS
<1>2. PICK m \in M : \A k \in M : ~ (<<k, m>> \in OpToRel(<, Nat))
  <2> HIDE DEF M
  <2>1. M \subseteq Nat
    BY DEF M
  <2>2. QED
    BY <1>1, <2>1, NatLessThanWellFounded, WFMin
<1>3. m # 0 /\ m - 1 \in Nat
  OBVIOUS
<1>4. m - 1 \in M
  <2>1. m - 1 \in S => (m - 1) + 1 \in S
    OBVIOUS
  <2>2. QED
    BY <1>3, <2>1
<1>5. <<m - 1, m>> \in OpToRel(<, Nat)
  BY <1>3 DEF OpToRel
<1>6. QED
  BY <1>2, <1>4, <1>5

\* The element picked from a non-empty set is in it; without it the set is smaller.
LEMMA PickSmaller ==
    ASSUME NEW s, IsFiniteSet(s), s # {}
    PROVE  /\ Pick(s) \in s
           /\ IsFiniteSet(s \ {Pick(s)})
           /\ Cardinality(s) \in Nat \ {0}
           /\ Cardinality(s \ {Pick(s)}) = Cardinality(s) - 1
<1>1. Pick(s) \in s
  BY DEF Pick
<1>2. QED
  BY <1>1, FS_RemoveElement, FS_CardinalityType, FS_EmptySet

\* Sums of all subsets can be tabulated.
LEMMA TableExists ==
    ASSUME NEW S, IsFiniteSet(S), NEW f, \A x \in S : f[x] \in Int
    PROVE  \E g \in [SUBSET S -> Int] : Tabulates(f, S, g)
<1> DEFINE UpTo(n, g) == \A s \in SUBSET S : Cardinality(s) <= n => g[s] = OneStep(f, g, s)
           N == {n \in Nat : \E g \in [SUBSET S -> Int] : UpTo(n, g)}
<1>0. \A s \in SUBSET S : IsFiniteSet(s) /\ Cardinality(s) \in Nat /\ Cardinality(s) <= Cardinality(S)
  BY FS_Subset, FS_CardinalityType
<1>1. 0 \in N
  <2> DEFINE g == [s \in SUBSET S |-> 0]
  <2>1. \A s \in SUBSET S : Cardinality(s) <= 0 => s = {}
    BY <1>0, FS_EmptySet
  <2>2. UpTo(0, g)
    BY <2>1 DEF OneStep
  <2>3. g \in [SUBSET S -> Int]
    OBVIOUS
  <2>4. QED
    BY <2>2, <2>3
<1>2. ASSUME NEW n \in N PROVE n + 1 \in N
  <2>1. PICK g \in [SUBSET S -> Int] : UpTo(n, g)
    BY <1>2
  <2> DEFINE h == [s \in SUBSET S |-> OneStep(f, g, s)]
  <2>2. h \in [SUBSET S -> Int]
    <3>1. ASSUME NEW s \in SUBSET S PROVE OneStep(f, g, s) \in Int
      <4>1. CASE s = {}
        BY <4>1 DEF OneStep
      <4>2. CASE s # {}
        <5>1. Pick(s) \in S /\ s \ {Pick(s)} \in SUBSET S
          BY <4>2, <1>0, PickSmaller
        <5>2. f[Pick(s)] \in Int /\ g[s \ {Pick(s)}] \in Int
          BY <5>1
        <5>3. QED
          BY <4>2, <5>2 DEF OneStep
      <4>3. QED
        BY <4>1, <4>2
    <3>2. QED
      BY <3>1
  <2>3. ASSUME NEW s \in SUBSET S, Cardinality(s) <= n + 1 PROVE h[s] = OneStep(f, h, s)
    <3>1. CASE s = {}
      BY <3>1 DEF OneStep
    <3>2. CASE s # {}
      <4> DEFINE t == s \ {Pick(s)}
      <4>1. t \in SUBSET S /\ Cardinality(t) <= n
        BY <3>2, <2>3, <1>0, PickSmaller
      <4>2. h[t] = g[t]
        BY <4>1, <2>1
      <4>3. QED
        BY <3>2, <4>2 DEF OneStep
    <3>3. QED
      BY <3>1, <3>2
  <2>4. UpTo(n + 1, h)
    BY <2>3
  <2> HIDE DEF h, UpTo
  <2>5. n + 1 \in Nat
    BY <1>2
  <2>6. QED
    BY <2>2, <2>4, <2>5
<1>3. N = Nat
  <2>1. N \in SUBSET Nat
    OBVIOUS
  <2> HIDE DEF N
  <2>2. QED
    BY <1>1, <1>2, <2>1, NatSetInduction
<1>4. PICK g \in [SUBSET S -> Int] : UpTo(Cardinality(S), g)
  BY <1>0, <1>3
<1>5. Tabulates(f, S, g)
  BY <1>0, <1>4 DEF Tabulates
<1>6. QED
  BY <1>5

\* Tables of two functions that agree on T agree on the subsets of T.
LEMMA TablesMatch ==
    ASSUME NEW S, NEW T \in SUBSET S, IsFiniteSet(S), NEW f, NEW e, \A x \in T : f[x] = e[x],
           NEW g, NEW h, Tabulates(f, S, g), Tabulates(e, T, h)
    PROVE  \A s \in SUBSET T : g[s] = h[s]
<1> DEFINE N == {n \in Nat : \A s \in SUBSET T : Cardinality(s) <= n => g[s] = h[s]}
<1>0. \A s \in SUBSET T : IsFiniteSet(s) /\ Cardinality(s) \in Nat
  BY FS_Subset, FS_CardinalityType
<1>1. \A s \in SUBSET T : g[s] = OneStep(f, g, s) /\ h[s] = OneStep(e, h, s)
  BY DEF Tabulates
<1>2. 0 \in N
  <2>1. \A s \in SUBSET T : Cardinality(s) <= 0 => s = {}
    BY <1>0, FS_EmptySet
  <2>2. QED
    BY <2>1, <1>1 DEF OneStep
<1>3. ASSUME NEW n \in N PROVE n + 1 \in N
  <2>1. ASSUME NEW s \in SUBSET T, Cardinality(s) <= n + 1 PROVE g[s] = h[s]
    <3>1. CASE s = {}
      BY <3>1, <1>1 DEF OneStep
    <3>2. CASE s # {}
      <4> DEFINE t == s \ {Pick(s)}
      <4>1. Pick(s) \in T /\ t \in SUBSET T /\ Cardinality(t) <= n
        BY <3>2, <2>1, <1>0, PickSmaller
      <4>2. g[t] = h[t] /\ f[Pick(s)] = e[Pick(s)]
        BY <4>1, <1>3
      <4>3. QED
        BY <3>2, <4>2, <1>1 DEF OneStep
    <3>3. QED
      BY <3>1, <3>2
  <2>2. QED
    BY <2>1
<1>4. N = Nat
  <2>1. N \in SUBSET Nat
    OBVIOUS
  <2> HIDE DEF N
  <2>2. QED
    BY <1>2, <1>3, <2>1, NatSetInduction
<1>5. QED
  BY <1>0, <1>4

\* The fold computes what the table says.
LEMMA SumIsTabulated ==
    ASSUME NEW S, IsFiniteSet(S), NEW f, \A x \in S : f[x] \in Int
    PROVE  \E g \in [SUBSET S -> Int] : Tabulates(f, S, g) /\ SumOver(f, S) = g[S]
<1> DEFINE iter == CHOOSE g : Tabulates(f, S, g)
<1>1. PICK g \in [SUBSET S -> Int] : Tabulates(f, S, g)
  BY TableExists
<1>2. Tabulates(f, S, iter)
  BY <1>1
<1>3. SumOver(f, S) = iter[S]
  BY DEF SumOver, MapThenSumSet, MapThenFoldSet, Tabulates, OneStep, Pick
<1>4. iter[S] = g[S]
  BY <1>1, <1>2, TablesMatch
<1>5. QED
  BY <1>1, <1>3, <1>4

\* Nothing sums to zero.
LEMMA SumEmpty == ASSUME NEW f PROVE SumOver(f, {}) = 0
<1>1. PICK g : Tabulates(f, {}, g) /\ SumOver(f, {}) = g[{}]
  BY SumIsTabulated, FS_EmptySet
<1>2. QED
  BY <1>1 DEF Tabulates, OneStep

\* A sum depends on the values at its elements only.
LEMMA SumCongruence ==
    ASSUME NEW S, IsFiniteSet(S), NEW f, NEW e, \A x \in S : f[x] \in Int /\ f[x] = e[x]
    PROVE  SumOver(f, S) = SumOver(e, S)
<1>1. PICK g : Tabulates(f, S, g) /\ SumOver(f, S) = g[S]
  BY SumIsTabulated
<1>2. PICK h : Tabulates(e, S, h) /\ SumOver(e, S) = h[S]
  BY SumIsTabulated
<1>3. g[S] = h[S]
  BY <1>1, <1>2, TablesMatch
<1>4. QED
  BY <1>1, <1>2, <1>3

\* A sum of integers is an integer.
LEMMA SumType ==
    ASSUME NEW S, IsFiniteSet(S), NEW f, \A x \in S : f[x] \in Int
    PROVE  SumOver(f, S) \in Int
<1>1. PICK g \in [SUBSET S -> Int] : SumOver(f, S) = g[S]
  BY SumIsTabulated
<1>2. QED
  BY <1>1

\* The fold takes the picked element first.
LEMMA SumPicked ==
    ASSUME NEW S, IsFiniteSet(S), S # {}, NEW f, \A x \in S : f[x] \in Int
    PROVE  SumOver(f, S) = f[Pick(S)] + SumOver(f, S \ {Pick(S)})
<1> DEFINE T == S \ {Pick(S)}
<1>1. IsFiniteSet(T) /\ T \in SUBSET S
  BY PickSmaller
<1>2. PICK g : Tabulates(f, S, g) /\ SumOver(f, S) = g[S]
  BY SumIsTabulated
<1>3. PICK h : Tabulates(f, T, h) /\ SumOver(f, T) = h[T]
  BY <1>1, SumIsTabulated
<1>4. g[T] = h[T]
  BY <1>1, <1>2, <1>3, TablesMatch
<1>5. g[S] = OneStep(f, g, S)
  BY <1>2 DEF Tabulates
<1>6. QED
  BY <1>2, <1>3, <1>4, <1>5 DEF OneStep

\* Any element may be taken out first.
LEMMA SumRemove ==
    ASSUME NEW S, IsFiniteSet(S), NEW f, \A x \in S : f[x] \in Int, NEW y \in S
    PROVE  SumOver(f, S) = f[y] + SumOver(f, S \ {y})
<1> DEFINE Good(s) == \A x \in s : SumOver(f, s) = f[x] + SumOver(f, s \ {x})
           N == {n \in Nat : \A s \in SUBSET S : Cardinality(s) <= n => Good(s)}
<1>0. \A s \in SUBSET S : IsFiniteSet(s) /\ Cardinality(s) \in Nat
  BY FS_Subset, FS_CardinalityType
<1>1. 0 \in N
  <2>1. \A s \in SUBSET S : Cardinality(s) <= 0 => s = {}
    BY <1>0, FS_EmptySet
  <2>2. QED
    BY <2>1
<1>2. ASSUME NEW n \in N PROVE n + 1 \in N
  <2>1. ASSUME NEW s \in SUBSET S, Cardinality(s) <= n + 1, NEW x \in s
        PROVE  SumOver(f, s) = f[x] + SumOver(f, s \ {x})
    <3> DEFINE p == Pick(s)
               both == s \ {x, p}
    <3>1. p \in s /\ SumOver(f, s) = f[p] + SumOver(f, s \ {p})
      BY <1>0, <2>1, PickSmaller, SumPicked
    <3>2. CASE p = x
      BY <3>1, <3>2
    <3>3. CASE p # x
      <4>1. Cardinality(s \ {p}) <= n /\ Cardinality(s \ {x}) <= n
        BY <1>0, <2>1, <3>1, FS_RemoveElement
      <4>2. Good(s \ {p}) /\ Good(s \ {x})
        BY <1>2, <4>1
      <4>3. (s \ {p}) \ {x} = both /\ (s \ {x}) \ {p} = both
        OBVIOUS
      <4>4. SumOver(f, s \ {p}) = f[x] + SumOver(f, both)
        BY <2>1, <3>3, <4>2, <4>3
      <4>5. SumOver(f, s \ {x}) = f[p] + SumOver(f, both)
        BY <3>1, <3>3, <4>2, <4>3
      <4>6. SumOver(f, both) \in Int /\ f[x] \in Int /\ f[p] \in Int
        <5>1. both \in SUBSET S
          OBVIOUS
        <5>2. QED
          BY <1>0, <2>1, <3>1, <5>1, SumType
      <4> HIDE DEF p, both
      <4>7. QED
        BY <3>1, <4>4, <4>5, <4>6
    <3>4. QED
      BY <3>2, <3>3
  <2>2. QED
    BY <2>1
<1>3. N = Nat
  <2>1. N \in SUBSET Nat
    OBVIOUS
  <2> HIDE DEF N
  <2>2. QED
    BY <1>1, <1>2, <2>1, NatSetInduction
<1>4. QED
  BY <1>0, <1>3

\* A new element adds its value.
LEMMA SumAdd ==
    ASSUME NEW S, IsFiniteSet(S), NEW y, y \notin S, NEW f, \A x \in S \union {y} : f[x] \in Int
    PROVE  SumOver(f, S \union {y}) = f[y] + SumOver(f, S)
<1>1. IsFiniteSet(S \union {y}) /\ (S \union {y}) \ {y} = S
  BY FS_AddElement
<1>2. QED
  BY <1>1, SumRemove

\* What holds of the values in proportion holds of their sums, with what each may be off
\* counted once for each element.
LEMMA SumsCompare ==
    ASSUME NEW S, IsFiniteSet(S), NEW f, NEW e, NEW a \in Int, NEW b \in Int, NEW c \in Int,
           \A x \in S : f[x] \in Int /\ e[x] \in Int /\ a * f[x] <= b * e[x] + c
    PROVE  a * SumOver(f, S) <= b * SumOver(e, S) + c * Cardinality(S)
<1> DEFINE Good(s) == a * SumOver(f, s) <= b * SumOver(e, s) + c * Cardinality(s)
           N == {n \in Nat : \A s \in SUBSET S : Cardinality(s) <= n => Good(s)}
<1>0. \A s \in SUBSET S : IsFiniteSet(s) /\ Cardinality(s) \in Nat
  BY FS_Subset, FS_CardinalityType
<1>1. 0 \in N
  <2>1. ASSUME NEW s \in SUBSET S, Cardinality(s) <= 0 PROVE Good(s)
    <3>1. s = {} /\ Cardinality(s) = 0
      BY <1>0, <2>1, FS_EmptySet
    <3>2. SumOver(f, s) = 0 /\ SumOver(e, s) = 0
      BY <3>1, SumEmpty
    <3> QED  BY <3>1, <3>2
  <2> QED  BY <2>1
<1>2. ASSUME NEW n \in N PROVE n + 1 \in N
  <2>1. ASSUME NEW s \in SUBSET S, Cardinality(s) <= n + 1, s # {} PROVE Good(s)
    <3>1. PICK y \in s : TRUE
      BY <2>1
    <3> DEFINE t == s \ {y}
    <3>2. Cardinality(t) = Cardinality(s) - 1 /\ t \in SUBSET S /\ IsFiniteSet(t) /\ IsFiniteSet(s)
      BY <1>0, FS_RemoveElement
    <3>3. PICK k \in Nat : k = Cardinality(t)
      BY <1>0, <3>2
    <3>4. Cardinality(s) = k + 1 /\ k <= n
      BY <1>0, <2>1, <3>2, <3>3
    <3>5. PICK F, E \in Int : F = SumOver(f, t) /\ E = SumOver(e, t)
      BY <3>2, SumType
    <3>6. SumOver(f, s) = f[y] + F /\ SumOver(e, s) = e[y] + E
      BY <3>2, <3>5, SumRemove
    <3>7. Good(t)
      BY <1>2, <3>2, <3>3, <3>4
    <3>8. a * F <= b * E + c * k
      BY <3>3, <3>5, <3>7
    <3>9. f[y] \in Int /\ e[y] \in Int /\ a * f[y] <= b * e[y] + c
      OBVIOUS
    <3>10. a * (f[y] + F) <= b * (e[y] + E) + c * (k + 1)
      BY <3>8, <3>9
    <3> QED  BY <3>4, <3>6, <3>10
  <2>2. ASSUME NEW s \in SUBSET S, Cardinality(s) <= n + 1, s = {} PROVE Good(s)
    <3>1. Cardinality(s) = 0 /\ SumOver(f, s) = 0 /\ SumOver(e, s) = 0
      BY <2>2, FS_EmptySet, SumEmpty
    <3> QED  BY <3>1
  <2> HIDE DEF Good
  <2> QED  BY <2>1, <2>2
<1>3. N = Nat
  <2>1. N \in SUBSET Nat
    OBVIOUS
  <2> HIDE DEF N
  <2> QED  BY <1>1, <1>2, <2>1, NatSetInduction
<1>4. Cardinality(S) \in N /\ Cardinality(S) <= Cardinality(S) /\ S \in SUBSET S
  BY <1>0, <1>3
<1> QED  BY <1>4
=============================================================================
