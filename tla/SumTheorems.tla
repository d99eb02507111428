----------------------------- MODULE SumTheorems -----------------------------
(***************************************************************************)
(* Sums over all workers, as FoldFunction computes them: the sum of zeros  *)
(* is zero, and a change of one term changes the sum by as much.           *)
(*                                                                         *)
(* The proofs are by induction on the cardinality of the set summed over,  *)
(* in the form that a set of numbers that is not empty has a least one.    *)
(***************************************************************************)
EXTENDS Integers, FiniteSets, Functions, FiniteSetTheorems, WellFoundedInduction, TLAPS

Total(f) == FoldFunction(+, 0, f)

\* One step of FoldFunction: the sum over s, from those over smaller sets.
FoldStep(g, f, s) ==
    IF s = {} THEN 0 ELSE LET x == CHOOSE x \in s : TRUE IN f[x] + g[s \ {x}]

\* g is what FoldFunction computes on the way: the sum of f over each subset.
IsFold(g, f, S) == g = [s \in SUBSET S |-> FoldStep(g, f, s)]

Less == {p \in Nat \X Nat : p[1] < p[2]}

LEMMA LessWellFounded == IsWellFoundedOn(Less, Nat)
BY NatLessThanWellFounded, Zenon DEF Less, OpToRel

\* A set of natural numbers has a least element.
LEMMA LeastNumber ==
    ASSUME NEW N \in SUBSET Nat, N # {}
    PROVE  \E n \in N : \A m \in N : n <= m
<1>1. PICK n \in N : \A m \in N : <<m, n>> \notin Less
  BY LessWellFounded, WFMin
<1>2. ASSUME NEW m \in N PROVE ~(m < n)
  <2>1. m \in Nat /\ n \in Nat
    OBVIOUS
  <2>2. <<m, n>> \in Less <=> m < n
    BY <2>1 DEF Less
  <2>3. QED
    BY <1>1, <2>2
<1>3. QED
  BY <1>2

\* A set without its chosen element.
LEMMA WithoutChosen ==
    ASSUME NEW S, IsFiniteSet(S), NEW s \in SUBSET S, s # {}
    PROVE  LET x == CHOOSE x \in s : TRUE
           IN  /\ x \in s /\ s \ {x} \in SUBSET S
               /\ Cardinality(s) \in Nat /\ Cardinality(s \ {x}) \in Nat
               /\ Cardinality(s \ {x}) = Cardinality(s) - 1
<1> DEFINE x == CHOOSE x \in s : TRUE
<1>1. x \in s
  OBVIOUS
<1>2. IsFiniteSet(s) /\ IsFiniteSet(s \ {x})
  BY FS_Subset, FS_RemoveElement
<1>3. Cardinality(s \ {x}) = Cardinality(s) - 1
  BY <1>1, <1>2, FS_RemoveElement
<1>4. Cardinality(s) \in Nat /\ Cardinality(s \ {x}) \in Nat
  BY <1>2, FS_CardinalityType
<1>5. QED
  BY <1>1, <1>3, <1>4

\* The recursion of FoldFunction has a solution.
LEMMA FoldExists ==
    ASSUME NEW S, IsFiniteSet(S), NEW f
    PROVE  \E g : IsFold(g, f, S)
<1> DEFINE Small(n) == {s \in SUBSET S : Cardinality(s) <= n}
           Upto(n)  == \E g : g = [s \in Small(n) |-> FoldStep(g, f, s)]
<1>1. Upto(0)
  <2> DEFINE g == [s \in Small(0) |-> 0]
  <2>1. ASSUME NEW s \in Small(0) PROVE s = {}
    <3>1. IsFiniteSet(s) /\ Cardinality(s) \in Nat /\ Cardinality(s) <= 0
      BY FS_Subset, FS_CardinalityType
    <3>2. Cardinality(s) = 0
      BY <3>1
    <3>3. QED
      BY <3>1, <3>2, FS_EmptySet
  <2>2. g = [s \in Small(0) |-> FoldStep(g, f, s)]
    BY <2>1 DEF FoldStep
  <2>3. QED
    BY <2>2
<1>2. ASSUME NEW n \in Nat, Upto(n) PROVE Upto(n + 1)
  <2>1. PICK g : g = [s \in Small(n) |-> FoldStep(g, f, s)]
    BY <1>2
  <2> DEFINE h == [s \in Small(n + 1) |-> FoldStep(g, f, s)]
  <2>2. ASSUME NEW s \in Small(n + 1) PROVE FoldStep(h, f, s) = FoldStep(g, f, s)
    <3> DEFINE x == CHOOSE x \in s : TRUE
    <3>1. CASE s = {}
      BY <3>1 DEF FoldStep
    <3>2. CASE s # {}
      <4>1. s \ {x} \in Small(n) /\ s \ {x} \in Small(n + 1)
        BY <3>2, WithoutChosen
      <4>2. h[s \ {x}] = g[s \ {x}]
        BY <2>1, <4>1
      <4>3. QED
        BY <3>2, <4>2 DEF FoldStep
    <3>3. QED
      BY <3>1, <3>2
  <2>3. h = [s \in Small(n + 1) |-> FoldStep(h, f, s)]
    BY <2>2
  <2>4. QED
    BY <2>3
<1>3. \A n \in Nat : Upto(n)
  <2> DEFINE Bad == {n \in Nat : ~Upto(n)}
  <2> HIDE DEF Upto
  <2>1. SUFFICES ASSUME Bad # {} PROVE FALSE
    OBVIOUS
  <2>2. PICK n \in Bad : \A m \in Bad : n <= m
    BY <2>1, LeastNumber
  <2>3. n # 0
    BY <1>1
  <2>4. n - 1 \in Nat /\ n - 1 \notin Bad
    BY <2>2, <2>3
  <2>5. QED
    BY <1>2, <2>4
<1>4. Cardinality(S) \in Nat /\ Small(Cardinality(S)) = SUBSET S
  BY FS_CardinalityType, FS_Subset
<1>5. QED
  BY <1>3, <1>4 DEF IsFold

LEMMA TotalIsFold ==
    ASSUME NEW S, IsFiniteSet(S), NEW f, DOMAIN f = S
    PROVE  \E g : IsFold(g, f, S) /\ Total(f) = g[S]
<1>1. PICK h : IsFold(h, f, S)
  BY FoldExists
<1> DEFINE g == CHOOSE g : IsFold(g, f, S)
<1>2. IsFold(g, f, S)
  BY <1>1, Zenon
<1>3. Total(f) = g[S]
  BY DEF Total, FoldFunction, FoldFunctionOnSet, MapThenFoldSet, IsFold, FoldStep
<1>4. QED
  BY <1>2, <1>3

\* The sum over each subset changes by d if the changed term is in it.
LEMMA FoldsDiffer ==
    ASSUME NEW S, IsFiniteSet(S), NEW f \in [S -> Int], NEW e \in [S -> Int],
           NEW w \in S, NEW d \in Int, e[w] = f[w] + d,
           \A v \in S \ {w} : e[v] = f[v],
           NEW g, IsFold(g, f, S), NEW h, IsFold(h, e, S)
    PROVE  g[S] \in Int /\ h[S] = g[S] + d
<1> DEFINE Fine(s) == g[s] \in Int /\ h[s] = g[s] + (IF w \in s THEN d ELSE 0)
           Bad     == {s \in SUBSET S : ~Fine(s)}
           Sizes   == {n \in Nat : \E s \in Bad : Cardinality(s) = n}
<1>1. ASSUME NEW s \in Bad PROVE Cardinality(s) \in Sizes
  <2> HIDE DEF Bad
  <2>1. s \in SUBSET S
    BY DEF Bad
  <2>2. Cardinality(s) \in Nat
    BY <2>1, FS_Subset, FS_CardinalityType
  <2>3. QED
    BY <2>2
<1>2. SUFFICES ASSUME Bad # {} PROVE FALSE
  BY S \in SUBSET S
<1>3. PICK n \in Sizes : \A m \in Sizes : n <= m
  <2>1. Sizes \in SUBSET Nat
    OBVIOUS
  <2>2. Sizes # {}
    BY <1>1, <1>2
  <2> HIDE DEF Sizes
  <2>3. QED
    BY <2>1, <2>2, LeastNumber
<1>4. PICK s \in Bad : Cardinality(s) = n
  BY <1>3
<1>5. g[s] = FoldStep(g, f, s) /\ h[s] = FoldStep(h, e, s)
  BY DEF IsFold
<1>6. CASE s = {}
  BY <1>4, <1>5, <1>6 DEF FoldStep
<1>7. CASE s # {}
  <2> DEFINE x == CHOOSE x \in s : TRUE
  <2>1. x \in s /\ s \ {x} \in SUBSET S /\ Cardinality(s \ {x}) < Cardinality(s)
    BY <1>7, WithoutChosen
  <2>2. s \ {x} \notin Bad
    <3>1. SUFFICES ASSUME s \ {x} \in Bad PROVE FALSE
      OBVIOUS
    <3>2. Cardinality(s \ {x}) \in Sizes
      BY <1>1, <3>1
    <3>3. QED
      BY <1>3, <1>4, <2>1, <3>2
  <2>3. g[s] = f[x] + g[s \ {x}] /\ h[s] = e[x] + h[s \ {x}]
    BY <1>5, <1>7 DEF FoldStep
  <2> HIDE DEF x
  <2>4. Fine(s \ {x})
    BY <2>1, <2>2
  <2>5. Fine(s)
    <3>1. CASE x = w
      BY <2>1, <2>3, <2>4, <3>1
    <3>2. CASE x # w
      BY <2>1, <2>3, <2>4, <3>2
    <3>3. QED
      BY <3>1, <3>2
  <2>6. QED
    BY <2>5
<1>8. QED
  BY <1>6, <1>7

\* A change of one term changes the sum by as much.
LEMMA TotalOfChanged ==
    ASSUME NEW S, IsFiniteSet(S), NEW f \in [S -> Int], NEW e \in [S -> Int],
           NEW w \in S, NEW d \in Int, e[w] = f[w] + d,
           \A v \in S \ {w} : e[v] = f[v]
    PROVE  Total(f) \in Int /\ Total(e) = Total(f) + d
<1>1. PICK g : IsFold(g, f, S) /\ Total(f) = g[S]
  BY TotalIsFold
<1>2. PICK h : IsFold(h, e, S) /\ Total(e) = h[S]
  BY TotalIsFold
<1>3. QED
  BY <1>1, <1>2, FoldsDiffer

\* The sum of zeros is zero.
LEMMA TotalOfZeros ==
    ASSUME NEW S, IsFiniteSet(S), NEW f, f = [s \in S |-> 0]
    PROVE  Total(f) = 0
<1>1. PICK g : IsFold(g, f, S) /\ Total(f) = g[S]
  BY TotalIsFold
<1> DEFINE Bad   == {s \in SUBSET S : g[s] # 0}
           Sizes == {n \in Nat : \E s \in Bad : Cardinality(s) = n}
<1>2. ASSUME NEW s \in Bad PROVE Cardinality(s) \in Sizes
  <2> HIDE DEF Bad
  <2>1. s \in SUBSET S
    BY DEF Bad
  <2>2. Cardinality(s) \in Nat
    BY <2>1, FS_Subset, FS_CardinalityType
  <2>3. QED
    BY <2>2
<1>3. SUFFICES ASSUME Bad # {} PROVE FALSE
  BY <1>1, S \in SUBSET S
<1>4. PICK n \in Sizes : \A m \in Sizes : n <= m
  <2>1. Sizes \in SUBSET Nat
    OBVIOUS
  <2>2. Sizes # {}
    BY <1>2, <1>3
  <2> HIDE DEF Sizes
  <2>3. QED
    BY <2>1, <2>2, LeastNumber
<1>5. PICK s \in Bad : Cardinality(s) = n
  BY <1>4
<1>6. g[s] = FoldStep(g, f, s)
  BY <1>1 DEF IsFold
<1>7. s # {}
  BY <1>5, <1>6 DEF FoldStep
<1> DEFINE x == CHOOSE x \in s : TRUE
<1>8. /\ x \in s /\ s \ {x} \in SUBSET S
      /\ Cardinality(s \ {x}) \in Nat /\ Cardinality(s \ {x}) < Cardinality(s)
  BY <1>7, WithoutChosen
<1>9. g[s] = f[x] + g[s \ {x}]
  BY <1>6, <1>7 DEF FoldStep
<1> HIDE DEF x
<1>10. s \ {x} \notin Bad
  <2>1. SUFFICES ASSUME s \ {x} \in Bad PROVE FALSE
    OBVIOUS
  <2>2. Cardinality(s \ {x}) \in Sizes
    BY <1>2, <2>1
  <2> HIDE DEF Sizes
  <2>3. n <= Cardinality(s \ {x})
    BY <1>4, <2>2
  <2>4. n \in Nat
    BY <1>4 DEF Sizes
  <2>5. QED
    BY <1>5, <1>8, <2>3, <2>4
<1>11. QED
  BY <1>5, <1>8, <1>9, <1>10
=============================================================================
