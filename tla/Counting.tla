------------------------------ MODULE Counting ------------------------------
(***************************************************************************)
(* Sums of natural-number functions, for proofs.  A fold cannot be proved  *)
(* about without induction; a sum can be had as the number of cells of the *)
(* function's bar chart instead, and then the library's theorems about     *)
(* finite sets say what adding to one bar does and what bounds the whole.  *)
(***************************************************************************)
EXTENDS Naturals, FiniteSets, FiniteSetTheorems, TLAPS

\* The cells of the bar chart of f.
Cells(f) == UNION {{s} \X (1 .. f[s]) : s \in DOMAIN f}

\* n is the sum of f over its domain.
Sums(f, n) == IsFiniteSet(Cells(f)) /\ Cardinality(Cells(f)) = n

-----------------------------------------------------------------------------
LEMMA CellsAre ==
  ASSUME NEW S, NEW f \in [S -> Nat]
  PROVE  /\ \A x \in Cells(f) : \E s \in S, i \in Nat : x = <<s, i>>
         /\ \A s, i : <<s, i>> \in Cells(f) <=> s \in S /\ i \in 1 .. f[s]
BY DEF Cells

\* A sum is a number.
LEMMA SumIsNat == ASSUME NEW f, NEW n, Sums(f, n) PROVE n \in Nat
BY FS_CardinalityType DEF Sums

\* Nothing adds up to nothing.
LEMMA SumOfZeroes ==
  ASSUME NEW S, NEW f \in [S -> Nat], \A s \in S : f[s] = 0
  PROVE  Sums(f, 0)
<1>1. Cells(f) = {}
  BY DEF Cells
<1> QED BY <1>1, FS_EmptySet DEF Sums

\* What raises one bar by d raises the sum by d.
LEMMA SumGrows ==
  ASSUME NEW S, NEW f \in [S -> Nat], NEW g \in [S -> Nat], NEW s \in S, NEW d \in Nat,
         g[s] = f[s] + d, \A t \in S \ {s} : g[t] = f[t],
         NEW n, Sums(f, n)
  PROVE  Sums(g, n + d)
<1> DEFINE Added == {s} \X (f[s] + 1 .. f[s] + d)
<1>1. f[s] \in Nat /\ g[s] \in Nat
  OBVIOUS
<1>2. IsFiniteSet(f[s] + 1 .. f[s] + d) /\ Cardinality(f[s] + 1 .. f[s] + d) = d
  <2> DEFINE a == f[s] + 1
             b == f[s] + d
  <2>1. a \in Int /\ b \in Int /\ (a > b => d = 0) /\ b - a + 1 = d
    BY <1>1
  <2> HIDE DEF a, b
  <2>2. IsFiniteSet(a .. b) /\ Cardinality(a .. b) = IF a > b THEN 0 ELSE b - a + 1
    BY <2>1, FS_Interval
  <2> QED BY <2>1, <2>2 DEF a, b
<1>3. IsFiniteSet({s}) /\ Cardinality({s}) = 1
  BY FS_Singleton
<1>4. IsFiniteSet(Added) /\ Cardinality(Added) = d
  <2> DEFINE bar == f[s] + 1 .. f[s] + d
  <2> HIDE DEF bar
  <2>1. IsFiniteSet(bar) /\ Cardinality(bar) = d
    BY <1>2 DEF bar
  <2>2. IsFiniteSet({s} \X bar) /\ Cardinality({s} \X bar) = Cardinality({s}) * Cardinality(bar)
    BY <1>3, <2>1, FS_Product
  <2>3. Cardinality({s}) * Cardinality(bar) = d
    BY <1>3, <2>1
  <2> QED BY <2>2, <2>3 DEF bar
<1>5. \A t, i : <<t, i>> \in Added <=> t = s /\ i \in f[s] + 1 .. f[s] + d
  OBVIOUS
<1>6. Cells(g) = Cells(f) \cup Added
  <2>1. ASSUME NEW t \in S, NEW i \in Nat
        PROVE  i \in 1 .. g[t] <=> i \in 1 .. f[t] \/ (t = s /\ i \in f[s] + 1 .. f[s] + d)
    BY <1>1
  <2>2. \A x \in Added : \E i \in Nat : x = <<s, i>>
    BY <1>1
  <2> HIDE DEF Added
  <2>3. \A t \in S, i \in Nat : <<t, i>> \in Cells(g) <=> <<t, i>> \in Cells(f) \cup Added
    BY <1>5, <2>1, CellsAre
  <2> QED BY <2>2, <2>3, CellsAre
<1>7. Cells(f) \cap Added = {}
  <2> SUFFICES ASSUME NEW x \in Cells(f), x \in Added PROVE FALSE
    OBVIOUS
  <2>1. PICK t \in S, i \in Nat : x = <<t, i>>
    BY CellsAre
  <2>2. i \in 1 .. f[s] /\ i \in f[s] + 1 .. f[s] + d
    BY <1>5, <2>1, CellsAre
  <2> QED BY <1>1, <2>2
<1> HIDE DEF Added
<1>8. Cardinality(Cells(f) \cap Added) = 0
  BY <1>7, FS_EmptySet
<1>9. n \in Nat /\ IsFiniteSet(Cells(f)) /\ Cardinality(Cells(f)) = n
  BY SumIsNat DEF Sums
<1>10. IsFiniteSet(Cells(f) \cup Added) /\ Cardinality(Cells(f) \cup Added) = n + d - 0
  BY <1>4, <1>8, <1>9, FS_Union
<1> QED BY <1>6, <1>9, <1>10 DEF Sums

\* A function below another has a sum, and no larger one.
LEMMA SumIsMonotone ==
  ASSUME NEW S, NEW f \in [S -> Nat], NEW g \in [S -> Nat], \A s \in S : f[s] <= g[s],
         NEW n, Sums(g, n)
  PROVE  \E m \in Nat : m <= n /\ Sums(f, m)
<1>1. Cells(f) \subseteq Cells(g)
  <2> SUFFICES ASSUME NEW x \in Cells(f) PROVE x \in Cells(g)
    OBVIOUS
  <2>1. PICK s \in S, i \in Nat : x = <<s, i>>
    BY CellsAre
  <2>2. i \in 1 .. f[s]
    BY <2>1, CellsAre
  <2>3. i \in 1 .. g[s]
    BY <2>1, <2>2
  <2> QED BY <2>1, <2>3, CellsAre
<1>2. IsFiniteSet(Cells(f)) /\ Cardinality(Cells(f)) <= Cardinality(Cells(g))
  BY <1>1, FS_Subset DEF Sums
<1> QED BY <1>2, FS_CardinalityType DEF Sums

\* A function has one sum.
LEMMA SumIsUnique == ASSUME NEW f, NEW n, NEW m, Sums(f, n), Sums(f, m) PROVE n = m
BY DEF Sums

\* What lowers one bar by d lowers the sum by d.
LEMMA SumShrinks ==
  ASSUME NEW S, NEW f \in [S -> Nat], NEW g \in [S -> Nat], NEW s \in S, NEW d \in Nat,
         f[s] = g[s] + d, \A t \in S \ {s} : g[t] = f[t],
         NEW n, Sums(f, n)
  PROVE  d <= n /\ Sums(g, n - d)
<1>1. \A t \in S : g[t] <= f[t]
  BY DEF Sums
<1>2. PICK m \in Nat : m <= n /\ Sums(g, m)
  BY <1>1, SumIsMonotone
<1>3. Sums(f, m + d)
  BY <1>2, SumGrows
<1>4. n = m + d /\ n \in Nat
  BY <1>3, SumIsUnique, SumIsNat
<1> QED BY <1>2, <1>4

\* No bar is higher than the sum.
LEMMA SumBoundsEach ==
  ASSUME NEW S, NEW f \in [S -> Nat], NEW n, Sums(f, n), NEW s \in S
  PROVE  f[s] <= n
<1> DEFINE g == [f EXCEPT ![s] = 0]
<1>1. g \in [S -> Nat] /\ f[s] \in Nat /\ f[s] = g[s] + f[s] /\ \A t \in S \ {s} : g[t] = f[t]
  OBVIOUS
<1> HIDE DEF g
<1> QED BY <1>1, SumShrinks

\* Where every bar is at most b, the sum is at most b for each.
LEMMA SumIsBounded ==
  ASSUME NEW S, IsFiniteSet(S), NEW f \in [S -> Nat], NEW b \in Nat, \A s \in S : f[s] <= b,
         NEW n, Sums(f, n)
  PROVE  n <= Cardinality(S) * b
<1>1. IsFiniteSet(1 .. b) /\ Cardinality(1 .. b) = b
  BY FS_Interval
<1>2. IsFiniteSet(S \X (1 .. b)) /\ Cardinality(S \X (1 .. b)) = Cardinality(S) * b
  BY <1>1, FS_Product
<1>3. Cells(f) \subseteq S \X (1 .. b)
  <2> SUFFICES ASSUME NEW x \in Cells(f) PROVE x \in S \X (1 .. b)
    OBVIOUS
  <2>1. PICK s \in S, i \in Nat : x = <<s, i>>
    BY CellsAre
  <2>2. i \in 1 .. f[s]
    BY <2>1, CellsAre
  <2>3. i \in 1 .. b
    BY <2>1, <2>2
  <2> QED BY <2>1, <2>3
<1> QED BY <1>2, <1>3, FS_Subset DEF Sums

\* What adds up to more than nothing has a bar.
LEMMA SumHasBar ==
  ASSUME NEW S, NEW f \in [S -> Nat], NEW n, Sums(f, n), n > 0
  PROVE  \E s \in S : f[s] > 0
<1>1. SUFFICES ASSUME \A s \in S : ~(f[s] > 0) PROVE FALSE
  OBVIOUS
<1>2. \A s \in S : f[s] = 0
  BY <1>1
<1>3. n = 0
  BY <1>2, SumOfZeroes, SumIsUnique
<1> QED BY <1>3
=============================================================================
