----------------------------- MODULE StatsProofs -----------------------------
(***************************************************************************)
(* Proofs about the statistics, for any number of observations: sorting    *)
(* is a reordering into ascending order, it changes no total, and the      *)
(* quantiles of positive observations are positive.                        *)
(***************************************************************************)
EXTENDS Stats, SumProofs, FiniteSetTheorems

-----------------------------------------------------------------------------
(* Sorting.                                                                *)

\* The observations up to observation i in ascending order.
Upto(xs, i) == {j \in DOMAIN xs : xs[j] < xs[i] \/ (xs[j] = xs[i] /\ j <= i)}

\* A rank is a position, and ranks are in the order of the observations.
LEMMA RankType ==
  ASSUME NEW xs \in Seq(Int), NEW i \in DOMAIN xs
  PROVE  Rank(xs, i) \in 1..Len(xs) /\ IsFiniteSet(Upto(xs, i))
<1>1. DOMAIN xs = 1..Len(xs) /\ Len(xs) \in Nat
  OBVIOUS
<1>2. IsFiniteSet(DOMAIN xs) /\ Cardinality(DOMAIN xs) = Len(xs)
  <2>1. /\ IsFiniteSet(1..Len(xs))
        /\ Cardinality(1..Len(xs)) = IF 1 > Len(xs) THEN 0 ELSE Len(xs) - 1 + 1
    BY <1>1, FS_Interval, 1 \in Int, Len(xs) \in Int
  <2> QED BY <1>1, <2>1
<1>3. Upto(xs, i) \in SUBSET DOMAIN xs /\ i \in Upto(xs, i)
  BY <1>1 DEF Upto
<1>4. IsFiniteSet(Upto(xs, i)) /\ Cardinality(Upto(xs, i)) <= Len(xs)
  BY <1>2, <1>3, FS_Subset
<1>5. Cardinality(Upto(xs, i)) \in Nat /\ Cardinality(Upto(xs, i)) # 0
  BY <1>3, <1>4, FS_CardinalityType, FS_EmptySet
<1> QED BY <1>1, <1>4, <1>5 DEF Rank, Upto

LEMMA RankOrder ==
  ASSUME NEW xs \in Seq(Int), NEW i \in DOMAIN xs, NEW j \in DOMAIN xs,
         xs[i] < xs[j] \/ (xs[i] = xs[j] /\ i < j)
  PROVE  Rank(xs, i) < Rank(xs, j)
<1>1. DOMAIN xs = 1..Len(xs) /\ Len(xs) \in Nat /\ \A k \in DOMAIN xs : xs[k] \in Int
  OBVIOUS
<1>2. Upto(xs, i) \subseteq Upto(xs, j) /\ j \in Upto(xs, j) /\ j \notin Upto(xs, i)
  BY <1>1 DEF Upto
<1>3. IsFiniteSet(Upto(xs, i)) /\ IsFiniteSet(Upto(xs, j))
  BY RankType
<1>4. /\ Cardinality(Upto(xs, i)) <= Cardinality(Upto(xs, j))
      /\ Cardinality(Upto(xs, i)) # Cardinality(Upto(xs, j))
  BY <1>2, <1>3, FS_Subset
<1>5. Rank(xs, i) = Cardinality(Upto(xs, i)) /\ Rank(xs, j) = Cardinality(Upto(xs, j))
  BY DEF Rank, Upto
<1>6. Rank(xs, i) \in Int /\ Rank(xs, j) \in Int
  BY RankType
<1> QED BY <1>4, <1>5, <1>6

\* The observation at each position of the order.
At(xs) == [k \in 1..Len(xs) |-> CHOOSE i \in DOMAIN xs : Rank(xs, i) = k]

\* Every position is the rank of one observation.
LEMMA RankIsOnto ==
  ASSUME NEW xs \in Seq(Int)
  PROVE  /\ At(xs) \in Injection(1..Len(xs), 1..Len(xs))
         /\ At(xs) \in Surjection(1..Len(xs), 1..Len(xs))
         /\ \A k \in 1..Len(xs) : Rank(xs, At(xs)[k]) = k
<1> DEFINE D == 1..Len(xs)
           ranks == [i \in D |-> Rank(xs, i)]
<1>1. /\ DOMAIN xs = D /\ Len(xs) \in Nat /\ IsFiniteSet(D)
      /\ \A i \in D : xs[i] \in Int
  BY FS_Interval
<1>2. ranks \in Injection(D, D)
  <2>1. ranks \in [D -> D]
    BY <1>1, RankType
  <2>2. ASSUME NEW i \in D, NEW j \in D, ranks[i] = ranks[j] PROVE i = j
    <3>1. Rank(xs, i) = Rank(xs, j) /\ Rank(xs, i) \in Int
      BY <1>1, <2>2, RankType
    <3>2. ~(xs[i] < xs[j] \/ (xs[i] = xs[j] /\ i < j))
      BY <1>1, <3>1, RankOrder
    <3>3. ~(xs[j] < xs[i] \/ (xs[j] = xs[i] /\ j < i))
      BY <1>1, <3>1, RankOrder
    <3>4. xs[i] \in Int /\ xs[j] \in Int /\ i \in Int /\ j \in Int
      BY <1>1
    <3> QED BY <3>2, <3>3, <3>4
  <2> QED BY <2>1, <2>2 DEF Injection, IsInjective
<1>3. ranks \in Surjection(D, D)
  BY <1>1, <1>2, FS_Injection
<1>4. \A k \in D : \E i \in D : Rank(xs, i) = k
  BY <1>3 DEF Surjection
<1>5. \A k \in D : At(xs)[k] \in D /\ Rank(xs, At(xs)[k]) = k
  BY <1>1, <1>4 DEF At
<1>6. At(xs) \in [D -> D]
  BY <1>5 DEF At
<1>7. At(xs) \in Injection(D, D)
  BY <1>5, <1>6 DEF Injection, IsInjective
<1>8. At(xs) \in Surjection(D, D)
  BY <1>1, <1>7, FS_Injection
<1> QED BY <1>5, <1>7, <1>8

\* sort.Float64s: the same observations, in ascending order.
LEMMA SortedProperties ==
  ASSUME NEW xs \in Seq(Int)
  PROVE  /\ Sorted(xs) \in Seq(Int)
         /\ Len(Sorted(xs)) = Len(xs)
         /\ \A k \in 1..Len(xs) : At(xs)[k] \in 1..Len(xs) /\ Sorted(xs)[k] = xs[At(xs)[k]]
         /\ \A k, l \in 1..Len(xs) : k <= l => Sorted(xs)[k] <= Sorted(xs)[l]
<1> DEFINE D == 1..Len(xs)
<1>1. DOMAIN xs = D /\ Len(xs) \in Nat /\ \A i \in D : xs[i] \in Int
  OBVIOUS
<1>2. At(xs) \in [D -> D] /\ \A k \in D : Rank(xs, At(xs)[k]) = k
  BY RankIsOnto DEF Injection
<1>3. Sorted(xs) = [k \in D |-> xs[At(xs)[k]]]
  BY DEF Sorted, At
<1>4. Sorted(xs) \in Seq(Int) /\ Len(Sorted(xs)) = Len(xs)
  BY <1>1, <1>2, <1>3
<1>5. ASSUME NEW k \in D, NEW l \in D, k <= l
      PROVE  Sorted(xs)[k] <= Sorted(xs)[l]
  <2>1. At(xs)[k] \in D /\ At(xs)[l] \in D
    BY <1>2
  <2>2. ~(xs[At(xs)[l]] < xs[At(xs)[k]])
    <3> SUFFICES ASSUME xs[At(xs)[l]] < xs[At(xs)[k]] PROVE FALSE
      OBVIOUS
    <3>1. Rank(xs, At(xs)[l]) < Rank(xs, At(xs)[k])
      BY <1>1, <2>1, RankOrder
    <3> QED BY <1>1, <1>2, <1>5, <3>1
  <2> QED BY <1>1, <1>3, <2>1, <2>2
<1> QED BY <1>2, <1>3, <1>4, <1>5

\* The observations' squares, whose total SquaresOf is.
Squares(xs) == [i \in DOMAIN xs |-> xs[i] * xs[i]]

\* Sorting changes neither the total nor that of the squares.
LEMMA SortedTotals ==
  ASSUME NEW xs \in Seq(Int)
  PROVE  /\ SumOf(Sorted(xs)) = SumOf(xs)
         /\ SquaresOf(Sorted(xs)) = SquaresOf(xs)
<1> DEFINE n == Len(xs)
           p == At(xs)
           s == Sorted(xs)
           sq == Squares(xs)
<1>1. n \in Nat /\ DOMAIN xs = 1..n /\ \A i \in 1..n : xs[i] \in Int
  OBVIOUS
<1>2. /\ p \in [1..n -> 1..n]
      /\ \A k, l \in 1..n : p[k] = p[l] => k = l
      /\ \A i \in 1..n : \E k \in 1..n : p[k] = i
  <2>1. p \in Injection(1..n, 1..n) /\ p \in Surjection(1..n, 1..n)
    BY RankIsOnto
  <2> QED BY <2>1 DEF Injection, IsInjective, Surjection
<1>3. s \in Seq(Int) /\ Len(s) = n /\ \A k \in 1..n : s[k] = xs[p[k]]
  BY SortedProperties
<1>4. s = [k \in 1..n |-> xs[p[k]]]
  BY <1>3
<1>5. sq \in Seq(Int) /\ Len(sq) = n
  BY <1>1 DEF Squares
<1>6. Squares(s) = [k \in 1..n |-> sq[p[k]]]
  <2>1. DOMAIN s = 1..n
    BY <1>3
  <2>2. \A k \in 1..n : s[k] * s[k] = sq[p[k]]
    BY <1>1, <1>2, <1>3 DEF Squares
  <2> QED BY <2>1, <2>2 DEF Squares
<1>7. SquaresOf(s) = SumOf(Squares(s)) /\ SquaresOf(xs) = SumOf(sq)
  BY DEF SquaresOf, Squares
<1> HIDE DEF n, p, s, sq
<1>8. SumOf([k \in 1..n |-> xs[p[k]]]) = SumOf(xs)
  <2>1. Len(xs) = n
    BY DEF n
  <2> QED BY <1>1, <1>2, <2>1, SumOfPermuted
<1>9. SumOf([k \in 1..n |-> sq[p[k]]]) = SumOf(sq)
  BY <1>1, <1>2, <1>5, SumOfPermuted
<1> QED BY <1>4, <1>6, <1>7, <1>8, <1>9 DEF s

-----------------------------------------------------------------------------
(* Quantiles of positive observations.                                     *)

Positive == Nat \ {0}

\* The position of a quartile lies within the observations.
LEMMA PositionType ==
  ASSUME NEW k \in 0..4, NEW n \in Positive
  PROVE  /\ Position(k, n).lo \in 0..n - 1
         /\ Position(k, n).frac \in 0..3
         /\ 4 * Position(k, n).lo + Position(k, n).frac = k * (n - 1)
<1> DEFINE a == k * (n - 1)
<1>1. a \in Nat /\ a <= 4 * (n - 1)
  <2>1. k \in {0, 1, 2, 3, 4}
    OBVIOUS
  <2> QED BY <2>1 DEF Positive
<1>2. Position(k, n).lo = a \div 4 /\ Position(k, n).frac = a % 4
  BY DEF Position
<1> HIDE DEF a
<1>3. a \div 4 \in 0..n - 1 /\ a % 4 \in 0..3 /\ 4 * (a \div 4) + (a % 4) = a
  BY <1>1 DEF Positive
<1> QED BY <1>2, <1>3 DEF a

\* A quantile of positive observations is positive.
LEMMA PercentileIsPositive ==
  ASSUME NEW s \in Seq(Positive), s # <<>>, NEW k \in 0..4
  PROVE  Percentile(s, k) \in Positive
<1> DEFINE n == Len(s)
           h == Position(k, n)
<1>1. n \in Positive /\ \A i \in 1..n : s[i] \in Positive
  BY DEF Positive
<1> HIDE DEF n
<1>2. h.lo \in 0..n - 1 /\ h.frac \in 0..3
  BY <1>1, PositionType
<1>3. 4 * s[1] \in Positive /\ 4 * s[n] \in Positive
  BY <1>1 DEF Positive
<1>4. CASE h.lo + 1 < n
  <2>1. h.lo + 1 \in 1..n /\ h.lo + 2 \in 1..n
    BY <1>1, <1>2, <1>4 DEF Positive
  <2>2. \A a, b \in Positive, f \in {0, 1, 2, 3} : 4 * a + f * (b - a) \in Positive
    BY DEF Positive
  <2>3. 4 * s[h.lo + 1] + h.frac * (s[h.lo + 2] - s[h.lo + 1]) \in Positive
    <3>1. h.frac \in {0, 1, 2, 3}
      BY <1>2
    <3> QED BY <1>1, <2>1, <2>2, <3>1
  <2> QED BY <1>3, <2>3 DEF Percentile, n
<1>5. CASE ~(h.lo + 1 < n)
  <2>1. h.lo + 1 >= n
    BY <1>1, <1>2, <1>5 DEF Positive
  <2> QED BY <1>3, <2>1 DEF Percentile, n
<1> QED BY <1>4, <1>5

\* What Compute says of positive observations.
LEMMA ComputeOfPositive ==
  ASSUME NEW xs \in Seq(Positive), xs # <<>>
  PROVE  /\ Compute(xs).n = Len(xs)
         /\ Compute(xs).p25 \in Positive
         /\ Compute(xs).median \in Positive
         /\ Compute(xs).p75 \in Positive
<1>1. xs \in Seq(Int) /\ Len(xs) \in Nat /\ \A i \in 1..Len(xs) : xs[i] \in Positive
  BY DEF Positive
<1>2. /\ Sorted(xs) \in Seq(Int) /\ Len(Sorted(xs)) = Len(xs)
      /\ \A k \in 1..Len(xs) : Sorted(xs)[k] \in Positive
  BY <1>1, SortedProperties
<1>3. Sorted(xs) \in Seq(Positive) /\ Sorted(xs) # <<>>
  BY <1>1, <1>2
<1> QED BY <1>2, <1>3, PercentileIsPositive DEF Compute
=============================================================================
