-------------------------------- MODULE Stats --------------------------------
(***************************************************************************)
(* The statistics of summary/stats.go over natural-number observations.    *)
(* A quantile is a number of quarters, and a percentile is given times     *)
(* four, which makes the linear interpolation exact; the coefficient of    *)
(* variation is only ever compared with its 5% threshold, so it is the     *)
(* comparison that is modelled, squared to stay in the integers.           *)
(***************************************************************************)
EXTENDS Sums, FiniteSets

SquaresOf(xs) == SumOf([i \in DOMAIN xs |-> xs[i] * xs[i]])

\* The position of observation i in ascending order; equal ones keep theirs.
Rank(xs, i) ==
  Cardinality({j \in DOMAIN xs : xs[j] < xs[i] \/ (xs[j] = xs[i] /\ j <= i)})

\* sort.Float64s of a copy.
Sorted(xs) == [k \in 1..Len(xs) |-> xs[CHOOSE i \in DOMAIN xs : Rank(xs, i) = k]]

\* Mutant: the position is a fraction of n, not of n - 1.
PositionOfN(k, n) == [lo |-> (k * n) \div 4, frac |-> (k * n) % 4]

\* h = q (n - 1): its floor, and its fraction in quarters.
Position(k, n) == [lo |-> (k * (n - 1)) \div 4, frac |-> (k * (n - 1)) % 4]

\* Percentile of a sorted, non-empty sequence; Go counts from 0.
Percentile(s, k) ==
  LET h == Position(k, Len(s)) IN
  IF Len(s) = 1 THEN 4 * s[1]
  ELSE IF h.lo + 1 >= Len(s) THEN 4 * s[Len(s)]
  ELSE 4 * s[h.lo + 1] + h.frac * (s[h.lo + 2] - s[h.lo + 1])

\* Mutant: the population's variance, with denominator n.
CVExceedsOfPopulation(xs) ==
  LET n == Len(xs) IN
  400 * (n * SquaresOf(xs) - SumOf(xs) * SumOf(xs)) > SumOf(xs) * SumOf(xs)

\* StdDev / Mean > 0.05. StdDev is 0 when n = 1 and otherwise the root of
\* (n * sum of squares - sum^2) / (n (n - 1)).
CVExceeds(xs) ==
  LET n == Len(xs) IN
  n > 1 /\ 400 * n * (n * SquaresOf(xs) - SumOf(xs) * SumOf(xs))
             > (n - 1) * SumOf(xs) * SumOf(xs)

\* Compute of a non-empty sequence. noisy is the test that flags a figure
\* unstable: the CV is undefined or exceeds the threshold.
Compute(xs) ==
  LET s == Sorted(xs) IN
  [n      |-> Len(s),
   median |-> Percentile(s, 2), p25 |-> Percentile(s, 1), p75 |-> Percentile(s, 3),
   min    |-> s[1], max |-> s[Len(s)],
   noisy  |-> SumOf(s) <= 0 \/ CVExceeds(s)]
=============================================================================
