------------------------------- MODULE SumProofs -------------------------------
(***************************************************************************)
(* What a running total is, for a sequence of any length.  Induction is    *)
(* from the least number that is an exception.                             *)
(***************************************************************************)
EXTENDS Sums, WellFoundedInduction, SequenceTheorems, TLAPS

\* A non-empty set of natural numbers has a least member.
LEMMA LeastNumber ==
  ASSUME NEW S \in SUBSET Nat, S # {}
  PROVE  \E n \in S : \A m \in S : n <= m
<1> DEFINE Less == {ss \in Nat \X Nat : ss[1] < ss[2]}
<1>1. IsWellFoundedOn(Less, Nat)
  BY NatLessThanWellFounded DEF OpToRel
<1>2. PICK n \in S : \A m \in S : <<m, n>> \notin Less
  <2> HIDE DEF Less
  <2> QED BY <1>1, WFMin
<1>3. \A m \in S : n <= m
  <2> TAKE m \in S
  <2>1. <<m, n>> \notin Less /\ m \in Nat /\ n \in Nat
    BY <1>2
  <2> QED BY <2>1
<1> QED BY <1>3

\* A set of natural numbers that has 0 and with every number the next one, up
\* to a bound, has all up to the bound.
LEMMA Induction ==
  ASSUME NEW N \in Nat, NEW S, 0 \in S, \A n \in 0..N : n \in S /\ n < N => n + 1 \in S
  PROVE  \A n \in 0..N : n \in S
<1> DEFINE Exceptions == {n \in 0..N : n \notin S}
<1> SUFFICES ASSUME Exceptions # {} PROVE FALSE
  OBVIOUS
<1>1. Exceptions \in SUBSET Nat
  OBVIOUS
<1>2. PICK n \in Exceptions : \A m \in Exceptions : n <= m
  BY <1>1, LeastNumber
<1>3. n \in 0..N /\ n \notin S /\ n # 0
  BY <1>2
<1>4. n - 1 \in 0..N /\ n - 1 < N /\ n - 1 \notin Exceptions
  BY <1>2, <1>3
<1> QED BY <1>3, <1>4

\* The totals of the beginnings of vs.
Totals(vs) == CHOOSE f : f = [n \in 0..Len(vs) |-> IF n = 0 THEN 0 ELSE f[n - 1] + vs[n]]

\* The recursion defines a function.
LEMMA TotalsExist ==
  ASSUME NEW vs \in Seq(Int)
  PROVE  /\ Totals(vs) \in [0..Len(vs) -> Int]
         /\ Totals(vs)[0] = 0
         /\ \A n \in 1..Len(vs) : Totals(vs)[n] = Totals(vs)[n - 1] + vs[n]
         /\ SumOf(vs) = Totals(vs)[Len(vs)]
<1> DEFINE L == Len(vs)
           Upto(n, f) == /\ f \in [0..n -> Int] /\ f[0] = 0
                         /\ \A k \in 1..n : f[k] = f[k - 1] + vs[k]
           S == {n \in Nat : \E f : Upto(n, f)}
<1>1. L \in Nat /\ \A k \in 1..L : vs[k] \in Int
  OBVIOUS
<1> HIDE DEF L
<1>2. 0 \in S
  <2>1. Upto(0, [k \in 0..0 |-> 0])
    OBVIOUS
  <2> QED BY <2>1
<1>3. ASSUME NEW n \in 0..L, n \in S, n < L PROVE n + 1 \in S
  <2>1. PICK f : Upto(n, f)
    BY <1>3
  <2> DEFINE g == [k \in 0..n+1 |-> IF k = n + 1 THEN f[n] + vs[n + 1] ELSE f[k]]
  <2>2. g \in [0..n+1 -> Int] /\ g[0] = 0
    BY <1>1, <1>3, <2>1
  <2>3. \A k \in 1..n+1 : g[k] = g[k - 1] + vs[k]
    BY <1>1, <1>3, <2>1
  <2>4. Upto(n + 1, g)
    BY <2>2, <2>3
  <2>5. n + 1 \in Nat
    OBVIOUS
  <2> HIDE DEF Upto, g
  <2> QED BY <2>4, <2>5
<1>4. L \in S
  <2>1. \A n \in 0..L : n \in S /\ n < L => n + 1 \in S
    BY <1>3
  <2> HIDE DEF S
  <2>2. \A n \in 0..L : n \in S
    BY <1>1, <1>2, <2>1, Induction
  <2> QED BY <1>1, <2>2
<1>5. PICK f : Upto(L, f)
  BY <1>4
<1>6. f = [n \in 0..L |-> IF n = 0 THEN 0 ELSE f[n - 1] + vs[n]]
  BY <1>1, <1>5
<1>7. Totals(vs) = [n \in 0..L |-> IF n = 0 THEN 0 ELSE Totals(vs)[n - 1] + vs[n]]
  BY <1>6 DEF Totals, L
<1>8. Totals(vs)[0] = 0 /\ \A n \in 1..L : Totals(vs)[n] = Totals(vs)[n - 1] + vs[n]
  BY <1>1, <1>7
<1>9. \A n \in 0..L : n \in {m \in Nat : Totals(vs)[m] \in Int}
  <2> DEFINE I == {m \in Nat : Totals(vs)[m] \in Int}
  <2>1. 0 \in I
    BY <1>8
  <2>2. \A n \in 0..L : n \in I /\ n < L => n + 1 \in I
    BY <1>1, <1>8
  <2> HIDE DEF I
  <2>3. \A n \in 0..L : n \in I
    BY <1>1, <2>1, <2>2, Induction
  <2> QED BY <2>3 DEF I
<1>10. Totals(vs) \in [0..L -> Int]
  <2>1. DOMAIN Totals(vs) = 0..L
    BY <1>7
  <2> QED BY <1>7, <1>9, <2>1
<1>11. SumOf(vs) = Totals(vs)[L]
  BY DEF SumOf, Totals, L
<1> QED BY <1>8, <1>10, <1>11 DEF L

\* The total of no numbers is 0; of natural numbers it is one.
LEMMA SumOfEmpty == SumOf(<<>>) = 0
<1>1. <<>> \in Seq(Int) /\ Len(<<>>) = 0
  OBVIOUS
<1> QED BY <1>1, TotalsExist

LEMMA SumOfType ==
  ASSUME NEW vs \in Seq(Int)
  PROVE  SumOf(vs) \in Int
<1>1. Len(vs) \in 0..Len(vs)
  OBVIOUS
<1> QED BY <1>1, TotalsExist

\* Two sequences that begin alike have the same totals there.
LEMMA TotalsAgree ==
  ASSUME NEW us \in Seq(Int), NEW vs \in Seq(Int), NEW N \in Nat, N <= Len(us), N <= Len(vs),
         \A k \in 1..N : us[k] = vs[k]
  PROVE  Totals(us)[N] = Totals(vs)[N]
<1> DEFINE S == {n \in Nat : Totals(us)[n] = Totals(vs)[n]}
<1>1. Len(us) \in Nat /\ Len(vs) \in Nat
  OBVIOUS
<1>2. 0 \in S
  BY TotalsExist
<1>3. \A n \in 0..N : n \in S /\ n < N => n + 1 \in S
  <2> SUFFICES ASSUME NEW n \in 0..N, n \in S, n < N PROVE n + 1 \in S
    OBVIOUS
  <2>1. n + 1 \in 1..N /\ n + 1 \in 1..Len(us) /\ n + 1 \in 1..Len(vs) /\ (n + 1) - 1 = n
    BY <1>1
  <2>2. /\ Totals(us)[n + 1] = Totals(us)[n] + us[n + 1]
        /\ Totals(vs)[n + 1] = Totals(vs)[n] + vs[n + 1]
    BY <2>1, TotalsExist
  <2> QED BY <2>1, <2>2
<1>4. \A n \in 0..N : n \in S
  <2> HIDE DEF S
  <2> QED BY <1>2, <1>3, Induction
<1> QED BY <1>4

\* One number more.
LEMMA SumOfAppend ==
  ASSUME NEW vs \in Seq(Int), NEW v \in Int
  PROVE  SumOf(Append(vs, v)) = SumOf(vs) + v
<1> DEFINE us == Append(vs, v)
           n == Len(vs)
<1>1. /\ us \in Seq(Int) /\ Len(us) = n + 1 /\ n \in Nat
      /\ us[n + 1] = v /\ \A k \in 1..n : us[k] = vs[k]
  OBVIOUS
<1> HIDE DEF us, n
<1>2. Totals(us)[n] = Totals(vs)[n]
  <2>1. Len(vs) = n
    BY DEF n
  <2>2. n <= Len(us) /\ n <= Len(vs)
    BY <1>1, <2>1
  <2> QED BY <1>1, <2>2, TotalsAgree
<1>3. Totals(us)[n + 1] = Totals(us)[n] + v
  <2>1. n + 1 \in 1..Len(us) /\ (n + 1) - 1 = n
    BY <1>1
  <2> QED BY <1>1, <2>1, TotalsExist
<1>4. SumOf(us) = Totals(us)[n + 1] /\ SumOf(vs) = Totals(vs)[n]
  BY <1>1, TotalsExist DEF n
<1> QED BY <1>2, <1>3, <1>4 DEF us

\* Numbers that are no greater have no greater total.
LEMMA SumOfMonotone ==
  ASSUME NEW us \in Seq(Int), NEW vs \in Seq(Int), Len(us) = Len(vs),
         \A k \in 1..Len(us) : us[k] <= vs[k]
  PROVE  SumOf(us) <= SumOf(vs)
<1> DEFINE S == {n \in Nat : Totals(us)[n] <= Totals(vs)[n]}
           N == Len(us)
<1>1. N \in Nat /\ N = Len(vs)
  OBVIOUS
<1>2. 0 \in S
  BY TotalsExist
<1>3. ASSUME NEW n \in 0..N, n \in S, n < N PROVE n + 1 \in S
  <2>1. n + 1 \in 1..N /\ (n + 1) - 1 = n /\ n + 1 \in Nat
    BY <1>1, <1>3
  <2>2. /\ Totals(us)[n + 1] = Totals(us)[n] + us[n + 1]
        /\ Totals(vs)[n + 1] = Totals(vs)[n] + vs[n + 1]
    BY <1>1, <2>1, TotalsExist
  <2>3. Totals(us)[n] \in Int /\ Totals(vs)[n] \in Int
    BY <1>1, TotalsExist
  <2>4. us[n + 1] \in Int /\ vs[n + 1] \in Int /\ us[n + 1] <= vs[n + 1]
    BY <1>1, <2>1
  <2> QED BY <1>3, <2>1, <2>2, <2>3, <2>4
<1>4. \A n \in 0..N : n \in S
  <2> HIDE DEF S, N
  <2> QED BY <1>1, <1>2, <1>3, Induction
<1>5. N \in S
  BY <1>1, <1>4
<1> QED BY <1>1, <1>5, TotalsExist

-----------------------------------------------------------------------------
(* Totals in closed form.                                                  *)

\* What grows as the totals do is the totals.
LEMMA TotalsAre ==
  ASSUME NEW vs \in Seq(Int), NEW f, f[0] = 0,
         \A k \in 1..Len(vs) : f[k] = f[k - 1] + vs[k]
  PROVE  /\ \A k \in 0..Len(vs) : Totals(vs)[k] = f[k]
         /\ SumOf(vs) = f[Len(vs)]
<1> DEFINE S == {n \in Nat : Totals(vs)[n] = f[n]}
           L == Len(vs)
<1>1. L \in Nat
  OBVIOUS
<1>2. 0 \in S
  BY TotalsExist
<1>3. ASSUME NEW n \in 0..L, n \in S, n < L PROVE n + 1 \in S
  <2>1. n + 1 \in 1..L /\ (n + 1) - 1 = n
    BY <1>1, <1>3
  <2>2. Totals(vs)[n + 1] = Totals(vs)[n] + vs[n + 1] /\ f[n + 1] = f[n] + vs[n + 1]
    BY <2>1, TotalsExist
  <2> QED BY <1>3, <2>1, <2>2
<1>4. \A n \in 0..L : n \in S
  <2> HIDE DEF S, L
  <2> QED BY <1>1, <1>2, <1>3, Induction
<1>5. L \in 0..L
  BY <1>1
<1> QED BY <1>4, <1>5, TotalsExist

\* The total of zeros is 0.
LEMMA SumOfZeros ==
  ASSUME NEW n \in Nat
  PROVE  SumOf([k \in 1..n |-> 0]) = 0
<1> DEFINE vs == [k \in 1..n |-> 0]
           f == [k \in 0..n |-> 0]
<1>1. vs \in Seq(Int) /\ Len(vs) = n
  OBVIOUS
<1>2. f[0] = 0 /\ \A k \in 1..n : f[k] = f[k - 1] + vs[k]
  OBVIOUS
<1>3. SumOf(vs) = f[n]
  <2> HIDE DEF vs, f
  <2> QED BY <1>1, <1>2, TotalsAre
<1> QED BY <1>3

\* The total of positive numbers is at least their number.
LEMMA SumOfPositives ==
  ASSUME NEW vs \in Seq(Int), \A k \in 1..Len(vs) : vs[k] >= 1
  PROVE  SumOf(vs) >= Len(vs)
<1> DEFINE S == {n \in Nat : Totals(vs)[n] >= n}
           L == Len(vs)
<1>1. L \in Nat
  OBVIOUS
<1>2. 0 \in S
  BY TotalsExist
<1>3. ASSUME NEW n \in 0..L, n \in S, n < L PROVE n + 1 \in S
  <2>1. n + 1 \in 1..L /\ (n + 1) - 1 = n
    BY <1>1, <1>3
  <2>2. /\ Totals(vs)[n + 1] = Totals(vs)[n] + vs[n + 1]
        /\ Totals(vs)[n] \in Int /\ vs[n + 1] \in Int /\ vs[n + 1] >= 1
    BY <2>1, TotalsExist
  <2> QED BY <1>3, <2>1, <2>2
<1>4. \A n \in 0..L : n \in S
  <2> HIDE DEF S, L
  <2> QED BY <1>1, <1>2, <1>3, Induction
<1> QED BY <1>1, <1>4, TotalsExist

\* One number changed.
LEMMA SumOfChange ==
  ASSUME NEW us \in Seq(Int), NEW vs \in Seq(Int), Len(us) = Len(vs),
         NEW a \in 1..Len(vs), \A k \in 1..Len(vs) : k # a => us[k] = vs[k]
  PROVE  SumOf(us) = SumOf(vs) + (us[a] - vs[a])
<1> DEFINE n == Len(vs)
           f == [k \in 0..n |-> Totals(vs)[k] + IF k < a THEN 0 ELSE us[a] - vs[a]]
<1>1. n \in Nat /\ \A k \in 1..n : us[k] \in Int /\ vs[k] \in Int
  OBVIOUS
<1>2. Totals(vs) \in [0..n -> Int] /\ \A k \in 1..n : Totals(vs)[k] = Totals(vs)[k - 1] + vs[k]
  BY TotalsExist
<1>3. f[0] = 0
  BY <1>1, TotalsExist
<1>4. \A k \in 1..n : f[k] = f[k - 1] + us[k]
  <2> SUFFICES ASSUME NEW k \in 1..n PROVE f[k] = f[k - 1] + us[k]
    OBVIOUS
  <2>1. k - 1 \in 0..n /\ k \in 0..n /\ Totals(vs)[k - 1] \in Int /\ a \in 1..n
    <3>1. k - 1 \in 0..n /\ k \in 0..n /\ a \in 1..n
      BY <1>1
    <3> QED BY <1>2, <3>1
  <2>2. /\ f[k] = Totals(vs)[k] + IF k < a THEN 0 ELSE us[a] - vs[a]
        /\ f[k - 1] = Totals(vs)[k - 1] + IF k - 1 < a THEN 0 ELSE us[a] - vs[a]
        /\ Totals(vs)[k] = Totals(vs)[k - 1] + vs[k]
    BY <1>2, <2>1
  <2>3. us[k] \in Int /\ vs[k] \in Int /\ us[a] \in Int /\ vs[a] \in Int
    BY <1>1, <2>1
  <2>4. \A x, y, z \in Int : (x + y) + z = (x + z) + y
    OBVIOUS
  <2> DEFINE d == us[a] - vs[a]
             t == Totals(vs)[k - 1]
  <2> HIDE DEF f
  <2>5. CASE k = a
    <3>1. ~(k < a) /\ k - 1 < a
      BY <2>1, <2>5
    <3> QED BY <2>1, <2>2, <2>3, <2>5, <3>1
  <2>6. CASE k # a
    <3>1. us[k] = vs[k]
      BY <2>6
    <3>2. CASE k < a
      <4>1. k - 1 < a
        BY <2>1, <3>2
      <4>2. f[k] = (t + us[k]) + 0 /\ f[k - 1] = t + 0
        BY <2>2, <3>1, <3>2, <4>1
      <4>3. t \in Int /\ us[k] \in Int
        BY <2>1, <2>3
      <4> QED BY <4>2, <4>3
    <3>3. CASE ~(k < a)
      <4>1. ~(k - 1 < a)
        BY <2>1, <2>6, <3>3
      <4>2. f[k] = (t + us[k]) + d /\ f[k - 1] = t + d
        BY <2>2, <3>1, <3>3, <4>1
      <4>3. t \in Int /\ us[k] \in Int /\ d \in Int
        BY <2>1, <2>3
      <4> HIDE DEF t, d
      <4>4. (t + us[k]) + d = (t + d) + us[k]
        BY <2>4, <4>3
      <4> QED BY <4>2, <4>4
    <3> QED BY <3>2, <3>3
  <2> QED BY <2>5, <2>6
<1>5. SumOf(us) = f[n]
  <2> HIDE DEF f
  <2> QED BY <1>3, <1>4, TotalsAre
<1>6. SumOf(vs) = Totals(vs)[n]
  BY TotalsExist
<1> QED BY <1>1, <1>5, <1>6

\* The order of the numbers does not matter.
LEMMA SumOfPermuted ==
  ASSUME NEW n \in Nat, NEW vs \in Seq(Int), Len(vs) = n, NEW p \in [1..n -> 1..n],
         \A k, l \in 1..n : p[k] = p[l] => k = l,
         \A i \in 1..n : \E k \in 1..n : p[k] = i
  PROVE  SumOf([k \in 1..n |-> vs[p[k]]]) = SumOf(vs)
<1> DEFINE us == [k \in 1..n |-> vs[p[k]]]
           Taken(k) == [i \in 1..n |-> IF \E l \in 1..k : p[l] = i THEN vs[i] ELSE 0]
           f == [k \in 0..n |-> SumOf(Taken(k))]
<1>1. \A k \in 1..n : vs[k] \in Int /\ p[k] \in 1..n
  OBVIOUS
<1>2. \A k \in 0..n : Taken(k) \in Seq(Int) /\ Len(Taken(k)) = n
  BY <1>1
<1>3. f[0] = 0
  <2>1. Taken(0) = [k \in 1..n |-> 0]
    OBVIOUS
  <2>2. SumOf(Taken(0)) = 0
    BY <1>1, <2>1, SumOfZeros
  <2>3. 0 \in 0..n
    BY <1>1
  <2> HIDE DEF Taken
  <2> QED BY <2>2, <2>3
<1>4. ASSUME NEW k \in 1..n PROVE f[k] = f[k - 1] + us[k]
  <2> DEFINE a == p[k]
             new == Taken(k)
             old == Taken(k - 1)
  <2>1. k - 1 \in 0..n /\ k \in 0..n /\ a \in 1..n
    BY <1>1
  <2>2. new[a] = vs[a] /\ old[a] = 0
    <3>1. ~\E l \in 1..k - 1 : p[l] = a
      BY <1>1
    <3>2. k \in 1..k
      BY <1>1
    <3> QED BY <2>1, <3>1, <3>2
  <2>3. \A i \in 1..n : i # a => new[i] = old[i]
    <3> SUFFICES ASSUME NEW i \in 1..n, i # p[k] PROVE new[i] = old[i]
      OBVIOUS
    <3>1. \A l \in 1..k : p[l] = i => l \in 1..k - 1
      <4> SUFFICES ASSUME NEW l \in 1..k, p[l] = i PROVE l \in 1..k - 1
        OBVIOUS
      <4>1. l # k
        OBVIOUS
      <4> QED BY <4>1
    <3>2. \A l \in 1..k - 1 : l \in 1..k
      OBVIOUS
    <3>3. (\E l \in 1..k : p[l] = i) <=> (\E l \in 1..k - 1 : p[l] = i)
      BY <3>1, <3>2
    <3> QED BY <3>3
  <2>4. new \in Seq(Int) /\ Len(new) = n /\ old \in Seq(Int) /\ Len(old) = n
    BY <1>2, <2>1
  <2>5. SumOf(old) \in Int
    BY <2>4, SumOfType
  <2>6. f[k] = SumOf(new) /\ f[k - 1] = SumOf(old) /\ us[k] = vs[a]
    BY <2>1
  <2> HIDE DEF new, old, a, f
  <2>7. SumOf(new) = SumOf(old) + (new[a] - old[a])
    <3>1. Len(new) = Len(old) /\ a \in 1..Len(old)
      BY <2>1, <2>4
    <3>2. \A i \in 1..Len(old) : i # a => new[i] = old[i]
      BY <2>3, <2>4
    <3> QED BY <2>4, <3>1, <3>2, SumOfChange
  <2> QED BY <1>1, <2>1, <2>2, <2>5, <2>6, <2>7
<1>5. Taken(n) = vs
  BY <1>1
<1>6. SumOf(us) = f[n]
  <2>1. us \in Seq(Int) /\ Len(us) = n
    BY <1>1
  <2> HIDE DEF us, f
  <2>2. \A k \in 1..Len(us) : f[k] = f[k - 1] + us[k]
    BY <1>4, <2>1
  <2>3. us \in Seq(Int)
    BY <2>1
  <2>4. SumOf(us) = f[Len(us)]
    BY <1>3, <2>2, <2>3, TotalsAre
  <2> QED BY <2>1, <2>4
<1>7. f[n] = SumOf(Taken(n))
  <2>1. n \in 0..n
    OBVIOUS
  <2> HIDE DEF Taken
  <2> QED BY <2>1
<1> QED BY <1>5, <1>6, <1>7
=============================================================================
