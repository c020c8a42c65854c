--------------------------------- MODULE Sums ---------------------------------
(***************************************************************************)
(* The running totals of the code, "for _, v := range vs { sum += v }", as *)
(* a recursive function, which can be proved about.                        *)
(***************************************************************************)
EXTENDS Integers, Sequences

SumOf(vs) ==
  LET sum[n \in 0..Len(vs)] == IF n = 0 THEN 0 ELSE sum[n - 1] + vs[n]
  IN  sum[Len(vs)]
=============================================================================
