------------------------------- MODULE Sweep -------------------------------
(***************************************************************************)
(* What a sweep promises, whatever the stages do: the record is a gapless  *)
(* prefix of the committed plan, in the plan's order; spend only grows;    *)
(* from the moment it exceeds the limit nothing more is spent or recorded; *)
(* and a finished record never changes.  The plan gives configuration i    *)
(* Reps[i] repetitions, numbered from 0.                                   *)
(***************************************************************************)
EXTENDS Integers, Sequences

CONSTANTS Reps,   \* a sequence of positive numbers
          Limit   \* a natural number, 0 for no limit

VARIABLES log,     \* the pairs <<configuration, repetition>> recorded
          spent,   \* the spend booked
          open     \* is the sweep still running?

Over == Limit > 0 /\ spent > Limit

\* The repetition that follows <<i, n>> in the plan.
After(p) == IF p[2] + 1 < Reps[p[1]] THEN <<p[1], p[2] + 1>> ELSE <<p[1] + 1, 0>>

\* The repetition the plan asks for after those recorded.
NextPlanned == IF log = <<>> THEN <<1, 0>> ELSE After(log[Len(log)])

Init == log = <<>> /\ spent = 0 /\ open = TRUE

\* One step may charge, record the next repetition, and end the sweep.
Advance ==
  /\ open
  /\ ~Over
  /\ spent' - spent \in Nat
  /\ \/ log' = log
     \/ NextPlanned[1] \in DOMAIN Reps /\ log' = Append(log, NextPlanned)
  /\ open' \in BOOLEAN

Close ==
  /\ open
  /\ open' = FALSE
  /\ UNCHANGED <<log, spent>>

Next == Advance \/ Close

Spec == Init /\ [][Next]_<<log, spent, open>>
=============================================================================
