------------------------------ MODULE MCResults ------------------------------
(***************************************************************************)
(* Instances of the results tree for TLC.                                  *)
(***************************************************************************)
EXTENDS Results

Stage(stage, failed, wall) == [stage |-> stage, failed |-> failed, wall |-> wall, rss |-> 0]

Rep(warmup, failed, stages) ==
  [config |-> "base", warmup |-> warmup, startedAt |-> 0, failed |-> failed, stages |-> stages]

Ok(warmup, wall) ==
  Rep(warmup, FALSE, <<Stage("baseline", FALSE, wall), Stage("value", FALSE, wall)>>)
ValueFails(warmup, wall) ==
  Rep(warmup, TRUE, <<Stage("baseline", FALSE, wall), Stage("value", TRUE, 1)>>)
\* BuildArgs refuses value: nothing ran, nothing was measured.
ValueRefused(warmup, wall) ==
  Rep(warmup, TRUE, <<Stage("baseline", FALSE, wall), Stage("value", TRUE, 0)>>)

Sweep(machine, planned, reps) ==
  [runID |-> 0, track |-> "bootstrap", version |-> "v1",
   machine |-> machine, matrix |-> "A", startedAt |-> 0, dryRun |-> FALSE,
   planned |-> planned, reps |-> reps]

\* Whole, with a stage that fails and one that is refused, and cut short.
Whole == Sweep("m1", 2, <<Ok(TRUE, 104), Ok(FALSE, 100), Ok(FALSE, 108)>>)
SomeFail == Sweep("m2", 2, <<ValueFails(TRUE, 300), Ok(FALSE, 100), ValueRefused(FALSE, 100)>>)
Dry == [Sweep("m1", 1, <<Ok(FALSE, 1)>>) EXCEPT !.dryRun = TRUE]
CutShort == Sweep("m2", 2, <<Ok(TRUE, 100), Ok(FALSE, 100)>>)

AllSweeps == {Whole, SomeFail, Dry}
WholeSweeps == {Whole}
ShortSweeps == {CutShort}

BothRules == [table |-> RuleIDs, text |-> RuleIDs]
OnlyEX1 == [table |-> {"EX-1"}, text |-> {"EX-1"}]
\* The rules' names without their rows.
Mentioned == [table |-> {}, text |-> RuleIDs]

AllRevisions == {BothRules, OnlyEX1, Mentioned}
FullTable == {BothRules}
=============================================================================
