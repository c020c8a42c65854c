---------------------------- MODULE RunnerProps ----------------------------
(***************************************************************************)
(* What must hold of the runner.                                           *)
(***************************************************************************)
EXTENDS Runner, Sums

Tokens == Nat \X Nat \X Nat
RunIDs == Tokens \cup {NoID}
Errors == {NoError, "build", "exec", "exit", "parse", "unaccounted"}
Kinds == {"none", "cancelled", "budget", "failed"}

StageResults == [stage : STRING, error : Errors, spend : Nat \cup {NoSpend},
                 runID : RunIDs, cost : Nat]
Repetitions == [config : Nat, rep : Nat, warmup : BOOLEAN,
                stages : Seq(StageResults), error : Errors]
Runs == [repetitions : Seq(Repetitions), partial : BOOLEAN,
         reason : [kind : Kinds, from : Nat],
         spentUSD : Nat, budgetAborted : BOOLEAN]

\* The types of the runner's variables, and the range of its indices: a stage
\* is only ever looked up within its configuration, and a repetition counter
\* never passes warm-ups plus repetitions.
TypeOK ==
  /\ pc \in {"Execute", "runConfig", "runStage", "Exec", "done"}
  /\ cfg \in 1..Len(Configs) + 1
  /\ rep \in Nat
  /\ stg \in Nat \ {0}
  /\ pc \in {"runConfig", "runStage", "Exec"} =>
       cfg \in DOMAIN Configs /\ rep <= Total(cfg)
  /\ pc \in {"runStage", "Exec"} => stg \in DOMAIN c.stages /\ rep < Total(cfg)
  /\ ids \in [{"baseline", "value", "select"} -> RunIDs]
  /\ rr \in Seq(StageResults)
  /\ run \in Runs
  /\ budget \in [spent : Nat, aborted : BOOLEAN]
  /\ cancelled \in BOOLEAN
  /\ db \subseteq Tokens
  /\ kno \in [stage : STRING \cup {"none"}, from : RunIDs, capped : BOOLEAN]

Reported(r) == r.spend # NoSpend

-----------------------------------------------------------------------------
(* The budget.                                                             *)

InLoop == pc \in {"runStage", "Exec"}

\* What was charged for a stage that was recorded without an error.
CleanCost(r) == IF r.error = NoError THEN r.cost ELSE 0
CostIn(stages) == SumOf([j \in DOMAIN stages |-> CleanCost(stages[j])])

\* Budget.Add and the two tests of Aborted: with a limit set, all the stages
\* without an error of a sweep, however many individually capped invocations
\* they are, were charged for at most the limit plus one invocation's own
\* cap. What a failed invocation was charged comes on top: it is booked
\* nowhere, and unless it is "unaccounted" the sweep goes on.
OverspendBounded ==
  BudgetUSD > 0 =>
    SumOf([i \in DOMAIN run.repetitions |-> CostIn(run.repetitions[i].stages)])
      + (IF InLoop THEN CostIn(rr) ELSE 0) <= BudgetUSD + MaxCharge

\* Once the cap has fired no kno process is started again: the break in the
\* stage loop, the return in runConfig and the break in Execute each stop one
\* of the three loops.
NoSpawnOverBudget ==
  [][pc # "Exec" /\ pc' = "Exec" => ~(BudgetUSD > 0 /\ budget.spent > BudgetUSD)]_vars

Accounted(r) == r.error = NoError /\ r.cost > 0 => Reported(r) /\ r.spend >= r.cost

\* SpendUSD == nil is "unaccounted": a stage that is recorded without an
\* error, by an agent that can charge, has a spend no smaller than the charge.
CleanStageIsAccounted ==
  \A i \in DOMAIN run.repetitions :
    \A j \in DOMAIN run.repetitions[i].stages : Accounted(run.repetitions[i].stages[j])

\* What the stages were recorded to spend.
SpentOn(r) == IF Reported(r) THEN r.spend ELSE 0
SpentIn(stages) == SumOf([j \in DOMAIN stages |-> SpentOn(stages[j])])

\* The books are the record: what Budget holds is the sum of every spend_usd
\* recorded so far, those of the current repetition included, and a finished
\* run's spent_usd is that sum.
BooksMatchRecord ==
  LET recorded == SumOf([i \in DOMAIN run.repetitions |-> SpentIn(run.repetitions[i].stages)])
      current  == IF InLoop THEN SpentIn(rr) ELSE 0
  IN  /\ budget.spent = recorded + current
      /\ pc = "done" => run.spentUSD = recorded

-----------------------------------------------------------------------------
(* The store and the chain of run ids.                                     *)

\* "A fresh store per repetition" (runConfig): while a repetition runs its
\* store holds nothing an earlier repetition, or an earlier sweep, left.
FreshStore ==
  pc \in {"runStage", "Exec"} => \A t \in db : t[1] = cfg /\ t[2] = rep

\* The run id a stage is given is in the store the stage opens, and it is one
\* that the stage it needs made in this very repetition.
LineageInStore ==
  pc = "Exec" /\ kno.stage \in DOMAIN Needs =>
    \E k \in 1..stg-1 : /\ kno.from = <<cfg, rep, k>>
                        /\ kno.from \in db
                        /\ c.stages[k] = Needs[kno.stage]

-----------------------------------------------------------------------------
(* The record.                                                             *)

IsLast(i) == i = Len(run.repetitions)

\* A repetition is recorded with the error of its last stage. Without one,
\* each of its stages is clean, and stages are missing only from the very
\* repetition in which the cap fired, which is the last one.
CleanRepetitionIsWhole ==
  \A i \in DOMAIN run.repetitions :
    LET r == run.repetitions[i]
        n == Len(r.stages)
    IN  /\ n > 0
        /\ r.error = r.stages[n].error
        /\ \A j \in 1..n-1 : r.stages[j].error = NoError
        /\ r.error = NoError /\ n < Len(Configs[r.config].stages) =>
             budget.aborted /\ IsLast(i)

\* The repetitions the plan has for configuration i, and those recorded.
PlannedOf(i) == {<<i, n>> : n \in 0..Total(i) - 1}
RecordedOf(i) ==
  {<<i, run.repetitions[k].rep>> :
     k \in {j \in DOMAIN run.repetitions : run.repetitions[j].config = i}}

\* PartialReason names the configurations that "did not execute": none of
\* those has a repetition, and, unless the cap fired, every configuration
\* before them is complete except the one named as failed.
ReasonIsExact ==
  pc = "done" /\ run.partial =>
    \A i \in DOMAIN Configs :
      /\ i >= run.reason.from => RecordedOf(i) = {}
      /\ i < run.reason.from /\ ~run.budgetAborted =>
           \/ RecordedOf(i) = PlannedOf(i)
           \/ run.reason.kind = "failed" /\ i = run.reason.from - 1

\* Nothing is dropped in silence: a finished run that lacks a planned
\* repetition says so, as Partial or as BudgetAborted.
MissingIsMarked ==
  pc = "done" /\ (\E i \in DOMAIN Configs : RecordedOf(i) # PlannedOf(i)) =>
    run.partial \/ run.budgetAborted

\* Which repetitions are recorded, in the order of the record.
Log == [i \in DOMAIN run.repetitions |->
          <<run.repetitions[i].config, run.repetitions[i].rep>>]

\* The runner keeps the promises of a sweep (module Sweep).
Abstract == INSTANCE Sweep WITH
  Reps  <- [i \in DOMAIN Configs |-> Total(i)],
  Limit <- BudgetUSD,
  log   <- Log,
  spent <- budget.spent,
  open  <- pc # "done"
ImplementsSweep == Abstract!Spec

-----------------------------------------------------------------------------
(* Inductive strengthenings.                                               *)

\* The flag of Budget is exactly "the total exceeds the limit", the stage loop
\* only runs with the flag down, and the books exceed the limit by less than
\* what is booked last.
BudgetInv ==
  /\ budget.aborted <=> BudgetUSD > 0 /\ budget.spent > BudgetUSD
  /\ pc \in {"runStage", "Exec"} => ~budget.aborted
  /\ BudgetUSD > 0 => budget.spent <= BudgetUSD + MaxCharge

\* Every run id in hand was made by an earlier stage of this repetition and is
\* in the store; a running process was given the ids in hand.
LineageInv ==
  /\ pc \in {"runStage", "Exec"} =>
       \A s \in DOMAIN ids : ids[s] # NoID =>
         \E k \in 1..stg-1 : /\ ids[s] = <<cfg, rep, k>>
                             /\ ids[s] \in db
                             /\ c.stages[k] = s
  /\ pc = "Exec" => Token \in db
  /\ pc = "Exec" /\ kno.stage \in DOMAIN Needs =>
       kno.from = ids[Needs[kno.stage]] /\ kno.from # NoID

\* The record ends right before the loop's position in the plan, unless the
\* cap has fired.
PlanInv ==
  \/ budget.aborted
  \/ pc = "done"
  \/ Abstract!NextPlanned = IF pc = "Execute" THEN <<cfg, 0>>
                            ELSE IF rep < Total(cfg) THEN <<cfg, rep>>
                                                     ELSE <<cfg + 1, 0>>

\* A repetition goes on only while its stages are clean: those before the
\* current one are in hand.
ChainInv ==
  pc \in {"runStage", "Exec"} =>
    /\ Len(rr) = stg - 1
    /\ \A j \in DOMAIN rr : rr[j].error = NoError /\ Accounted(rr[j])

\* The loop's position splits the plan: nothing after it is recorded, and
\* unless the cap has fired everything before it is.
PlaceInv ==
  pc # "done" =>
    /\ ~run.partial
    /\ \A i \in DOMAIN Configs :
         /\ i > cfg \/ (i = cfg /\ pc = "Execute") => RecordedOf(i) = {}
         /\ ~budget.aborted =>
              /\ i < cfg => RecordedOf(i) = PlannedOf(i)
              /\ i = cfg /\ pc # "Execute" => RecordedOf(i) = {<<i, n>> : n \in 0..rep-1}

-----------------------------------------------------------------------------
(* Liveness.                                                               *)

\* A cancelled run ends: no child, however slow, and no number of remaining
\* repetitions and configurations holds it back.
CancelTerminates == cancelled ~> pc = "done"

-----------------------------------------------------------------------------
(* What the comments and docs say of the runner and the code does not do.  *)

\* budget.go on parseUSD: "kno reports sub-cent amounts as "<$0.01"; treat the
\* bound as the value": a document that reports a spend is never unreadable
\* because of how small the spend is.
SubCentIsBooked ==
  pc = "Exec" => \A cost \in Charges : \A doc \in Documents(cost) :
    doc.json /\ doc.spent # NoFigure => ParseSpend(doc).reported
=============================================================================
