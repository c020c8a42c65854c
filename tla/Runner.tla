------------------------------- MODULE Runner -------------------------------
(***************************************************************************)
(* The matrix loop of harness/run.go: Execute drives every active          *)
(* configuration, runConfig every repetition of one, runStage every stage  *)
(* of one repetition as one kno process, and the aggregate budget and the  *)
(* cancellation of the context stop it.  The operator may cancel at any    *)
(* step; kno is an external process that may fail, print anything, report  *)
(* its spend or not, and take for ever.                                    *)
(*                                                                         *)
(* pc names the function the runner is in: "Execute" and "runConfig" are   *)
(* the heads of their loops, "runStage" is before a stage's command line   *)
(* is built, "Exec" while a kno process runs.                              *)
(***************************************************************************)
EXTENDS Spend, Invoke

CONSTANTS Configs,          \* Matrix.Active(): a sequence of configurations
          BudgetUSD,        \* --budget-usd
          MaxCharge,        \* a bound on every paid configuration's max_cost_usd
          ReportingStages,  \* the stages whose document carries spent_usd
          RemoveMayFail     \* may os.Remove of the old store fail?

ASSUME RunnerAssumption ==
  /\ BudgetUSD \in Nat
  /\ MaxCharge \in Nat
  /\ RemoveMayFail \in BOOLEAN
  /\ Configs \in Seq(ConfigType)
  /\ \A i \in DOMAIN Configs :
       /\ Configs[i].stages # <<>>
       /\ Configs[i].agent # FakeAgent => Configs[i].maxCostUSD <= MaxCharge

VARIABLES pc,         \* where the runner is
          cfg, rep,   \* the loop variables i and rep
          stg, ids,   \* the index of the stage, RunIDs
          rr,         \* rr.Stages, the results of the current repetition
          run,        \* the Run being recorded
          budget,     \* the aggregate Budget
          cancelled,  \* ctx.Err() # nil
          db,         \* the run ids held by the configuration's store
          kno         \* the command line of the running kno process

vars == <<pc, cfg, rep, stg, ids, rr, run, budget, cancelled, db, kno>>

-----------------------------------------------------------------------------
c == Configs[cfg]
Total(i) == Configs[i].warmups + Configs[i].repetitions
Stage == c.stages[stg]

NoProcess == [stage |-> "none", from |-> NoID, capped |-> FALSE]
NoReason == [kind |-> "none", from |-> 0]
NoSpend == -1                                    \* SpendUSD == nil
NoError == "none"                                \* the empty string

\* The run id kno gives the current invocation, and one left in the store
\* by an earlier sweep over the same --workdir.
Token == <<cfg, rep, stg>>
Stale == <<0, 0, 0>>

\* A StageResult.  cost is not in the code: it is what the provider charged.
Result(error, spend, runID, cost) ==
  [stage |-> Stage, error |-> error, spend |-> spend, runID |-> runID, cost |-> cost]

\* External: what one invocation may charge. Only a stage that names a paid
\* agent is charged for, and kno keeps to its --max-cost-usd.
Charges == IF c.agent = FakeAgent \/ Stage \notin AgentStages THEN {0}
                                                             ELSE 0..c.maxCostUSD

\* External: the documents kno may print; its run id may be missing.
Documents(cost) ==
  [json : BOOLEAN, runID : {NoID, Token},
   spent : {IF Stage \in ReportingStages THEN KnoFigure(cost) ELSE NoFigure}]

-----------------------------------------------------------------------------
Init ==
  /\ pc = "Execute"
  /\ cfg = 1 /\ rep = 0 /\ stg = 1
  /\ ids = NoIDs /\ rr = <<>>
  /\ run = [repetitions |-> <<>>, partial |-> FALSE, reason |-> NoReason,
            spentUSD |-> 0, budgetAborted |-> FALSE]
  /\ budget = [spent |-> 0, aborted |-> FALSE]
  /\ cancelled = FALSE
  /\ db = {}
  /\ kno = NoProcess

\* The end of Execute: the totals are stamped and the Run returned.
Finish(repetitions, partial, reason) ==
  /\ pc' = "done"
  /\ run' = [repetitions |-> repetitions, partial |-> partial, reason |-> reason,
             spentUSD |-> budget.spent, budgetAborted |-> budget.aborted]
  /\ UNCHANGED <<cfg, rep, stg, ids, rr, budget, cancelled, db>>

Recorded(stages, error) ==
  Append(run.repetitions,
         [config |-> cfg, rep |-> rep, warmup |-> rep < c.warmups,
          stages |-> stages, error |-> error])

\* Mutant: a repetition that failed is not published.
EndRepetitionUnlessFailed(stages, error) ==
  /\ run' = IF error = NoError THEN [run EXCEPT !.repetitions = Recorded(stages, error)] ELSE run
  /\ rep' = rep + 1
  /\ pc' = "runConfig"
  /\ UNCHANGED <<cfg, stg, ids, rr, cancelled, db>>

\* The end of one iteration of runConfig's loop.
EndRepetition(stages, error) ==
  /\ run' = [run EXCEPT !.repetitions = Recorded(stages, error)]
  /\ rep' = rep + 1
  /\ pc' = "runConfig"
  /\ UNCHANGED <<cfg, stg, ids, rr, cancelled, db>>

\* Mutant: rr.Error is not set.
FailRepetitionUnmarked(result) == EndRepetition(Append(rr, result), NoError)

FailRepetition(result) ==
  EndRepetition(Append(rr, result), result.error)

-----------------------------------------------------------------------------
(* Execute: the loop over the configurations.                              *)

\* SIGINT or SIGTERM: signal.NotifyContext cancels the context.
Cancel ==
  /\ pc # "done"
  /\ ~cancelled
  /\ cancelled' = TRUE
  /\ UNCHANGED <<pc, cfg, rep, stg, ids, rr, run, budget, db, kno>>

AtConfiguration == pc = "Execute" /\ cfg \in DOMAIN Configs

\* Mutant: the reason starts one configuration too late.
StopCancelledAfterThis ==
  /\ AtConfiguration
  /\ cancelled
  /\ Finish(run.repetitions, TRUE, [kind |-> "cancelled", from |-> cfg + 1])
  /\ UNCHANGED kno

StopCancelled ==
  /\ AtConfiguration
  /\ cancelled
  /\ Finish(run.repetitions, TRUE, [kind |-> "cancelled", from |-> cfg])
  /\ UNCHANGED kno

StopOverBudget ==
  /\ AtConfiguration
  /\ ~cancelled
  /\ budget.aborted
  /\ Finish(run.repetitions, TRUE, [kind |-> "budget", from |-> cfg])
  /\ UNCHANGED kno

MayStart == AtConfiguration /\ ~cancelled /\ ~budget.aborted

\* MkdirAll, GenerateCases or GenerateAssets fails.
ConfigSetupFails ==
  /\ MayStart
  /\ Finish(run.repetitions, TRUE, [kind |-> "failed", from |-> cfg + 1])
  /\ UNCHANGED kno

\* The directory may be that of an earlier sweep that kept its inputs.
StartConfig ==
  /\ MayStart
  /\ pc' = "runConfig"
  /\ rep' = 0
  /\ db' \in {{}, {Stale}}
  /\ UNCHANGED <<cfg, stg, ids, rr, run, budget, cancelled, kno>>

EndOfMatrix ==
  /\ pc = "Execute"
  /\ cfg \notin DOMAIN Configs
  /\ Finish(run.repetitions, run.partial, run.reason)
  /\ UNCHANGED kno

-----------------------------------------------------------------------------
(* runConfig: the loop over the repetitions of one configuration.          *)

\* Mutant: the loop runs once too often.
AtRepetitionInclusive == pc = "runConfig" /\ rep <= Total(cfg)

AtRepetition == pc = "runConfig" /\ rep < Total(cfg)

\* Mutant: the cancellation ends the configuration and is not returned.
RepCancelledSilently ==
  /\ AtRepetition
  /\ cancelled
  /\ pc' = "Execute"
  /\ cfg' = cfg + 1
  /\ rep' = 0
  /\ UNCHANGED <<stg, ids, rr, run, budget, cancelled, db, kno>>

\* A cancelled repetition is fatal for the whole run.
RepCancelled ==
  /\ AtRepetition
  /\ cancelled
  /\ Finish(run.repetitions, TRUE, [kind |-> "failed", from |-> cfg + 1])
  /\ UNCHANGED kno

\* Either the loop is over or the budget has fired: both return nil.
LeaveConfig ==
  /\ pc = "runConfig"
  /\ \/ rep >= Total(cfg)
     \/ ~cancelled /\ budget.aborted
  /\ pc' = "Execute"
  /\ cfg' = cfg + 1
  /\ rep' = 0
  /\ UNCHANGED <<stg, ids, rr, run, budget, cancelled, db, kno>>

\* Mutant: an exhausted budget ends the configuration only.
MayRepeatOverBudget == AtRepetition /\ ~cancelled

MayRepeat == AtRepetition /\ ~cancelled /\ ~budget.aborted

\* Mutant: the database file is not removed.
StoreKept == {db}

\* os.Remove of the database and its journals: its error is discarded.
StoreRemoved == IF RemoveMayFail THEN {{}, db} ELSE {{}}

\* Mutant: RunIDs is declared outside the loop.
IDsKept == ids

InitialIDs == NoIDs

BeginRep ==
  /\ MayRepeat
  /\ pc' = "runStage"
  /\ stg' = 1
  /\ ids' = InitialIDs
  /\ rr' = <<>>
  /\ db' \in StoreRemoved
  /\ UNCHANGED <<cfg, rep, run, budget, cancelled, kno>>

-----------------------------------------------------------------------------
(* runStage: one kno process.                                              *)

\* BuildArgs returns an error: nothing is executed.
RefuseStage ==
  /\ pc = "runStage"
  /\ BuildFails(Stage, c, ids)
  /\ FailRepetition(Result("build", NoSpend, NoID, 0))
  /\ UNCHANGED <<budget, kno>>

\* The process cannot be started. Start refuses when ctx is already done.
SpawnFails ==
  /\ pc = "runStage"
  /\ ~BuildFails(Stage, c, ids)
  /\ FailRepetition(Result("exec", NoSpend, NoID, 0))
  /\ UNCHANGED <<budget, kno>>

Spawn ==
  /\ pc = "runStage"
  /\ ~BuildFails(Stage, c, ids)
  /\ ~cancelled
  /\ pc' = "Exec"
  /\ kno' = BuildArgs(Stage, c, ids)
  /\ db' = db \cup {Token}
  /\ UNCHANGED <<cfg, rep, stg, ids, rr, run, budget, cancelled>>

Returned == pc = "Exec" /\ kno' = NoProcess

\* The context was done while the process exited with 0.
ExecFails ==
  /\ Returned
  /\ cancelled
  /\ \E cost \in Charges : FailRepetition(Result("exec", NoSpend, NoID, cost))
  /\ UNCHANGED budget

\* A non-zero exit, which is also what a killed process leaves: the document
\* is not read, whatever had been spent by then.
KnoFails ==
  /\ Returned
  /\ \E cost \in Charges : FailRepetition(Result("exit", NoSpend, NoID, cost))
  /\ UNCHANGED budget

\* The document, or its dollar figure, cannot be parsed.
Unreadable ==
  /\ Returned
  /\ \E cost \in Charges : \E doc \in Documents(cost) :
       /\ ParseSpend(doc).err
       /\ FailRepetition(Result("parse", NoSpend, NoID, cost))
  /\ UNCHANGED budget

\* Mutant: only baseline is asked for its spend.
OnlyBaselineMustReport == c.agent # FakeAgent /\ Stage = "baseline"

MustReport == c.agent # FakeAgent

\* A paid stage that reports nothing is fatal: the repetition is recorded
\* and the run stops.
Unaccounted ==
  /\ Returned
  /\ MustReport
  /\ \E cost \in Charges : \E doc \in Documents(cost) :
       LET spend == ParseSpend(doc) IN
       /\ ~spend.err /\ ~spend.reported
       /\ Finish(Recorded(Append(rr, Result("unaccounted", NoSpend, NoID, cost)),
                          "unaccounted"),
                 TRUE, [kind |-> "failed", from |-> cfg + 1])

\* The stage is complete: its run id is kept for a later stage, and the next
\* stage or the next repetition follows.
Accept(spend, runID, cost) ==
  LET stages == Append(rr, Result(NoError, spend, runID, cost)) IN
  IF stg < Len(c.stages)
  THEN /\ pc' = "runStage"
       /\ stg' = stg + 1
       /\ rr' = stages
       /\ ids' = IF runID # NoID /\ Stage \in DOMAIN ids
                 THEN [ids EXCEPT ![Stage] = runID] ELSE ids
       /\ UNCHANGED <<cfg, rep, run, cancelled, db>>
  ELSE EndRepetition(stages, NoError)

\* Mutant: the result is returned before its spend is filled in.
OverCapUnrecorded(spend, cost) ==
  EndRepetition(Append(rr, Result(NoError, NoSpend, NoID, cost)), NoError)

\* The cap has fired: the stage returns before its run id is read and the
\* repetition ends without an error.
OverCap(spend, cost) ==
  EndRepetition(Append(rr, Result(NoError, spend, NoID, cost)), NoError)

\* A reported spend is booked.
Books ==
  /\ Returned
  /\ \E cost \in Charges : \E doc \in Documents(cost) :
       LET spend == ParseSpend(doc) IN
       /\ spend.reported
       /\ budget' = Add(budget, spend.usd, BudgetUSD)
       /\ IF budget'.aborted
          THEN OverCap(spend.usd, cost)
          ELSE Accept(spend.usd, doc.runID, cost)

\* The fake: agent may report nothing: it spends nothing.
Free ==
  /\ Returned
  /\ ~MustReport
  /\ \E cost \in Charges : \E doc \in Documents(cost) :
       LET spend == ParseSpend(doc) IN
       /\ ~spend.err /\ ~spend.reported
       /\ Accept(NoSpend, doc.runID, cost)
  /\ UNCHANGED budget

-----------------------------------------------------------------------------
ChildReturns == ExecFails \/ KnoFails \/ Unreadable \/ Unaccounted \/ Books \/ Free

RunnerSteps ==
  \/ StopCancelled \/ StopOverBudget \/ ConfigSetupFails \/ StartConfig \/ EndOfMatrix
  \/ RepCancelled \/ LeaveConfig \/ BeginRep
  \/ RefuseStage \/ SpawnFails \/ Spawn

Terminated == pc = "done" /\ UNCHANGED vars

Next == Cancel \/ RunnerSteps \/ ChildReturns \/ Terminated

Spec == Init /\ [][Next]_vars

\* Mutant: the child is started by exec.Command, without the context.
OrphanReturns == FALSE /\ ChildReturns

\* exec.CommandContext kills the child once the context is done, so that a
\* cancelled child exits.
KilledChildReturns == cancelled /\ ChildReturns

\* The runner is one goroutine that keeps running. A child that is not
\* killed has no deadline and may never exit: it gets no fairness.
FairSpec == Spec /\ WF_vars(RunnerSteps) /\ WF_vars(KilledChildReturns)
=============================================================================
