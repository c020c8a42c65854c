# A verification development for kno-benchmarks

kno-benchmarks drives the released `kno` binary over a committed matrix of
configurations, records what each invocation took, and derives published figures
from the recorded results. Its value rests on promises that are hard to test:
that a sweep records everything it did and stops when the money is spent, that no
exclusion rule reaches data older than itself, that results are only ever added.
This directory holds TLA+ models of the program, the TLC runs that check them,
and TLAPS proofs of the properties that matter most.

    tlc -workers 2 -config MCRunner_paid.cfg MCRunner     # a run
    tlapm RunnerProofs.tla                                # the proofs

`PROJECT.json` lists the runs, the source lines each definition models, the
disagreements between docs and code that the models show, and the hazards.

## 1. Inventory

| component | source | state | operations | properties that make it correct |
|---|---|---|---|---|
| runner | `harness/run.go` | the `Run` in memory, the three loop variables, the run ids of the chain, the configuration's SQLite store | `Execute`, `runConfig`, `runStage`, `Exec` | spend bounded, nothing dropped in silence, a chain stays within its repetition and store, a cancelled run ends |
| command builder | `harness/invoke.go` | none | `BuildArgs` | a paid stage always carries both of its ceilings |
| budget, document parser | `harness/budget.go` | spent, aborted | `Add`, `parseSpend`, `parseUSD` | unreadable, missing and zero are told apart; the flag means "over the limit" |
| matrix loader | `harness/matrix.go` | none | `LoadMatrix`, `Resolve`, `validate`, `Active`, `LintMatrix` | what loads can be driven; an explicit zero is honoured |
| result writer | `harness/result.go` | the results tree | `Run.Write` | a write that breaks off never spoils the published tree |
| statistics | `summary/stats.go` | none | `Compute`, `Percentile` | type 7 quantiles, the sample deviation |
| exclusion rules | `summary/exclusion.go` | METHODOLOGY.md and its git history | `LoadRules`, `firstCommitContaining`, `Applies` | no rule reaches data older than itself |
| summarizer | `summary/summarize.go`, `validate.go` | none (a function of the tree and the history) | `Build`, `Validate` | every refusal is recorded, a figure has the observations it claims, recorded data can always be reported |
| renderer | `summary/render.go` | none | `LatestJSON`, `Markdown` | a row adds up: every recorded value is in it, counted next to it, or set aside by a rule |
| publication | `cmd/knobench/run.go`, `summarize.go`, `.github/workflows/bootstrap.yml` | `main`, clones | run, summarize, commit, rebase, push | results are only added, and can all be read; what git merges of the artifacts without regenerating them still names the results of `main` |
| release check | `cmd/knobench/run.go` (`identify`) | none | digest against checksums | not modelled: straight-line I/O |
| append-only check | `scripts/append-only-check.sh`, `.github/workflows/pr.yml` | branches, their bases, the verdicts on them | open, commit, update, check, merge, push | no order of commits, verdicts, merges and pushes takes a result from `main`, or leaves a wrong row on it |
| workflow lint | `cmd/knobench/lint.go` | none | `lintCmd`, `LintWorkflow` | in a repository that lints clean no self-hosted job is reachable from a fork, in whichever form its triggers are written |
| input generator, fingerprint | `harness/gen.go`, `machine.go`, `rss_*.go` | files | generate, read the host | not modelled: I/O without a protocol; that generation can fail is kept in Runner |

How they interact. `knobench run` loads the matrix, gives `Matrix.Active()` to the
runner, and the runner calls the command builder and the budget once per stage.
The stages of a repetition share a store and hand run ids on (baseline → value →
select → export). `Run.Write` puts the result in the tree. `knobench summarize`
reads the tree and METHODOLOGY.md's history and rewrites SUMMARY.md and
`results/latest.json`. The bootstrap workflow runs both, commits and pushes. `pr.yml`
runs `knobench lint`, `summarize --check` and the append-only check on every pull request
and every push to `main`.

What is hard. The program is one goroutine, so there is no data race to look for;
the difficulty is elsewhere: the operator may cancel at any step; `kno` may fail,
hang, print nothing, print an unreadable figure or spend and then fail; the
budget flag is set in the innermost of three loops and has to stop all of them;
the store outlives a repetition and the work directory a sweep; rules are
drafted, merged and changed while observations come in, and are dated from
clones of any depth; several writers race for one branch, git merges the generated files of two of them line by line, and each of their steps may
fail halfway; a pull request's verdict outlives the `main` it was reached on.

## 2. Modules

| module | what it is |
|---|---|
| `Spend`, `Invoke` | operators: the document parser and `Budget.Add`; `BuildArgs` |
| `Runner` | the state machine of the matrix loop (EXTENDS Spend, Invoke) |
| `Sweep` | what a sweep promises, without its stages: the abstract specification |
| `RunnerProps` | the runner's invariants, its refinement mapping to Sweep, the inductive strengthenings |
| `RunnerProofs`, `RecordProofs` | the proofs: types, budget, store and refinement; the record and its sum |
| `Sums`, `SumProofs` | a running total as a recursive function; what it is for a sequence of any length |
| `Matrix`, `Lint` | operators: Resolve, validate, Active, LintMatrix; LintWorkflow |
| `Stats`, `Rules`, `Summary`, `Render` | operators: Compute; LoadRules and Applies; Build and Validate; Markdown |
| `StatsProofs` | lemmas: sorting, ranks, totals, the quantiles of positive observations |
| `PureFunctions`, `FunctionsProofs` | one behaviour per input of the loader, lint and the statistics (EXTENDS Lint, Stats), with their properties; its proofs |
| `Results`, `ResultsProofs` | the state machine of the repository over time: METHODOLOGY.md's revisions, measurements, reports (EXTENDS Render, and so Summary, Rules and Stats); its proofs |
| `Archive` | what `main` promises, without clones, branches or failures: readable results, only added; the abstract specification of the next two |
| `Publication`, `PublicationProofs` | the state machine of the race for `main`, and its proofs |
| `Review`, `ReviewProofs` | the state machine of branches, verdicts and merges, and its proofs |
| `MC*` | instances for TLC |

`Runner` composes the parser, the budget and the command builder. `MCRunner` also
ties the loader in: an assumption there says that a matrix file with defaults and
a deferred entry loads as the very sequence of configurations the run uses.
`Results` composes the rules, the statistics, the summarizer and the renderer. `PureFunctions`
has the operators of `Lint`, `Matrix` and `Stats` as steps, `MCFunctions` its inputs for TLC.

A definition marked "Mutant" is a plausible mistake in the definition below it.
It is not part of the model; `PROJECT.json` pairs it with the property that finds
it when it replaces the right one.

### Runner

`pc` is the function the runner is in. `Execute` and `runConfig` are the heads of
the two outer loops, `runStage` the point before a command line is built, and
`Exec` the time a `kno` process runs. `cfg`, `rep` and `stg` are the loop
variables, `ids` is `RunIDs`, `rr` the results of the current repetition, `run` the
`Run`, `db` the run ids in the store, `kno` the running command line. `cost`, in a
stage result, is not in the code: it is what the provider charged, known or not.

| code | actions |
|---|---|
| `Execute`'s loop: the two `break`s, the error return of `runConfig`, the end | `StopCancelled`, `StopOverBudget`, `ConfigSetupFails`, `StartConfig`, `EndOfMatrix` |
| `runConfig`'s loop | `RepCancelled`, `LeaveConfig`, `BeginRep` |
| `runStage`, and what `runConfig` does with its result | `RefuseStage`, `SpawnFails`, `Spawn`, `ExecFails`, `KnoFails`, `Unreadable`, `Unaccounted`, `Books` (with `OverCap` and `Accept`), `Free` |
| `signal.NotifyContext` | `Cancel` |

External to the code, and chosen freely by the model: what an invocation charges
(up to its `max_cost_usd`), what it prints, whether it exits with an error, when it
exits. From `kno` the model takes three things: it keeps to its ceiling, its run
ids are new, and it writes an amount below a cent as `<$0.01`, which is the form
`budget.go` quotes.

Abstractions. Amounts are natural numbers of a small unit (`Cent` of them are a
cent), so floating-point rounding, NaN and negative figures are out. Load averages,
wall times and log lines are left out.

### Matrix, Lint

A file is a record of raw configurations; `assets`, `cases` and `concurrency` are
defaulted and tested alike and are one field, `size`. YAML decoding and the digest
are left out.

A workflow file is what its author says: the events that start it, the form they are written in,
the places that name a provider's secret, and its jobs. `Written` is the YAML node of its `on` in GitHub's three
forms, where a mapping alternates keys and values, and `TriggerNames` reads that node by the
three branches of the code, so that `CleanWorkflowsAreGated`, which speaks of the events, rests on
every branch; of a `runs-on` in mapping form (a runner group) no label is read (`ScalarList`), so
the property speaks of the two other forms, while the inputs have all three. That a secret is named is asked
of the file as a whole and the environment of each job, as in the code; the property asks it of what a job
sees, its own or the workflow's. An environment is one that is written, whatever it says: a bare
`environment:` counts for the code and for the model. Reading the directory, YAML aliases, which the
code does not follow, and matching a label or a secret as a substring are left out.

### Stats, Rules, Summary, Render, Results

Quantiles are kept times four and the coefficient of variation is compared with
5% in squares, so the arithmetic is exact where the code's is floating-point.
A commit of METHODOLOGY.md is its two dates, the ids in the table and the ids
anywhere in the text; `git log -S` is modelled by what it does, in a clone whose
oldest commit counts as adding everything it holds. A figure carries its key, its
statistics, its flags and the values it leaves out, by reason. `MinSuccessfulReps` is a parameter, 5 in the code. `Results`
lets reviewers (`Author`, `Merge`), runners (`Measure`) and summarizers (`Summarize`, from
a clone of any depth) act in any order.
The recorded `planned` of a run is not in the code: it is what the matrix committed
to, which the code never compares with what was recorded. Citability and
the claim sentence are left out: `Fingerprint` never sets `Machine.Citable`, so no
figure can be citable today.

`Render` says what SUMMARY.md holds of a report, not how it is laid out: the rules with their
refusals, the runs, and per scope the rows and the entries under "no figure", grouped as
`writeFigures` groups them. `Summarize` renders in the same step, as `summarizeCmd` does.
`latest.json` is in `Publication`, where its lines matter.

### Publication

A clone is the result files it holds and what is in the two artifacts. Each writer goes through checkout, run, summarize, rebase and push; a workflow job ends at
the first step that fails, a person repairs what failed and goes on. The workflow's
concurrency group makes it one writer.

| code | actions |
|---|---|
| `runCmd`, `Run.Write` | `Run` (the file is written, and a partial run then fails the step), `WriteBreaks` (in place, so its beginning stays), `RunFails` (nothing was written yet) |
| `summarizeCmd`, `loadRuns` | `WriteOne`, `WriteOther` (Go's map order: any artifact first), `SummarizeBreaks` (between the two), `Discard` (a person removes what `loadRuns` refuses) |
| the workflow's git steps | `Checkout`, `Rebase`, `RebaseConflicts`, `Push`, `PushRejected`; `Resolve` by a person |

`Run.Write`'s test for an existing file is left out: the name has the run's random id in it, so it
never finds one.

Git merges the artifacts by their lines, and the model says what that makes of them. Of `latest.json`
an append changes `result_files` and `newest_result_at`. The two are next to each other, so git takes
them for one change: it conflicts when both sides changed it differently (`MustConflict`), and is made once
when both made the same (`Pick`). Of SUMMARY.md, which has no count, the model has the Runs table, a
row per result in the order of the paths: rows that both sides added are merged one by one
(`PickRows`) or conflict because they are next to each other, and which of the two is left
open (`MayConflict`), since it depends on the tracks, versions and times in the paths. The
figures, the rules' counts and the matrix digests are merged by git in the same way and are
not in the model.

### Review

A tree is each result's text, the row of SUMMARY.md's Runs table that was made of it, and the
count of `latest.json`; a row or the count may also be written by hand. A person
opens a branch, adds, edits, deletes or renames results, regenerates or edits the artifacts,
merges `main` in, and asks for the verdict; every commit takes the verdict back, and nothing
else does: `Check` reads the merge of the branch into the `main` of that moment, `Merge` makes
the merge into the `main` of a later one. `Merged` is git's three-way merge path by path, row by
row and of the count, `MustConflict` and `MayConflict` when git refuses it or may, as in
`Publication`, `Update` the same with a person who settles conflicts in `main`'s favour, `OnlyAdds` the
script's diff, `Fresh` is `summarize --check`. The job's pushes are one step, since `Publication` has
their parts, and what `Publication` shows of them (`OnlyTheCountLags`) is their guard: they may leave
the count too small. That a merge needs a green verdict is GitHub's setting and not in `src/`:
`Spec` assumes it, `Unprotected` adds pushes without it.

Left out of the script: a `git diff` that fails (`|| true` then lets the check pass), a base that
cannot be fetched (the check is skipped), and a change of a file's type (`T`, which is not
in the filter).

## 3. Runs

Runs that pass:

| run | question | bounds | states |
|---|---|---|---|
| `paid` | is a paid sweep under a budget recorded exactly, and does it stop when the cap fires? | two paid configurations, a chain of two stages with a warm-up and a single stage; charges 0..2, limit 2, two units to a cent | 62k |
| `released` | does `kno` v0.1.2, which reports spend for `baseline` only, keep its chains apart, and does a cancelled run end? | the four-stage chain over `fake:` with a warm-up, then a paid chain; no limit; liveness under fairness | 60k |
| `functions` | can what loads be driven, is what lints clean gated, are the figures those METHODOLOGY.md names? | every matrix file with one good configuration and one with any mix of missing, zero, negative and good fields; every workflow file with two jobs, next to `pr.yml`, up to two events in all three forms, with and without filters; every sequence of up to six of four values, around the 5% threshold | 131k |
| `reports` | what may a report say, at any time and from any clone? | two revisions among three, two runs, each whole, with failures or dry, times 0..2, a floor of 2 | 120k |
| `race` | does `main` stay readable and only gain, and what does git's merge do to its artifacts? | the job and two people, three runs in all, by any of them | 108k |
| `review` | does it under reviews, whose verdicts grow old? | two people (interchangeable) and the job, one result each; a branch falsifies one thing at a time | 57k |

Why the bounds are enough. Every guard of the runner depends on a comparison of
positions (first, last, past the end) or of the budget with its limit: two
configurations, two repetitions and two stages give each loop a first, a last and
an in-between position relative to the two others, and charges up to the limit let
the cap fire after any stage. The four-stage chain is needed in `released` because
`Needs` has that length. In `functions`, lint compares one job at a time with the file it is in: two jobs
have one that is found and one that is not. The fractional part of a quartile's position has period
four, and up to six observations meet each; the values straddle the 5% threshold. In `reports`, two revisions are the fewest with which a rule may be
there, absent, or only mentioned, before and after an observation, and two
runs are the fewest with a between-run spread; a floor of 2 with sweeps of 2
measured repetitions has both sides of the floor. In `race`, three writers are the
fewest among which two others can push between one's rebase and its push, and three runs are the fewest with which two that
are not the newest start from the same `main`, which is when git merges their counts as one. In `review`, two branches and the job are the
fewest with which a verdict is two changes of `main` old when the branch is merged, and each
name is added, edited, deleted and brought back on any branch. `MaxForged` bounds how many of these are
wrong in one branch at a time, a result of `main`'s, a row or the count: the merge treats each path and each
row by itself, and a correction is free.

The properties, by hazard:

* the money: `OverspendBounded` (what the stages without an error were charged, not only what was
  booked), `NoSpawnOverBudget`, `BooksMatchRecord`,
  `CleanStageIsAccounted` (a clean stage's recorded spend covers its charge);
* the record: `CleanRepetitionIsWhole`, `ReasonIsExact`, `MissingIsMarked`, and
  `ImplementsSweep`, the refinement: whatever happens, the record is a gapless prefix of
  the plan, in its order, and nothing is added after the cap;
* the store: `FreshStore`, `LineageInStore`;
* termination: `CancelTerminates`;
* the matrix and the workflows: `LoadedConfigsAreDriven` (which also shows that the second loop of
  `LintMatrix` never finds anything), `ExplicitWarmupsAreRun`, `CleanWorkflowsAreGated`;
* the figures: `QuartilesAreType7`, `UnstableIsFivePercent`, against definitions that
  neither sort nor compute a mean;
* the report: `NoRetroactiveExclusion`, `RefusalIsRecorded`, `ReportIsAccepted`,
  `SpreadIsAcrossRuns`, `MeasurementsAreAccounted` (a row's n, its failed
  repetitions and the warm-ups that EX-1 set aside are all the values that were recorded);
* the branch: `OnlyTheCountLags` (after every race and failure in `race`, and with every old verdict in
  `review`, the Runs table and the newest time are those of the results on `main`, and the count is never too
  large; it may be too small, which is the run `current`), `MainIsReadable`, and
  `ImplementsArchive`, the refinement: seen from `main`, all those steps are appends of readable results.

`reports` has every revision merged when it is authored (`DirectCommits`); without
that, `NoRetroactiveExclusion` fails, which is the run `authordate` below.

Fairness. `FairSpec` has weak fairness on the runner's own steps, because it is one
goroutine that is never blocked except in `cmd.Run`, and on the return of a child once the
context is cancelled, because `exec.CommandContext` then kills it. A child that is not
killed gets no fairness: the code sets no deadline, so it may run for ever. Deadlock is
checked in the runner's runs (a finished run stutters) and in `review`; the other models do stop when
their bounds are reached or their one step is taken.

Runs that end with a violation: each states what a doc or a comment says, and shows
the code doing something else.

| run | statement | what happens |
|---|---|---|
| `subcent` | `<$0.01` is read as its bound | the marks are trimmed in the wrong order and the figure is an error |
| `authordate` | no exclusion by a rule committed after the observation | the author date is read, so a rule drafted earlier and merged later excludes |
| `floor` | fewer than all of the committed repetitions: no figure | the floor follows the repetitions recorded, not those committed |
| `partial` | every run is committed, partial ones included | a partial run fails the workflow's step before the commit |
| `pushed` | "CI diffs the `results/` tree against the previous commit and fails on any modification or deletion" | on a push to `main` the check compares the pushed commit with itself and passes |
| `current` | the artifacts on `main` are those of its results: "derived, never written" (METHODOLOGY.md), and "a concurrent append can never conflict with this one" (`bootstrap.yml:97`) | two appends from the same `main` that leave `newest_result_at` alone make the same edit of `result_files`; git merges it as one, the rebase is clean, and `main` counts a result fewer than it has. Where both also changed the same row of a between-run figure, or a newest time each, they do conflict, and the job fails |

Further disagreements between a doc and the code were met while modelling. They have no
run of their own; each can be read off the model at the definition named.

* `harness/budget.go:26`: a limit of 0 is none, and 0 is the default of `--budget-usd`, while the comment
  at `budget.go:21` says the runner refuses a paid agent with a zero limit (`Add`).
* `harness/run.go:228`: a run whose cap fires within the last configuration is not `Partial`, only
  `BudgetAborted`, while the comment at `run.go:120` has a run that stopped early marked partial
  (`MissingIsMarked` holds with either mark).
* `harness/run.go:311`: a paid invocation that exits with an error, or prints what cannot
  be read, is recorded with no spend and the sweep goes on, while the comment on `ErrFatal`
  calls a spend that cannot be accounted for a safety failure (`KnoFails`, `Unreadable`).
* `harness/run.go:247`: the errors of `os.Remove` are discarded, so a store that cannot be
  removed is used again, silently (`StoreRemoved` with `RemoveMayFail`).
* `summary/exclusion.go:84`: a rule is dated by the first text that holds its id, in the
  table or not, so that a rule whose id was once mentioned, or that was removed and is put back,
  reaches observations recorded while it was no rule (`FirstCommitContaining`).
* `summary/summarize.go:190`: EX-2 leaves out the stages a failed repetition completed,
  while METHODOLOGY.md speaks of the stage it did not complete (`Failed`).
* `summary/summarize.go:199`: a warm-up kept because EX-1 was refused can lie between the
  other values and lower the coefficient of variation, while METHODOLOGY.md says refusals
  widen the published spread (`WithinFigure`).
* `summary/summarize.go:175`: a stage without a single measured value has no bucket and no
  row, while `render.go` says combinations without a figure are listed (`Observations`).
* `summary/render.go:97`: SUMMARY.md lists the rules of HEAD's table, so a rule that was refused and is
  no longer, or never was, in that table is in a figure's flags and in no line of the rules (`Markdown`).
* `summary/exclusion.go:84` again: a squash-merge gives a rule's commit a new author date, so
  the counts of refused exclusions can change on `main` after `--check` passed on the branch.
* `summary/summarize.go:291`: between-run figures are grouped by the configuration's id and not by
  the matrix digest, so an id that is redefined mixes two configurations.
* `scripts/append-only-check.sh`: a failing `git diff`, a base that is not there and a change of a file's type
  all pass, while its header says only additions do.
* `cmd/knobench/lint.go:97`: an `environment:` with nothing in it satisfies lint, and a `self-hosted` label in
  a runner group's mapping is not read (`LintWorkflow`, `ScalarList`).

## 4. Proofs

TLC checks the instances above; TLAPS proves the following for every value of the
constants, from the named assumptions of the modules only, which TLC evaluates in the runs:
`CentAssumption` (Spend); `RunnerAssumption` (Runner: what a loaded matrix guarantees, which is
`LoadedMatricesAreDriven`, and a common bound of the ceilings, which a finite matrix has);
`InputAssumption` (PureFunctions: files have the types YAML gives them, observations are positive
because `metricValue` drops the others); `SummaryAssumption` and `ResultsAssumption` (the floor is
positive, runs have the types of a results file); `PublicationAssumption` and `ReviewAssumption`.

| theorem | statement |
|---|---|
| `TypeCorrect` | `Spec => []TypeOK` for the runner |
| `OverspendIsBounded` | in a sweep of any length, the stages without an error are charged for at most the limit plus one invocation's cap |
| `NothingSpawnsOverBudget` | no process is started once the total exceeds the limit |
| `LineageIsInStore` | a stage's run id was made in its own repetition and is in its store |
| `StoreIsFresh` | `FreshStore`, provided that the old store can be removed |
| `RunnerImplementsSweep` | the runner refines `Sweep` |
| `StagesAreAccounted` | a stage recorded without an error has a spend that covers its charge |
| `RepetitionsAreWhole` | a repetition recorded without an error has every stage, unless the cap fired in it |
| `BooksAreTheRecord` | the budget's total is the sum of the spends in the record and in hand |
| `ReasonsAreExact` | the configurations a partial run names did not execute, those before are complete but for the failed one |
| `NothingIsDroppedSilently` | a finished run that lacks a planned repetition is marked |
| `NothingIsExcludedRetroactively` | with revisions merged as they are authored (`DirectCommits`), no report from any clone leaves out an observation older than the rule |
| `RefusalsAreRecorded` | what a rule would have excluded, had it been older, is in the figure and counted in its flag |
| `ReportsAreAccepted` | no report that can be built is one `Validate` rejects |
| `MeasurementsAreNotLost` | of what has a value, the row adds up to all that was recorded (n, failed, set aside by EX-1), or the attempts are listed under the reason for having no figure |
| `SpreadsAreAcrossRuns` | a between-run spread has one figure of each of at least two runs |
| `LoadedMatricesAreDriven` | a matrix that loads is what the runner assumes, and `LintMatrix` finds nothing in it |
| `GivenWarmupsAreRun` | the warm-ups a file gives a configuration are those it runs |
| `LintGatesWorkflows` | in any set of workflow files that lints clean, no event for forks, in whichever form, starts a job on a self-hosted label in a scalar or a list, and a job that sees a secret has an environment |
| `QuartilesAreTheQuantiles` | the quartiles are type 7's, for any observations in any order |
| `UnstableFiguresAreFlagged` | a figure is flagged exactly when the sample deviation exceeds 5% of the mean |
| `PublicationTyped` | types, for any set of writers and any number of runs |
| `OnlyCountsFallBehind` | the Runs and the newest time on `main` are those of its results, and the count is at most too small, however git merged them |
| `MainStaysReadable` | no result that a broken write cut off reaches `main` |
| `PublicationImplementsArchive` | racing and failing writers refine `Archive` |
| `ReviewTyped` | types, for any number of people and results |
| `ReviewedCountsFallBehind` | the same of the Runs and the count, however old the verdicts |
| `ReviewImplementsArchive` | merges of green branches and the job's pushes refine `Archive` |

The runner's argument. `TypeOK` is inductive. The bound on what is booked is not: it is
kept only because nothing is booked once the flag is up, which is `BudgetInv`: the
flag is exactly "the total exceeds the limit", and it is down whenever the
stage loop runs. A charge is booked from the stage loop only, so the total was within the
limit before it, and a charge is at most `MaxCharge`, even after it has been printed
and parsed (`ChargesAreBounded`, `ParseOfPrinted`, `SpendIsCharge`). `LineageInv` says of every run id
in hand what `LineageInStore` says of the one in use; a new repetition has none. For the
refinement, `PlanInv` says that the loop's position is the successor, in the plan, of the
last repetition recorded. `SweepStep` first reduces the runner's actions to eight
shapes, named for what they do to the record and the position, and the two facts about
the plan are then proved shape by shape. The step of `Sweep` that a
runner's step maps to is `Advance` when something is booked or recorded, `Close` when the
run ends without either, and a stutter otherwise.

The record's argument. What is recorded of a repetition depends on the stages in hand, which is
`ChainInv`: there is one for each stage passed, each clean and accounted for. `RecordStep` reduces
the runner's actions to two, those that keep the record (`Keeps`) and those that append the repetition
at hand with one more stage (`Records`); the theorems about stages and repetitions follow. The two about
a finished run need `PlaceInv`: nothing after the loop's position is recorded and, unless the cap
fired, everything before it is. `StopStep` lists the three ways a run ends, and in each the marks are
what `PlaceInv` says of the position.

The budget's argument. `Booked` is what the record holds and what the stages in hand add to it; that it is the
budget's total is inductive (`BooksKept`): a step that books a stage adds its spend to both sides
(`SumOfAppend`), one that moves the stages in hand to the record leaves the sum as it is. `StampInv` says that
a run that has ended is stamped with the total. The bound on what clean stages were charged
(`OverspendIsBounded`) follows: each of them has a spend that covers its charge (`ChainInv`,
`StagesAreAccounted`), so the sum of the charges is at most the sum of the spends
(`SumOfMonotone`), which is the total. What a failed invocation was charged is not bounded by
anything: the code books none of it and, unless the stage is "unaccounted", goes on.

Sums and induction. A theorem of the library about induction takes a predicate as a parameter, which the
provers cannot instantiate, so induction here is over a set: a set of numbers that lacks one
has a least one it lacks (`LeastNumber`), which gives `Induction`. With it, the
recursive functions of the model (`SumOf`, `Active`'s loop) are shown to exist (`TotalsExist`,
`ActiveType`) and to be what their closed forms are (`TotalsAre`): one number more, one number
changed, another order, another sequence that is nowhere larger (`SumOfAppend`, `SumOfChange`,
`SumOfPermuted`, `SumOfMonotone`).

The dating argument. A rule is dated by the oldest commit that alters its id, and the least element of a
set of commits is one of them (`MinIsLeast`); that commit adds the id and does not take it away
(`FirstTouchingHolds`), in a clone of any depth. So a rule's date is that of a commit of `main`
whose text holds it (`DatedInv`), and such a commit landed when it was authored (`HistoryInv`): the
observation it excludes is younger. Without `DirectCommits` the last step fails, which is `authordate`.

The report's argument. `TreeInv` says that the tree is a finite set of result files, numbered without a
repetition; `ReportInv` that the runs of a report are still in the tree, and that its figures and
counts are what `Build` makes of them by the rules it was given (`ReportCorrect`). The theorems about reports then
are about `Build`, for any runs and any dating of any rules: a figure with statistics has at least one
observation and all are positive (`ReportedAreFinite`), so its quartiles are, which is what `Validate` asks
(`PercentileIsPositive`, `WithinIsAccepted`); each bucket is a row or an entry (`FiguresAreShown`); and
the within-run figures of one between-run key are of different runs (`OneFigurePerRun`). An
observation is kept or excluded by exactly one rule, so what was kept, what failed and what was set aside
partition a bucket, and their sizes add up (`MeasurementsAreNotLost`).

The functions' argument. `OutputInv` says that what was computed is the function of the input. What `Active`
returns are configurations of the file that are not deferred, resolved (`ActiveType`), and `validate` has
tested each of these for all that `BuildArgs` refuses; ids are unique, so the configuration with a
given id is the one that gave the warm-ups. For lint: what `triggerNames` reads of a node is the
set of events that were written in it, in each form (`TriggersAreRead`; of a mapping, the odd nodes are the
keys), so a clean file with an event for forks has no self-hosted job. For the statistics: ranks are a bijection of the positions
(`RankIsOnto`), so the sorted sequence has at each position the one number that counting finds there
(`OfRankIsSorted`) and the same totals as the observations (`SortedTotals`), and the squared
differences of all pairs are n times the squares less the squared sum (`DifferencesTotal`, Lagrange's
identity, by induction over rows of differences).

The publication's argument. `OnlyTheCountLags` depends on what each clone is: `ClonesOnlyAdd`
says that a clone's base is a `main` of the past, which only its count may be too small for, that the clone has all of
its files, and that it was regenerated before it is rebased. The heart is `RebaseLags`: a rebase that git
accepts merges rows that were each made of a result, so the table is that of all the files; the
newest of two sets is the newer of their two (`NewestOfBoth`), and where both sides changed the
lines they made the same change; the count is one of the two sides', so it is at most what it was, while the
files grew. A push makes such a clone `main`. `ClonesAreReadable` says that past summarize a clone has nothing
cut in it. With the two, each push is an append of the archive and every other step a stutter.

The review's argument. `Reviewed` says of each branch that its base is a `main` of the
past, and `Reached` that its verdict, if green, was reached on one no younger than the present one.
`StaleVerdictHolds` is the step: take a base, the `main` of the verdict and the `main` of the merge, each
with the results of the one before. If the merge at the time of the verdict changed no
result and was current, and the merge now has no conflict, then it too changes no result, its rows are
those of its results, since each row and its result are picked from the same side, and its count is that of
one of the trees, all of whose results it has.

Only model-checked: `CancelTerminates`, since liveness under fairness is beyond the prover. Every other
property of a passing run is a theorem. The runs that end with a violation have none: their
properties are false. The proofs are about exact arithmetic, as the model is: what rounding
does to the code's floating-point sums is in neither.

## 5. Not modelled

* `identify`: it compares the digest of the archive with checksums.txt. It is straight-line I/O, and
  nothing in the program ties `--bin` to the archive, so there is no state to relate. That it can fail
  is in `RunFails`.
* The input generator and the fingerprint: files written and read without a protocol, best effort. That
  generation can fail is kept in `Runner`.
* Logging, layout and wording.
* Floating point. Amounts and observations are exact, so a total that differs from its
  limit by a rounding error, negative amounts and NaN are out.
* Citability and the claim sentence: no host is citable today, so neither a figure nor a check of
  `Validate` on one can be reached.
* A sweep killed before `Run.Write`: nothing is on disk, so there is nothing to recover
  (`RunFails` has the lost run).
* A grandchild that keeps `kno`'s output pipe open after the kill: `cmd.Run` would wait
  for it. Which processes `kno` starts is not known here.
* Two sweeps at once in one work directory; nothing in the code or the workflow starts them.
* A report that outlives the commit its rules were dated by (a squash-merge), and between-run
  groups of two matrices: the disagreements above name both.

## 6. Plan

Done: the runner with its budget and store, its refinement and its record; the matrix loader; lint;
the statistics; the rules, the summarizer and the renderer; the publication with its failures and the
review, both against the archive; and a proof of every safety property that a passing run checks.

Left to model:
1. the between-run groups when an id is redefined in `matrix.yaml`, once the repository has
   a second matrix;
2. the citability gate, once a host can pass it;
3. the figures and the rules' counts among the lines that git merges;
4. an abstract specification of the reports (what each may leave out, as a function of what was
   recorded while each rule was in force) that `Results` is compared with.

Left to prove: that abstract specification, once stated; and the positive half of the runs that end with a
violation, that is, what must be assumed for each statement to hold.
