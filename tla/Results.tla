------------------------------- MODULE Results -------------------------------
(***************************************************************************)
(* The repository over time: METHODOLOGY.md is revised on branches and     *)
(* merged, runs are measured and their results committed, and the report   *)
(* is derived from both, by anyone, from a clone of any depth.             *)
(* Reviewers, runners and summarizers act in any order.                    *)
(***************************************************************************)
EXTENDS Render

CONSTANTS Revisions,      \* the contents METHODOLOGY.md may be given: [table, text]
          Measurements,   \* the runs that may be measured, without runID and times
          MaxTime, MaxRevisions, MaxRuns,    \* bounds
          DirectCommits   \* is a revision always merged when it is authored?

\* A Run as a results file holds it.
StageRecords == [stage : STRING, failed : BOOLEAN, wall : Nat, rss : Nat]
RepRecords == [config : STRING, warmup : BOOLEAN, startedAt : Nat, failed : BOOLEAN,
               stages : Seq(StageRecords)]
RunRecords == [runID : Nat, track : STRING, version : STRING, machine : STRING,
               matrix : STRING, startedAt : Nat, dryRun : BOOLEAN, planned : Nat,
               reps : Seq(RepRecords)]

ASSUME ResultsAssumption == Measurements \subseteq RunRecords

VARIABLES now,      \* the clock
          draft,    \* the authored revision not merged yet: at most one
          history,  \* METHODOLOGY.md's commits on the main branch
          tree,     \* the runs under results/
          report    \* the last report built; NoReport before the first

vars == <<now, draft, history, tree, report>>

NoDraft == [authored |-> -1]
NoReport == Build({}, <<>>)

Init ==
  /\ now = 0
  /\ draft = NoDraft
  /\ history = <<>>
  /\ tree = {}
  /\ report = NoReport

Tick ==
  /\ now < MaxTime
  /\ now' = now + 1
  /\ UNCHANGED <<draft, history, tree, report>>

\* External: a commit on a branch. Merging it keeps its author timestamp.
Author(revision) ==
  /\ Len(history) < MaxRevisions
  /\ draft = NoDraft
  /\ draft' = [authored |-> now, table |-> revision.table, text |-> revision.text]
  /\ UNCHANGED <<now, history, tree, report>>

Merge ==
  /\ draft # NoDraft
  /\ DirectCommits => draft.authored = now
  /\ history' = Append(history, [authored |-> draft.authored, landed |-> now,
                                 table |-> draft.table, text |-> draft.text])
  /\ draft' = NoDraft
  /\ UNCHANGED <<now, tree, report>>

\* The repetitions of a run: the first begins at start, the others at end.
Begun(reps, start, end) ==
  [n \in DOMAIN reps |-> [reps[n] EXCEPT !.startedAt = IF n = 1 THEN start ELSE end]]

\* A sweep that ends now, its first repetition begun at some earlier time.
Measure(run, start) ==
  /\ Cardinality(tree) < MaxRuns
  /\ tree' = tree \cup
       {[run EXCEPT !.runID = Cardinality(tree) + 1,
                    !.startedAt = start,
                    !.reps = Begun(@, start, now)]}
  /\ UNCHANGED <<now, draft, history, report>>

\* knobench summarize in a clone that holds the last depth revisions.
Summarize(depth) ==
  /\ tree # {}
  /\ report' = Build(tree, SubSeq(history, Len(history) - depth + 1, Len(history)))
  /\ UNCHANGED <<now, draft, history, tree>>

Next ==
  \/ Tick
  \/ \E revision \in Revisions : Author(revision)
  \/ Merge
  \/ \E run \in Measurements, start \in 0..now : Measure(run, start)
  \/ \E depth \in Min({1, Len(history)})..Len(history) : Summarize(depth)

Spec == Init /\ [][Next]_vars

-----------------------------------------------------------------------------
Reported == Observations(report.runs)
Excluded == {o \in Reported : ExcludedBy(report.rules, o) # {}}
Kept == Reported \ Excluded

\* "Refuses any exclusion whose rule was committed to git after the
\* observation it would exclude" (METHODOLOGY.md; applyRule): an observation
\* a report leaves out was recorded no earlier than the rule's first
\* appearance on the main branch, whatever the depth of the clone and
\* however the table has changed since.
NoRetroactiveExclusion ==
  \A o \in Excluded : \A id \in ExcludedBy(report.rules, o) :
    \E i \in DOMAIN history : id \in history[i].text /\ history[i].landed <= o.startedAt

\* applyRule's record of a refusal: an observation that stays in although a
\* rule is about it leaves that rule's flag on its figure, and the report's
\* count for the rule is at least the number of those observations.
RefusalIsRecorded ==
  LET about(id) == {o \in Kept : IF id = "EX-1" THEN o.warmup ELSE Failed(o)}
      within    == Markdown(report).within
  IN  \A id \in RuleIDs :
        /\ about(id) # {} => report.refused[id] >= Cardinality(about(id))
        /\ \A o \in about(id) : \E f \in within.rows \cup UNION ListedAs(within) :
             f.key = WithinKey(o) /\ id \in f.flags

\* Validate is a check on Build that recorded data cannot fail: whatever has
\* been measured and whatever was excluded, summarize can write its report.
ReportIsAccepted == \A f \in report.figures : ~Rejected(f)

\* "A spread needs at least two observations", each one run's median: a
\* between-run statistic rests on as many runs of its own track and version
\* as it has observations, and on at least two.
SpreadIsAcrossRuns ==
  \A f \in report.figures : f.scope = "between-run" /\ f.hasStats =>
    LET runs == {g.key.runID : g \in {h \in report.figures :
                   h.scope = "within-run" /\ h.hasStats /\ BetweenKey(h) = f.key}}
    IN  /\ f.stats.n = Cardinality(runs)
        /\ f.stats.n >= 2
        /\ Cardinality(f.machines) <= f.stats.n

\* "Naming every one under its reason does neither" (writeFigures): of what a
\* run recorded no value goes missing. Of any configuration, stage and metric
\* with a value, either the absence of a figure is listed with the number of
\* values that are no warm-ups, or its row adds up: its n and its failed
\* repetitions are all the values but the warm-ups that EX-1 set aside.
MeasurementsAreAccounted ==
  LET within == Markdown(report).within IN
  \A key \in {WithinKey(o) : o \in Reported} :
    LET recorded == {o \in Reported : WithinKey(o) = key}
        setAside == {o \in recorded : ExcludedBy(report.rules, o) = {"EX-1"}}
    IN  \/ \E f \in UNION ListedAs(within) :
             f.key = key /\ f.counts.attempts = Cardinality({o \in recorded : ~o.warmup})
        \/ \E f \in within.rows :
             /\ f.key = key
             /\ f.stats.n + f.counts.failed + Cardinality(setAside) = Cardinality(recorded)

-----------------------------------------------------------------------------
(* What the docs say of the summarizer and the code does not do.           *)

\* METHODOLOGY.md, thresholds: "fewer than all of them for a configuration
\* committed with fewer than 5" successful measured repetitions: no figure.
\* planned is the number of repetitions the matrix commits to.
FloorIsOnCommittedRepetitions ==
  \A f \in report.figures : f.scope = "within-run" /\ f.hasStats =>
    \A run \in report.runs : run.runID = f.key.runID =>
      f.stats.n >= Min({MinSuccessfulReps, run.planned})
=============================================================================
