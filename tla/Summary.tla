------------------------------- MODULE Summary -------------------------------
(***************************************************************************)
(* The report summary/summarize.go derives from the results tree.          *)
(*                                                                         *)
(* A run is [runID, track, version, machine, matrix, startedAt, dryRun,    *)
(* reps], a repetition [config, warmup, startedAt, failed, stages] and a   *)
(* stage result [stage, failed, wall, rss]; failed is a non-empty Error,   *)
(* and a wall time or peak RSS of 0 was not measured.                      *)
(***************************************************************************)
EXTENDS Stats, Rules, FiniteSets

CONSTANT MinSuccessfulReps   \* 5 in the code

ASSUME SummaryAssumption == MinSuccessfulReps \in Nat \ {0}

Metrics == {"wall", "rss"}

-----------------------------------------------------------------------------
(* Observations: one metric of one stage of one repetition of one run.     *)

Observation(run, n, j, metric) ==
  LET rep == run.reps[n] stage == rep.stages[j] IN
  [runID |-> run.runID, track |-> run.track, version |-> run.version,
   machine |-> run.machine, rep |-> n, index |-> j, config |-> rep.config,
   warmup |-> rep.warmup, startedAt |-> rep.startedAt, repFailed |-> rep.failed,
   stage |-> stage.stage, stageFailed |-> stage.failed,
   metric |-> metric, value |-> stage[metric]]

ObservationsOf(run) ==
  UNION {{Observation(run, n, j, m) : j \in DOMAIN run.reps[n].stages, m \in Metrics} :
         n \in DOMAIN run.reps}

\* What metricValue accepts, of the runs that are not dry.
Observations(runs) ==
  {o \in UNION {ObservationsOf(run) : run \in {r \in runs : ~r.dryRun}} : o.value > 0}

-----------------------------------------------------------------------------
(* The two exclusions.                                                     *)

Failed(o) == o.stageFailed \/ o.repFailed

\* The rule that leaves the observation out: EX-2 is asked first.
ExcludedBy(rules, o) ==
  IF Failed(o) /\ Applies(rules, "EX-2", o.startedAt) THEN {"EX-2"}
  ELSE IF o.warmup /\ Applies(rules, "EX-1", o.startedAt) THEN {"EX-1"}
  ELSE {}

\* Mutant: a refused EX-2 is only counted.
RefusedWarmups(rules, o) ==
  {id \in {"EX-1"} : o.warmup /\ ~Applies(rules, id, o.startedAt)}

\* The rules that were asked and refused, each counted once per observation.
RefusedFor(rules, o) ==
  IF ExcludedBy(rules, o) = {"EX-2"} THEN {}
  ELSE {id \in RuleIDs :
          /\ IF id = "EX-1" THEN o.warmup ELSE Failed(o)
          /\ ~Applies(rules, id, o.startedAt)}

-----------------------------------------------------------------------------
(* Figures.  A rule id among the flags stands for exclusion-refused:<id>.  *)

NoStats == [n |-> 0]

\* The statistics of the values val(x) of the members x of a non-empty set.
StatsOf(S, val(_)) ==
  LET order == SetToSeq(S) IN Compute([i \in DOMAIN order |-> val(order[i])])

WithinKey(o) == [runID |-> o.runID, track |-> o.track, version |-> o.version,
                 machine |-> o.machine, config |-> o.config,
                 stage |-> o.stage, metric |-> o.metric]

\* Mutant: a bucket without a statistic says nothing.
WithinFlagsOfFigures(hasStats, stats, counts, bucket, rules) ==
  (IF hasStats /\ stats.noisy THEN {"unstable"} ELSE {})
    \cup UNION {RefusedFor(rules, o) : o \in bucket}

WithinFlags(hasStats, stats, counts, bucket, rules) ==
  (IF hasStats THEN IF stats.noisy THEN {"unstable"} ELSE {} ELSE {"insufficient-n"})
    \cup (IF counts.warmups > 0 THEN {"warmup-included"} ELSE {})
    \cup (IF counts.failed > 0 THEN {"failed-reps"} ELSE {})
    \cup UNION {RefusedFor(rules, o) : o \in bucket}

\* Mutant: only the stage's own errors are counted.
CountsOfStageErrors(kept, bucket, rules) ==
  [values   |-> Cardinality(kept),
   attempts |-> Cardinality({o \in bucket : ~o.warmup}),
   warmups  |-> Cardinality({o \in kept : o.warmup}),
   failed   |-> Cardinality({o \in bucket : o.stageFailed /\ ExcludedBy(rules, o) = {"EX-2"}})]

\* The numbers in the flags insufficient-n, warmup-included and failed-reps.
Counts(kept, bucket, rules) ==
  [values   |-> Cardinality(kept),
   attempts |-> Cardinality({o \in bucket : ~o.warmup}),
   warmups  |-> Cardinality({o \in kept : o.warmup}),
   failed   |-> Cardinality({o \in bucket : ExcludedBy(rules, o) = {"EX-2"}})]

\* One bucket of observations. Warm-ups do not count as attempts.
WithinFigure(key, bucket, rules) ==
  LET kept     == {o \in bucket : ExcludedBy(rules, o) = {}}
      counts   == Counts(kept, bucket, rules)
      hasStats == kept # {} /\ counts.values >= Min({MinSuccessfulReps, counts.attempts})
      stats    == IF hasStats THEN StatsOf(kept, LAMBDA o : o.value) ELSE NoStats
  IN  [scope |-> "within-run", key |-> key, hasStats |-> hasStats, stats |-> stats,
       machines |-> {key.machine}, counts |-> counts,
       flags |-> WithinFlags(hasStats, stats, counts, bucket, rules)]

WithinRun(runs, rules) ==
  LET obs == Observations(runs) IN
  {WithinFigure(k, {o \in obs : WithinKey(o) = k}, rules) : k \in {WithinKey(o) : o \in obs}}

BetweenKey(f) == [track |-> f.key.track, version |-> f.key.version,
                  config |-> f.key.config, stage |-> f.key.stage, metric |-> f.key.metric]

BetweenFigureWhen(enough, key, fs, stats) ==
  [scope |-> "between-run", key |-> key, hasStats |-> enough, stats |-> stats,
   machines |-> {f.key.machine : f \in fs}, counts |-> Counts({}, {}, <<>>),
   flags |-> IF ~enough THEN {"insufficient-n"}
             ELSE IF stats.noisy THEN {"unstable"} ELSE {}]

\* Mutant: one run is a spread.
BetweenFigureOfOne(key, fs) ==
  LET stats == StatsOf(fs, LAMBDA f : f.stats.median)
  IN  BetweenFigureWhen(stats.n > 0, key, fs, stats)

\* The medians of one configuration's within-run figures.
BetweenFigure(key, fs) ==
  LET stats == StatsOf(fs, LAMBDA f : f.stats.median)
  IN  BetweenFigureWhen(stats.n >= 2, key, fs, stats)

BetweenRun(within) ==
  LET published == {f \in within : f.hasStats} IN
  {BetweenFigure(k, {f \in published : BetweenKey(f) = k}) :
     k \in {BetweenKey(f) : f \in published}}

\* Build: the report on a set of runs, with the rules of a clone's history.
Build(runs, history) ==
  LET rules  == LoadRules(history)
      within == WithinRun(runs, rules)
  IN  [runs |-> runs, rules |-> rules, figures |-> within \cup BetweenRun(within),
       refused |-> [id \in RuleIDs |->
         Cardinality({o \in Observations(runs) : id \in RefusedFor(rules, o)})]]

\* Report.Validate finds an error in the figure.
Rejected(f) ==
  IF ~f.hasStats THEN f.flags = {}
  ELSE \/ f.stats.median <= 0 \/ f.stats.p25 <= 0 \/ f.stats.p75 <= 0
       \/ f.stats.noisy /\ "unstable" \notin f.flags
=============================================================================
