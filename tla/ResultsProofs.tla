---------------------------- MODULE ResultsProofs ----------------------------
(***************************************************************************)
(* Why dating a rule by its first commit is sound when revisions of        *)
(* METHODOLOGY.md are merged as they are authored, and what every report   *)
(* says: for any revisions, any runs, any number of them, and clones of    *)
(* any depth.                                                              *)
(***************************************************************************)
EXTENDS Results, StatsProofs

Tables == {r.table : r \in Revisions}
Texts == {r.text : r \in Revisions}
Drafts == [authored : Nat, table : Tables, text : Texts]
Commits == [authored : Nat, landed : Nat, table : Tables, text : Texts]

\* Every commit landed at the time its author gave it.
HistoryInv ==
  /\ now \in Nat
  /\ draft \in {NoDraft} \cup Drafts
  /\ history \in Seq(Commits)
  /\ \A i \in DOMAIN history : history[i].landed = history[i].authored

\* A rule of the last report is dated by a commit of the main branch whose
\* text holds it.
DatedInv ==
  \A id \in DOMAIN report.rules : report.rules[id].committed =>
    \E i \in DOMAIN history : /\ id \in history[i].text
                              /\ history[i].landed = report.rules[id].effectiveAt

-----------------------------------------------------------------------------
(* Dating a rule.                                                          *)

\* The least member of a non-empty set of numbers is in it.
LEMMA MinIsLeast ==
  ASSUME NEW S \in SUBSET Nat, S # {}
  PROVE  Min(S) \in S /\ \A x \in S : Min(S) <= x
BY LeastNumber DEF Min

\* The oldest commit that alters a rule's name is one whose text holds it.
LEMMA FirstTouchingHolds ==
  ASSUME NEW h \in Seq(Commits), NEW id, Touching(h, id) # {}
  PROVE  Min(Touching(h, id)) \in DOMAIN h /\ id \in h[Min(Touching(h, id))].text
<1> DEFINE T == Touching(h, id)
           i == Min(T)
           Holding == {j \in DOMAIN h : id \in h[j].text}
           m == Min(Holding)
<1>1. DOMAIN h = 1..Len(h) /\ Len(h) \in Nat
  OBVIOUS
<1>2. T \in SUBSET Nat /\ Holding \in SUBSET Nat /\ T \subseteq DOMAIN h
  BY <1>1 DEF Touching
<1>3. i \in T /\ \A x \in T : i <= x
  BY <1>2, MinIsLeast
<1>4. i \in DOMAIN h /\ (id \in h[i].text) # (i > 1 /\ id \in h[i - 1].text)
  BY <1>3 DEF Touching
<1>5. CASE id \notin h[i].text
  <2>1. i - 1 \in Holding
    BY <1>1, <1>4, <1>5
  <2>2. m \in Holding /\ \A x \in Holding : m <= x
    BY <1>2, <2>1, MinIsLeast
  <2>3. ~(m > 1 /\ id \in h[m - 1].text)
    <3> SUFFICES ASSUME m > 1, id \in h[m - 1].text PROVE FALSE
      OBVIOUS
    <3>1. m - 1 \in Holding /\ m \in Nat
      BY <1>1, <2>2
    <3> HIDE DEF m
    <3> QED BY <2>2, <3>1
  <2>4. m \in T
    BY <2>2, <2>3 DEF Touching
  <2>5. i <= m /\ m <= i - 1 /\ i \in Nat /\ m \in Nat
    BY <1>2, <1>3, <2>1, <2>2, <2>4
  <2> HIDE DEF i, m
  <2> QED BY <2>5
<1> QED BY <1>4, <1>5

\* LoadRules dates a rule by a commit of the history it is given whose text
\* holds the rule.
LEMMA RulesAreDated ==
  ASSUME NEW h \in Seq(Commits), NEW id \in DOMAIN LoadRules(h), LoadRules(h)[id].committed
  PROVE  \E i \in DOMAIN h : /\ id \in h[i].text
                             /\ h[i].authored = LoadRules(h)[id].effectiveAt
<1>1. h # <<>>
  BY DEF LoadRules, NoCommit
<1>2. LoadRules(h)[id] = FirstCommitContaining(h, id)
  BY <1>1 DEF LoadRules
<1>3. Touching(h, id) # {}
  BY <1>2 DEF FirstCommitContaining, NoCommit
<1>4. LoadRules(h)[id].effectiveAt = h[Min(Touching(h, id))].authored
  BY <1>2, <1>3 DEF FirstCommitContaining
<1> QED BY <1>3, <1>4, FirstTouchingHolds

-----------------------------------------------------------------------------
(* The repository over time.                                               *)

\* Revisions that are merged when they are authored land at their own date.
LEMMA HistoryStep ==
  ASSUME DirectCommits, HistoryInv, [Next]_vars
  PROVE  /\ HistoryInv'
         /\ \A i \in DOMAIN history : i \in DOMAIN history' /\ history'[i] = history[i]
<1>1. CASE Tick
  BY <1>1 DEF Tick, HistoryInv
<1>2. CASE \E revision \in Revisions : Author(revision)
  <2>1. PICK revision \in Revisions : Author(revision)
    BY <1>2
  <2>2. revision.table \in Tables /\ revision.text \in Texts
    BY DEF Tables, Texts
  <2>3. draft' \in Drafts /\ now' = now /\ history' = history
    BY <2>1, <2>2 DEF Author, Drafts, HistoryInv
  <2> QED BY <2>3 DEF HistoryInv
<1>3. CASE Merge
  <2> DEFINE commit == [authored |-> draft.authored, landed |-> now,
                        table |-> draft.table, text |-> draft.text]
  <2>1. draft \in Drafts /\ draft.authored = now
    BY <1>3 DEF Merge, HistoryInv
  <2>2. commit \in Commits /\ commit.landed = commit.authored
    BY <2>1 DEF Drafts, Commits, HistoryInv
  <2>3. history' = Append(history, commit) /\ draft' = NoDraft /\ now' = now
    BY <1>3 DEF Merge
  <2> HIDE DEF commit
  <2>4. /\ history' \in Seq(Commits) /\ DOMAIN history' = 1..Len(history) + 1
        /\ DOMAIN history = 1..Len(history) /\ Len(history) \in Nat
        /\ \A i \in 1..Len(history) : history'[i] = history[i]
        /\ history'[Len(history) + 1] = commit
    BY <2>2, <2>3 DEF HistoryInv
  <2>5. \A i \in DOMAIN history' : history'[i].landed = history'[i].authored
    <3> TAKE i \in DOMAIN history'
    <3>1. CASE i = Len(history) + 1
      BY <2>2, <2>4, <3>1
    <3>2. CASE i # Len(history) + 1
      <4>1. i \in DOMAIN history /\ history'[i] = history[i]
        BY <2>4, <3>2
      <4> QED BY <4>1 DEF HistoryInv
    <3> QED BY <3>1, <3>2
  <2> QED BY <2>3, <2>4, <2>5 DEF HistoryInv
<1>4. CASE \E run \in Measurements, start \in 0..now : Measure(run, start)
  BY <1>4 DEF Measure, HistoryInv
<1>5. CASE \E depth \in Min({1, Len(history)})..Len(history) : Summarize(depth)
  BY <1>5 DEF Summarize, HistoryInv
<1>6. CASE UNCHANGED vars
  BY <1>6 DEF vars, HistoryInv
<1> QED BY <1>1, <1>2, <1>3, <1>4, <1>5, <1>6 DEF Next

\* A clone of any depth dates its rules by commits of the main branch.
LEMMA DatedStep ==
  ASSUME DirectCommits, HistoryInv, DatedInv, [Next]_vars
  PROVE  DatedInv'
<1>1. \A i \in DOMAIN history : i \in DOMAIN history' /\ history'[i] = history[i]
  BY HistoryStep
<1>2. CASE report' = report
  BY <1>1, <1>2 DEF DatedInv
<1>3. ASSUME NEW depth \in Min({1, Len(history)})..Len(history), Summarize(depth)
      PROVE  DatedInv'
  <2> DEFINE h == SubSeq(history, Len(history) - depth + 1, Len(history))
  <2>1. Len(history) \in Nat /\ DOMAIN history = 1..Len(history)
    BY DEF HistoryInv
  <2>2. Min({1, Len(history)}) \in Nat
    BY <2>1, MinIsLeast, {1, Len(history)} \in SUBSET Nat, {1, Len(history)} # {}
  <2>3. depth \in Nat /\ depth <= Len(history)
    BY <2>1, <2>2
  <2>4. h \in Seq(Commits) /\ Len(h) = depth /\ DOMAIN h = 1..depth
        /\ \A i \in 1..depth : h[i] = history[Len(history) - depth + i]
    BY <2>1, <2>3 DEF HistoryInv
  <2>5. report'.rules = LoadRules(h) /\ history' = history
    BY <1>3 DEF Summarize, Build
  <2> HIDE DEF h
  <2>6. ASSUME NEW id \in DOMAIN LoadRules(h), LoadRules(h)[id].committed
        PROVE  \E i \in DOMAIN history : /\ id \in history[i].text
                                         /\ history[i].landed = LoadRules(h)[id].effectiveAt
    <3>1. PICK i \in DOMAIN h : /\ id \in h[i].text
                                /\ h[i].authored = LoadRules(h)[id].effectiveAt
      BY <2>4, <2>6, RulesAreDated
    <3>2. h[i] = history[Len(history) - depth + i] /\ Len(history) - depth + i \in DOMAIN history
      BY <2>1, <2>3, <2>4
    <3> QED BY <3>1, <3>2 DEF HistoryInv
  <2> QED BY <2>5, <2>6 DEF DatedInv
<1> QED BY <1>2, <1>3 DEF Next, Tick, Author, Merge, Measure, vars

\* exclusion.go's effective date: when a revision of METHODOLOGY.md is merged
\* as it is authored, no report, from whatever clone, leaves out an
\* observation that is older than the rule on the main branch.
THEOREM NothingIsExcludedRetroactively ==
  ASSUME DirectCommits
  PROVE  Spec => []NoRetroactiveExclusion
<1>1. Init => HistoryInv /\ DatedInv
  <2> SUFFICES ASSUME Init PROVE HistoryInv /\ DatedInv
    OBVIOUS
  <2>1. HistoryInv
    BY DEF Init, HistoryInv
  <2>2. report.rules = [id \in RuleIDs |-> NoCommit]
    BY DEF Init, NoReport, Build, LoadRules
  <2> QED BY <2>1, <2>2 DEF DatedInv, NoCommit
<1>2. HistoryInv /\ DatedInv /\ [Next]_vars => HistoryInv' /\ DatedInv'
  BY HistoryStep, DatedStep
<1>3. HistoryInv /\ DatedInv => NoRetroactiveExclusion
  <2> SUFFICES ASSUME HistoryInv, DatedInv,
                      NEW o \in Excluded, NEW id \in ExcludedBy(report.rules, o)
               PROVE  \E i \in DOMAIN history :
                        id \in history[i].text /\ history[i].landed <= o.startedAt
    BY DEF NoRetroactiveExclusion
  <2>1. Applies(report.rules, id, o.startedAt)
    BY DEF ExcludedBy
  <2>2. /\ id \in DOMAIN report.rules /\ report.rules[id].committed
        /\ report.rules[id].effectiveAt <= o.startedAt
    BY <2>1 DEF Applies
  <2> QED BY <2>2 DEF DatedInv
<1> QED BY <1>1, <1>2, <1>3, PTL DEF Spec

-----------------------------------------------------------------------------
(* The observations.                                                       *)

\* The members of a finite set, one after the other.
LEMMA SetToSeqProperties ==
  ASSUME NEW S, IsFiniteSet(S)
  PROVE  /\ Cardinality(S) \in Nat
         /\ SetToSeq(S) \in [1..Cardinality(S) -> S]
<1>1. Cardinality(S) \in Nat /\ ExistsBijection(1..Cardinality(S), S)
  BY FS_CardinalityType
<1>2. PICK f \in Bijection(1..Cardinality(S), S) : TRUE
  BY <1>1 DEF ExistsBijection
<1>3. f \in [1..Cardinality(S) -> S] /\ IsInjective(f)
  BY <1>2 DEF Bijection, Injection
<1> QED BY <1>1, <1>3 DEF SetToSeq

\* A run has finitely many observations.
LEMMA ObservationsOfAreFinite ==
  ASSUME NEW r \in RunRecords
  PROVE  /\ IsFiniteSet(ObservationsOf(r))
         /\ \A o \in ObservationsOf(r) : o.runID = r.runID /\ o.machine = r.machine /\ o.value \in Nat
<1> DEFINE Of(n) == {Observation(r, n, j, m) : j \in DOMAIN r.reps[n].stages, m \in Metrics}
           Each == {Of(n) : n \in DOMAIN r.reps}
<1>1. /\ r.reps \in Seq(RepRecords)
      /\ \A n \in DOMAIN r.reps : r.reps[n].stages \in Seq(StageRecords)
  <2>1. r.reps \in Seq(RepRecords)
    BY DEF RunRecords
  <2>2. \A x \in RepRecords : x.stages \in Seq(StageRecords)
    BY DEF RepRecords
  <2> QED BY <2>1, <2>2
<1>2. ObservationsOf(r) = UNION Each
  BY DEF ObservationsOf
<1>3. ASSUME NEW n \in DOMAIN r.reps PROVE IsFiniteSet(Of(n))
  <2> DEFINE D == DOMAIN r.reps[n].stages
             f == [p \in D \X Metrics |-> Observation(r, n, p[1], p[2])]
  <2>1. D = 1..Len(r.reps[n].stages) /\ Len(r.reps[n].stages) \in Int /\ 1 \in Int
    BY <1>1
  <2>2. IsFiniteSet(D)
    BY <2>1, FS_Interval
  <2>3. IsFiniteSet(Metrics)
    BY FS_EmptySet, FS_AddElement, Metrics = ({} \cup {"wall"}) \cup {"rss"} DEF Metrics
  <2> HIDE DEF D
  <2>4. IsFiniteSet(D \X Metrics)
    BY <2>2, <2>3, FS_Product
  <2>5. f \in Surjection(D \X Metrics, Of(n))
    <3>1. \A p \in D \X Metrics : f[p] \in Of(n)
      BY DEF D
    <3>2. \A o \in Of(n) : \E p \in D \X Metrics : f[p] = o
      <4> TAKE o \in Of(n)
      <4>1. PICK j \in D, m \in Metrics : o = Observation(r, n, j, m)
        BY DEF D
      <4>2. <<j, m>> \in D \X Metrics /\ f[<<j, m>>] = o
        BY <4>1
      <4> QED BY <4>2
    <3> HIDE DEF Of
    <3> QED BY <3>1, <3>2 DEF Surjection
  <2> HIDE DEF f, Of
  <2> QED BY <2>4, <2>5, FS_Surjection
<1>4. IsFiniteSet(Each)
  <2> DEFINE D == DOMAIN r.reps
             f == [n \in D |-> Of(n)]
  <2>1. D = 1..Len(r.reps) /\ Len(r.reps) \in Int /\ 1 \in Int
    BY <1>1
  <2>2. IsFiniteSet(D)
    BY <2>1, FS_Interval
  <2>3. f \in Surjection(D, Each)
    <3> HIDE DEF Of
    <3> QED BY DEF Surjection
  <2> HIDE DEF f, D, Each
  <2> QED BY <2>2, <2>3, FS_Surjection
<1>5. \A T \in Each : IsFiniteSet(T)
  <2> HIDE DEF Of
  <2> QED BY <1>3
<1>6. ASSUME NEW n \in DOMAIN r.reps, NEW j \in DOMAIN r.reps[n].stages, NEW m \in Metrics
      PROVE  LET o == Observation(r, n, j, m)
             IN  o.runID = r.runID /\ o.machine = r.machine /\ o.value \in Nat
  <2>1. r.reps[n].stages[j] \in StageRecords
    BY <1>1
  <2>2. r.reps[n].stages[j][m] \in Nat
    BY <2>1 DEF StageRecords, Metrics
  <2> QED BY <2>2 DEF Observation
<1>7. \A o \in UNION Each : o.runID = r.runID /\ o.machine = r.machine /\ o.value \in Nat
  BY <1>6
<1>8. IsFiniteSet(UNION Each)
  <2> HIDE DEF Each
  <2> QED BY <1>4, <1>5, FS_UNION
<1> QED BY <1>2, <1>7, <1>8

\* So has a finite set of runs, each of one of them.
LEMMA ObservationsAreFinite ==
  ASSUME NEW runs, runs \subseteq RunRecords, IsFiniteSet(runs)
  PROVE  /\ IsFiniteSet(Observations(runs))
         /\ \A o \in Observations(runs) :
              /\ o.value \in Positive
              /\ \E r \in runs : o.runID = r.runID /\ o.machine = r.machine
<1> DEFINE wet == {r \in runs : ~r.dryRun}
           Each == {ObservationsOf(r) : r \in wet}
           f == [r \in wet |-> ObservationsOf(r)]
<1>1. IsFiniteSet(wet)
  BY FS_Subset
<1>2. f \in Surjection(wet, Each)
  BY DEF Surjection
<1>3. IsFiniteSet(Each)
  <2> HIDE DEF f, wet, Each
  <2> QED BY <1>1, <1>2, FS_Surjection
<1>4. \A T \in Each : IsFiniteSet(T)
  BY ObservationsOfAreFinite
<1>5. IsFiniteSet(UNION Each)
  <2> HIDE DEF Each
  <2> QED BY <1>3, <1>4, FS_UNION
<1>6. Observations(runs) = {o \in UNION Each : o.value > 0}
  BY DEF Observations
<1>7. IsFiniteSet(Observations(runs))
  <2> HIDE DEF Each
  <2>1. Observations(runs) \in SUBSET UNION Each
    BY <1>6
  <2> QED BY <1>5, <2>1, FS_Subset
<1>8. ASSUME NEW o \in Observations(runs)
      PROVE  o.value \in Positive /\ \E r \in runs : o.runID = r.runID /\ o.machine = r.machine
  <2>1. PICK r \in wet : o \in ObservationsOf(r)
    BY <1>6
  <2>2. r \in RunRecords /\ o.value > 0
    BY <1>6
  <2>3. o.runID = r.runID /\ o.machine = r.machine /\ o.value \in Nat
    BY <2>1, <2>2, ObservationsOfAreFinite
  <2> QED BY <2>1, <2>2, <2>3 DEF Positive
<1> QED BY <1>7, <1>8

-----------------------------------------------------------------------------
(* The statistics of a set.                                                *)

\* A finite set of positive observations has positive quantiles.
LEMMA StatsOfValues ==
  ASSUME NEW S, IsFiniteSet(S), S # {}, \A o \in S : o.value \in Positive
  PROVE  LET stats == StatsOf(S, LAMBDA o : o.value)
         IN  /\ stats.n = Cardinality(S)
             /\ stats.p25 \in Positive /\ stats.median \in Positive /\ stats.p75 \in Positive
<1> DEFINE order == SetToSeq(S)
           xs == [i \in DOMAIN order |-> order[i].value]
<1>1. Cardinality(S) \in Nat /\ order \in [1..Cardinality(S) -> S] /\ Cardinality(S) # 0
  BY SetToSeqProperties, FS_EmptySet
<1> HIDE DEF order
<1>2. xs \in Seq(Positive) /\ Len(xs) = Cardinality(S) /\ xs # <<>>
  BY <1>1
<1>3. StatsOf(S, LAMBDA o : o.value) = Compute(xs)
  BY DEF StatsOf, order
<1> HIDE DEF xs
<1> QED BY <1>2, <1>3, ComputeOfPositive

\* So has a finite set of figures with positive medians.
LEMMA StatsOfMedians ==
  ASSUME NEW S, IsFiniteSet(S), S # {}, \A f \in S : f.stats.median \in Positive
  PROVE  LET stats == StatsOf(S, LAMBDA f : f.stats.median)
         IN  /\ stats.n = Cardinality(S)
             /\ stats.p25 \in Positive /\ stats.median \in Positive /\ stats.p75 \in Positive
<1> DEFINE order == SetToSeq(S)
           xs == [i \in DOMAIN order |-> order[i].stats.median]
<1>1. Cardinality(S) \in Nat /\ order \in [1..Cardinality(S) -> S] /\ Cardinality(S) # 0
  BY SetToSeqProperties, FS_EmptySet
<1> HIDE DEF order
<1>2. xs \in Seq(Positive) /\ Len(xs) = Cardinality(S) /\ xs # <<>>
  BY <1>1
<1>3. StatsOf(S, LAMBDA f : f.stats.median) = Compute(xs)
  BY DEF StatsOf, order
<1> HIDE DEF xs
<1> QED BY <1>2, <1>3, ComputeOfPositive

-----------------------------------------------------------------------------
(* The report.                                                             *)

\* Every result in the tree is of its type and has a number of its own.
TreeInv ==
  /\ now \in Nat
  /\ IsFiniteSet(tree) /\ tree \subseteq RunRecords
  /\ \A r \in tree : r.runID <= Cardinality(tree)
  /\ \A r1, r2 \in tree : r1.runID = r2.runID => r1 = r2

Within == WithinRun(report.runs, report.rules)

\* A report is what Build makes of results that are still in the tree.
ReportInv ==
  /\ report.runs \subseteq tree
  /\ report.figures = Within \cup BetweenRun(Within)
  /\ report.refused = [id \in RuleIDs |->
       Cardinality({o \in Observations(report.runs) : id \in RefusedFor(report.rules, o)})]

\* A new run's file is of its type.
LEMMA MeasuredType ==
  ASSUME NEW r \in RunRecords, NEW id \in Nat, NEW start \in Nat, NEW end \in Nat
  PROVE  [r EXCEPT !.runID = id, !.startedAt = start,
                   !.reps = Begun(@, start, end)] \in RunRecords
<1> DEFINE reps == Begun(r.reps, start, end)
<1>1. r.reps \in Seq(RepRecords)
  BY DEF RunRecords
<1>2. ASSUME NEW n \in DOMAIN r.reps
      PROVE  reps[n] \in RepRecords
  <2>1. r.reps[n] \in RepRecords
    BY <1>1
  <2>2. reps[n] = [r.reps[n] EXCEPT !.startedAt = IF n = 1 THEN start ELSE end]
    BY DEF Begun
  <2> QED BY <2>1, <2>2 DEF RepRecords
<1>3. reps \in Seq(RepRecords)
  <2>1. DOMAIN reps = 1..Len(r.reps) /\ Len(r.reps) \in Nat /\ reps = [n \in DOMAIN reps |-> reps[n]]
    BY <1>1 DEF Begun
  <2> HIDE DEF reps
  <2>2. reps \in [1..Len(r.reps) -> RepRecords]
    BY <1>1, <1>2, <2>1
  <2> QED BY <2>1, <2>2
<1> HIDE DEF reps
<1>4. [r EXCEPT !.runID = id, !.startedAt = start, !.reps = reps] \in RunRecords
  BY <1>3 DEF RunRecords
<1> QED BY <1>4 DEF reps

LEMMA TreeStep ==
  ASSUME TreeInv, [Next]_vars
  PROVE  TreeInv' /\ tree \subseteq tree'
<1>1. CASE tree' = tree
  <2>1. now' = now + 1 \/ now' = now
    BY DEF Next, Tick, Author, Merge, Measure, Summarize, vars
  <2> QED BY <1>1, <2>1 DEF TreeInv
<1>2. ASSUME NEW m \in Measurements, NEW start \in 0..now, Measure(m, start)
      PROVE  TreeInv' /\ tree \subseteq tree'
  <2> DEFINE n == Cardinality(tree)
             r == [m EXCEPT !.runID = n + 1, !.startedAt = start,
                            !.reps = Begun(@, start, now)]
  <2>1. n \in Nat /\ n + 1 \in Nat /\ start \in Nat /\ now \in Nat
    BY FS_CardinalityType DEF TreeInv
  <2>2. m \in RunRecords
    BY ResultsAssumption
  <2>3. r \in RunRecords
    BY <2>1, <2>2, MeasuredType
  <2>4. r.runID = n + 1
    BY <2>2 DEF RunRecords
  <2>5. tree' = tree \cup {r} /\ now' = now
    BY <1>2 DEF Measure
  <2> HIDE DEF r
  <2>6. \A q \in tree : q.runID \in Nat /\ q.runID <= n
    BY DEF TreeInv, RunRecords
  <2>7. r \notin tree
    BY <2>1, <2>4, <2>6
  <2>8. IsFiniteSet(tree') /\ Cardinality(tree') = n + 1
    BY <2>5, <2>7, FS_AddElement DEF TreeInv
  <2> HIDE DEF n
  <2>9. \A q \in tree' : q.runID <= n + 1
    BY <2>1, <2>4, <2>5, <2>6
  <2>10. \A r1, r2 \in tree' : r1.runID = r2.runID => r1 = r2
    <3> SUFFICES ASSUME NEW r1 \in tree', NEW r2 \in tree', r1.runID = r2.runID PROVE r1 = r2
      OBVIOUS
    <3>1. CASE r1 \in tree /\ r2 \in tree
      BY <3>1 DEF TreeInv
    <3>2. CASE r1 = r \/ r2 = r
      BY <2>1, <2>4, <2>5, <2>6, <3>2
    <3> QED BY <2>5, <3>1, <3>2
  <2> QED BY <2>1, <2>3, <2>5, <2>8, <2>9, <2>10 DEF TreeInv
<1> QED BY <1>1, <1>2 DEF Next, Tick, Author, Merge, Summarize, vars

LEMMA ReportStep ==
  ASSUME TreeInv, ReportInv, [Next]_vars
  PROVE  ReportInv'
<1>1. tree \subseteq tree'
  BY TreeStep
<1>2. CASE report' = report
  BY <1>1, <1>2 DEF ReportInv, Within
<1>3. ASSUME NEW depth \in Min({1, Len(history)})..Len(history), Summarize(depth)
      PROVE  ReportInv'
  <2> DEFINE h == SubSeq(history, Len(history) - depth + 1, Len(history))
  <2>1. report' = Build(tree, h) /\ tree' = tree
    BY <1>3 DEF Summarize
  <2> HIDE DEF h
  <2>2. /\ report'.runs = tree /\ report'.rules = LoadRules(h)
        /\ report'.figures = WithinRun(tree, LoadRules(h)) \cup BetweenRun(WithinRun(tree, LoadRules(h)))
        /\ report'.refused = [id \in RuleIDs |->
             Cardinality({o \in Observations(tree) : id \in RefusedFor(LoadRules(h), o)})]
    BY <2>1 DEF Build
  <2> QED BY <2>1, <2>2 DEF ReportInv, Within
<1> QED BY <1>2, <1>3 DEF Next, Tick, Author, Merge, Measure, vars

LEMMA ReportCorrect == Spec => [](TreeInv /\ ReportInv)
<1>1. Init => TreeInv /\ ReportInv
  <2> SUFFICES ASSUME Init PROVE TreeInv /\ ReportInv
    OBVIOUS
  <2>1. TreeInv
    BY FS_EmptySet DEF Init, TreeInv
  <2>2. ReportInv
    BY DEF Init, ReportInv, NoReport, Build, Within
  <2> QED BY <2>1, <2>2
<1>2. TreeInv /\ ReportInv /\ [Next]_vars => (TreeInv /\ ReportInv)'
  BY TreeStep, ReportStep
<1> QED BY <1>1, <1>2, PTL DEF Spec

-----------------------------------------------------------------------------
(* The figures within runs.                                                *)

Bucket(key) == {o \in Reported : WithinKey(o) = key}
KeptOf(S) == {o \in S : ExcludedBy(report.rules, o) = {}}
Keys == {WithinKey(o) : o \in Reported}

\* The observations of a report are finitely many positive numbers.
LEMMA ReportedAreFinite ==
  ASSUME TreeInv, ReportInv
  PROVE  /\ IsFiniteSet(Reported)
         /\ \A o \in Reported :
              /\ o.value \in Positive
              /\ \E r \in tree : o.runID = r.runID /\ o.machine = r.machine
<1>1. report.runs \subseteq RunRecords /\ IsFiniteSet(report.runs)
  BY FS_Subset DEF TreeInv, ReportInv
<1>2. /\ IsFiniteSet(Observations(report.runs))
      /\ \A o \in Observations(report.runs) :
           /\ o.value \in Positive
           /\ \E r \in report.runs : o.runID = r.runID /\ o.machine = r.machine
  BY <1>1, ObservationsAreFinite
<1> QED BY <1>2 DEF Reported, ReportInv

\* There is one figure for every configuration, stage and metric of a run.
LEMMA WithinFigures ==
  /\ Within = {WithinFigure(k, Bucket(k), report.rules) : k \in Keys}
  /\ \A k : LET f == WithinFigure(k, Bucket(k), report.rules)
            IN  f.scope = "within-run" /\ f.key = k
BY DEF Within, WithinRun, Bucket, Keys, Reported, WithinFigure

\* The between-run figures are of the other scope.
LEMMA BetweenFigures ==
  LET published == {f \in Within : f.hasStats} IN
  /\ BetweenRun(Within) =
       {BetweenFigure(k, {f \in published : BetweenKey(f) = k}) :
          k \in {BetweenKey(f) : f \in published}}
  /\ \A k, fs : BetweenFigure(k, fs).scope = "between-run" /\ BetweenFigure(k, fs).key = k
BY DEF BetweenRun, BetweenFigure, BetweenFigureWhen

\* So the scope tells them apart.
LEMMA Scopes ==
  ASSUME ReportInv
  PROVE  /\ Within = {f \in report.figures : f.scope = "within-run"}
         /\ BetweenRun(Within) = {f \in report.figures : f.scope = "between-run"}
<1>1. \A f \in Within : f.scope = "within-run"
  BY WithinFigures
<1>2. \A f \in BetweenRun(Within) : f.scope = "between-run"
  <2> TAKE f \in BetweenRun(Within)
  <2>1. PICK k, fs : f = BetweenFigure(k, fs)
    BY DEF BetweenRun
  <2> QED BY <2>1, BetweenFigures
<1> QED BY <1>1, <1>2 DEF ReportInv

\* SUMMARY.md shows every figure, as a row or listed under its reason.
LEMMA FiguresAreShown ==
  ASSUME ReportInv
  PROVE  LET within == Markdown(report).within
         IN  /\ within.rows = {f \in Within : f.hasStats}
             /\ UNION ListedAs(within) = {f \in Within : ~f.hasStats}
<1> DEFINE without == {f \in Within : ~f.hasStats}
           Listed(reason) == {f \in without : <<f.flags, f.counts>> = reason}
           reasons == {<<f.flags, f.counts>> : f \in without}
           within == Markdown(report).within
<1>1. within = WriteFigures(report, "within-run")
  BY DEF Markdown
<1>2. /\ within.rows = Within \ without
      /\ within.noFigure = [reason \in reasons |-> Listed(reason)]
  BY <1>1, Scopes DEF WriteFigures
<1>3. ListedAs(within) = {Listed(reason) : reason \in reasons}
  <2> HIDE DEF within, reasons, Listed
  <2> QED BY <1>2 DEF ListedAs
<1>4. UNION {Listed(reason) : reason \in reasons} = without
  <2>1. \A f \in without : f \in Listed(<<f.flags, f.counts>>) /\ <<f.flags, f.counts>> \in reasons
    OBVIOUS
  <2>2. \A reason : Listed(reason) \subseteq without
    OBVIOUS
  <2> HIDE DEF Listed, reasons, without
  <2> QED BY <2>1, <2>2
<1> QED BY <1>2, <1>3, <1>4

\* What a figure is made of.
LEMMA WithinFigureFields ==
  ASSUME TreeInv, ReportInv, NEW k \in Keys
  PROVE  LET bucket == Bucket(k)
             kept   == KeptOf(bucket)
             f      == WithinFigure(k, bucket, report.rules)
         IN  /\ IsFiniteSet(bucket) /\ IsFiniteSet(kept)
             /\ f.counts = Counts(kept, bucket, report.rules)
             /\ f.machines = {k.machine}
             /\ f.flags = WithinFlags(f.hasStats, f.stats, f.counts, bucket, report.rules)
             /\ f.hasStats =>
                  /\ kept # {}
                  /\ f.stats.n = Cardinality(kept)
                  /\ f.stats.p25 \in Positive /\ f.stats.median \in Positive
                  /\ f.stats.p75 \in Positive
<1> DEFINE bucket == Bucket(k)
           kept == KeptOf(bucket)
           f == WithinFigure(k, bucket, report.rules)
<1>1. /\ IsFiniteSet(bucket) /\ IsFiniteSet(kept)
      /\ \A o \in kept : o.value \in Positive
  <2>1. bucket \in SUBSET Reported /\ kept \in SUBSET Reported
    BY DEF Bucket, KeptOf
  <2> QED BY <2>1, ReportedAreFinite, FS_Subset
<1>2. /\ f.counts = Counts(kept, bucket, report.rules)
      /\ f.machines = {k.machine}
      /\ f.hasStats => kept # {} /\ f.stats = StatsOf(kept, LAMBDA o : o.value)
  BY DEF WithinFigure, KeptOf
<1>3. f.flags = WithinFlags(f.hasStats, f.stats, f.counts, bucket, report.rules)
  BY DEF WithinFigure
<1> HIDE DEF bucket, kept, f
<1>4. f.hasStats =>
        /\ f.stats.n = Cardinality(kept)
        /\ f.stats.p25 \in Positive /\ f.stats.median \in Positive /\ f.stats.p75 \in Positive
  BY <1>1, <1>2, StatsOfValues
<1> QED BY <1>1, <1>2, <1>3, <1>4 DEF bucket, kept, f

\* Validate never finds an error in a figure.
LEMMA WithinIsAccepted ==
  ASSUME TreeInv, ReportInv, NEW f \in Within
  PROVE  ~Rejected(f) /\ (f.hasStats => f.stats.median \in Positive)
<1>1. PICK k \in Keys : f = WithinFigure(k, Bucket(k), report.rules)
  BY WithinFigures
<1>2. CASE f.hasStats
  <2>1. f.stats.p25 \in Positive /\ f.stats.median \in Positive /\ f.stats.p75 \in Positive
    BY <1>1, <1>2, WithinFigureFields
  <2>2. f.stats.noisy => "unstable" \in f.flags
    <3>1. f.flags = WithinFlags(f.hasStats, f.stats, f.counts, Bucket(k), report.rules)
      BY <1>1, WithinFigureFields
    <3> QED BY <1>2, <3>1 DEF WithinFlags
  <2> QED BY <1>2, <2>1, <2>2 DEF Rejected, Positive
<1>3. CASE ~f.hasStats
  <2>1. f.flags = WithinFlags(f.hasStats, f.stats, f.counts, Bucket(k), report.rules)
    BY <1>1, WithinFigureFields
  <2>2. "insufficient-n" \in f.flags
    BY <1>3, <2>1 DEF WithinFlags
  <2> QED BY <1>3, <2>2 DEF Rejected
<1> QED BY <1>2, <1>3

-----------------------------------------------------------------------------
(* What became of the observations.                                        *)

\* An observation that stays in although a rule is about it was refused.
LEMMA KeptIsRefused ==
  ASSUME NEW o \in Kept, NEW id \in RuleIDs, IF id = "EX-1" THEN o.warmup ELSE Failed(o)
  PROVE  o \in Reported /\ id \in RefusedFor(report.rules, o)
<1>1. o \in Reported /\ ExcludedBy(report.rules, o) = {}
  BY DEF Kept, Excluded
<1>2. ~Applies(report.rules, id, o.startedAt)
  BY <1>1 DEF ExcludedBy, RuleIDs
<1> QED BY <1>1, <1>2 DEF RefusedFor

\* applyRule: for every table, clone and tree, whatever stays in although a
\* rule is about it is counted against that rule and flagged on its figure.
THEOREM RefusalsAreRecorded == Spec => []RefusalIsRecorded
<1>1. TreeInv /\ ReportInv => RefusalIsRecorded
  <2> SUFFICES ASSUME TreeInv, ReportInv, NEW id \in RuleIDs
               PROVE  LET about  == {o \in Kept : IF id = "EX-1" THEN o.warmup ELSE Failed(o)}
                          within == Markdown(report).within
                      IN  /\ about # {} => report.refused[id] >= Cardinality(about)
                          /\ \A o \in about : \E f \in within.rows \cup UNION ListedAs(within) :
                               f.key = WithinKey(o) /\ id \in f.flags
    BY DEF RefusalIsRecorded
  <2> DEFINE about == {o \in Kept : IF id = "EX-1" THEN o.warmup ELSE Failed(o)}
             refused == {o \in Reported : id \in RefusedFor(report.rules, o)}
             within == Markdown(report).within
  <2>1. about \subseteq refused
    BY KeptIsRefused
  <2>2. report.refused[id] >= Cardinality(about)
    <3>1. IsFiniteSet(refused)
      BY ReportedAreFinite, FS_Subset
    <3>2. report.refused[id] = Cardinality(refused)
      BY DEF ReportInv, Reported
    <3> HIDE DEF refused, about
    <3>3. Cardinality(about) <= Cardinality(refused) /\ IsFiniteSet(about)
      BY <2>1, <3>1, FS_Subset
    <3>4. Cardinality(about) \in Nat /\ Cardinality(refused) \in Nat
      BY <3>1, <3>3, FS_CardinalityType
    <3> QED BY <3>2, <3>3, <3>4
  <2>3. within.rows \cup UNION ListedAs(within) = Within
    BY FiguresAreShown
  <2>4. ASSUME NEW o \in about
        PROVE  \E f \in Within : f.key = WithinKey(o) /\ id \in f.flags
    <3> DEFINE k == WithinKey(o)
               f == WithinFigure(k, Bucket(k), report.rules)
    <3>1. o \in Reported /\ id \in RefusedFor(report.rules, o)
      BY KeptIsRefused
    <3>2. k \in Keys /\ o \in Bucket(k)
      BY <3>1 DEF Keys, Bucket
    <3>3. f \in Within /\ f.key = k
      BY <3>2, WithinFigures
    <3>4. f.flags = WithinFlags(f.hasStats, f.stats, f.counts, Bucket(k), report.rules)
      BY <3>2, WithinFigureFields
    <3> HIDE DEF k, f
    <3>5. id \in f.flags
      BY <3>1, <3>2, <3>4 DEF WithinFlags
    <3> QED BY <3>3, <3>5 DEF k
  <2> HIDE DEF about, within
  <2> QED BY <2>2, <2>3, <2>4 DEF about, within
<1> QED BY <1>1, ReportCorrect, PTL

\* writeFigures: whatever was excluded, kept and listed, every value a run
\* recorded is in a row's n, among its failed repetitions or a warm-up that
\* EX-1 set aside, or its figure is absent and the attempts are counted.
THEOREM MeasurementsAreNotLost == Spec => []MeasurementsAreAccounted
<1>1. TreeInv /\ ReportInv => MeasurementsAreAccounted
  <2> SUFFICES ASSUME TreeInv, ReportInv, NEW k \in Keys
               PROVE  LET within   == Markdown(report).within
                          recorded == {o \in Reported : WithinKey(o) = k}
                          setAside == {o \in recorded : ExcludedBy(report.rules, o) = {"EX-1"}}
                      IN  \/ \E f \in UNION ListedAs(within) :
                               f.key = k /\ f.counts.attempts =
                                              Cardinality({o \in recorded : ~o.warmup})
                          \/ \E f \in within.rows :
                               /\ f.key = k
                               /\ f.stats.n + f.counts.failed + Cardinality(setAside)
                                    = Cardinality(recorded)
    BY DEF MeasurementsAreAccounted, Keys
  <2> DEFINE bucket == Bucket(k)
             kept == KeptOf(bucket)
             f == WithinFigure(k, bucket, report.rules)
             measured == {o \in bucket : ~o.warmup}
             aside == {o \in bucket : ExcludedBy(report.rules, o) = {"EX-1"}}
             lost == {o \in bucket : ExcludedBy(report.rules, o) = {"EX-2"}}
  <2>1. /\ IsFiniteSet(bucket) /\ IsFiniteSet(kept)
        /\ f.counts = Counts(kept, bucket, report.rules)
        /\ f.hasStats => f.stats.n = Cardinality(kept)
    BY WithinFigureFields
  <2>2. f \in Within /\ f.key = k
    BY WithinFigures
  <2>3. bucket = {o \in Reported : WithinKey(o) = k}
    BY DEF Bucket
  <2>4. f.counts.attempts = Cardinality(measured) /\ f.counts.failed = Cardinality(lost)
    BY <2>1 DEF Counts
  <2>5. bucket = (kept \cup lost) \cup aside
    BY DEF KeptOf, ExcludedBy
  <2>6. kept \cap lost = {} /\ (kept \cup lost) \cap aside = {}
    BY DEF KeptOf
  <2>7. lost \subseteq bucket /\ aside \subseteq bucket
    OBVIOUS
  <2> HIDE DEF bucket, kept, f, measured, aside, lost
  <2>8. Cardinality(bucket) = Cardinality(kept) + Cardinality(lost) + Cardinality(aside)
    <3>1. IsFiniteSet(lost) /\ IsFiniteSet(aside)
      BY <2>1, <2>7, FS_Subset
    <3>2. /\ IsFiniteSet(kept \cup lost)
          /\ Cardinality(kept \cup lost) =
               Cardinality(kept) + Cardinality(lost) - Cardinality(kept \cap lost)
      BY <2>1, <3>1, FS_Union
    <3>3. Cardinality((kept \cup lost) \cup aside) =
            Cardinality(kept \cup lost) + Cardinality(aside)
              - Cardinality((kept \cup lost) \cap aside)
      BY <3>1, <3>2, FS_Union
    <3>4. Cardinality({}) = 0
      BY FS_EmptySet
    <3>5. /\ Cardinality(kept) \in Nat /\ Cardinality(lost) \in Nat
          /\ Cardinality(aside) \in Nat /\ Cardinality(kept \cup lost) \in Nat
      BY <2>1, <3>1, <3>2, FS_CardinalityType
    <3>6. Cardinality(kept \cap lost) = 0 /\ Cardinality((kept \cup lost) \cap aside) = 0
      BY <2>6, <3>4
    <3>7. Cardinality((kept \cup lost) \cup aside) = Cardinality(bucket)
      BY <2>5
    <3> QED BY <3>2, <3>3, <3>5, <3>6, <3>7
  <2>9. CASE f.hasStats
    <3>1. f \in Markdown(report).within.rows
      BY <2>2, <2>9, FiguresAreShown
    <3>2. f.stats.n + f.counts.failed + Cardinality(aside) = Cardinality(bucket)
      BY <2>1, <2>4, <2>8, <2>9
    <3> QED BY <2>2, <2>3, <3>1, <3>2 DEF aside
  <2>10. CASE ~f.hasStats
    <3>1. f \in UNION ListedAs(Markdown(report).within)
      BY <2>2, <2>10, FiguresAreShown
    <3> QED BY <2>2, <2>3, <2>4, <3>1 DEF measured
  <2> QED BY <2>9, <2>10
<1> QED BY <1>1, ReportCorrect, PTL

-----------------------------------------------------------------------------
(* The figures between runs.                                               *)

Published == {f \in Within : f.hasStats}
Group(key) == {f \in Published : BetweenKey(f) = key}

\* There are finitely many figures within runs, one for each key.
LEMMA WithinIsFinite ==
  ASSUME TreeInv, ReportInv
  PROVE  IsFiniteSet(Within)
<1> DEFINE figure == [o \in Reported |->
                       WithinFigure(WithinKey(o), Bucket(WithinKey(o)), report.rules)]
<1>1. \A o \in Reported : figure[o] \in Within
  BY WithinFigures DEF Keys
<1>2. ASSUME NEW f \in Within PROVE \E o \in Reported : figure[o] = f
  <2>1. PICK k \in Keys : f = WithinFigure(k, Bucket(k), report.rules)
    BY WithinFigures
  <2>2. PICK o \in Reported : k = WithinKey(o)
    BY DEF Keys
  <2>3. figure[o] = f
    BY <2>1, <2>2
  <2> QED BY <2>3
<1>3. figure \in Surjection(Reported, Within)
  <2>1. figure \in [Reported -> Within]
    BY <1>1
  <2> HIDE DEF figure
  <2> QED BY <1>2, <2>1 DEF Surjection
<1> HIDE DEF figure
<1> QED BY <1>3, ReportedAreFinite, FS_Surjection

\* Two figures of one run in a group are the same: a run has one machine.
LEMMA OneFigurePerRun ==
  ASSUME TreeInv, ReportInv, NEW key, NEW f \in Group(key), NEW g \in Group(key),
         f.key.runID = g.key.runID
  PROVE  f = g
<1>1. f \in Within /\ g \in Within /\ BetweenKey(f) = key /\ BetweenKey(g) = key
  BY DEF Group, Published
<1>2. PICK k \in Keys : f = WithinFigure(k, Bucket(k), report.rules) /\ f.key = k
  BY <1>1, WithinFigures
<1>3. PICK l \in Keys : g = WithinFigure(l, Bucket(l), report.rules) /\ g.key = l
  BY <1>1, WithinFigures
<1>4. PICK o \in Reported : k = WithinKey(o)
  BY DEF Keys
<1>5. PICK p \in Reported : l = WithinKey(p)
  BY DEF Keys
<1>6. o.runID = p.runID
  BY <1>2, <1>3, <1>4, <1>5 DEF WithinKey
<1>7. o.machine = p.machine
  BY <1>6, ReportedAreFinite DEF TreeInv
<1>8. /\ o.track = p.track /\ o.version = p.version /\ o.config = p.config
      /\ o.stage = p.stage /\ o.metric = p.metric
  <2>1. BetweenKey(f) = BetweenKey(g)
    BY <1>1
  <2> QED BY <1>2, <1>3, <1>4, <1>5, <2>1 DEF BetweenKey, WithinKey
<1>9. k = l
  BY <1>4, <1>5, <1>6, <1>7, <1>8 DEF WithinKey
<1> QED BY <1>2, <1>3, <1>9

\* What a figure between runs is made of.
LEMMA BetweenFigureFields ==
  ASSUME TreeInv, ReportInv, NEW f \in BetweenRun(Within)
  PROVE  LET group == Group(f.key)
         IN  /\ IsFiniteSet(group)
             /\ f.hasStats = (f.stats.n >= 2) /\ f.stats.n = Cardinality(group)
             /\ f.stats.p25 \in Positive /\ f.stats.median \in Positive
             /\ f.stats.p75 \in Positive
             /\ f.machines = {g.key.machine : g \in group}
             /\ f.flags = IF ~f.hasStats THEN {"insufficient-n"}
                          ELSE IF f.stats.noisy THEN {"unstable"} ELSE {}
<1>1. PICK key \in {BetweenKey(g) : g \in Published} : f = BetweenFigure(key, Group(key))
  BY DEF BetweenRun, Published, Group
<1> DEFINE group == Group(key)
           stats == StatsOf(group, LAMBDA g : g.stats.median)
<1>2. group # {} /\ group \in SUBSET Within /\ \A g \in group : g.hasStats
  BY <1>1 DEF Group, Published
<1>3. IsFiniteSet(group)
  BY <1>2, WithinIsFinite, FS_Subset
<1>4. \A g \in group : g.stats.median \in Positive
  BY <1>2, WithinIsAccepted
<1>5. /\ f.key = key /\ f.stats = stats /\ f.hasStats = (stats.n >= 2)
      /\ f.machines = {g.key.machine : g \in group}
      /\ f.flags = IF ~(stats.n >= 2) THEN {"insufficient-n"}
                   ELSE IF stats.noisy THEN {"unstable"} ELSE {}
  BY <1>1 DEF BetweenFigure, BetweenFigureWhen
<1> HIDE DEF group
<1>6. /\ stats.n = Cardinality(group)
      /\ stats.p25 \in Positive /\ stats.median \in Positive /\ stats.p75 \in Positive
  BY <1>2, <1>3, <1>4, StatsOfMedians
<1> HIDE DEF stats
<1> QED BY <1>3, <1>5, <1>6 DEF group

\* Validate, against Build: whatever was measured, excluded and refused, the
\* report that summarize builds is one that it accepts.
THEOREM ReportsAreAccepted == Spec => []ReportIsAccepted
<1>1. TreeInv /\ ReportInv => ReportIsAccepted
  <2> SUFFICES ASSUME TreeInv, ReportInv, NEW f \in report.figures PROVE ~Rejected(f)
    BY DEF ReportIsAccepted
  <2>1. CASE f \in Within
    BY <2>1, WithinIsAccepted
  <2>2. CASE f \in BetweenRun(Within)
    <3>1. /\ f.stats.p25 \in Positive /\ f.stats.median \in Positive /\ f.stats.p75 \in Positive
          /\ f.flags = IF ~f.hasStats THEN {"insufficient-n"}
                       ELSE IF f.stats.noisy THEN {"unstable"} ELSE {}
      BY <2>2, BetweenFigureFields
    <3> QED BY <3>1 DEF Rejected, Positive
  <2> QED BY <2>1, <2>2 DEF ReportInv
<1> QED BY <1>1, ReportCorrect, PTL

\* buildBetweenRun: a between-run statistic rests on one median of each run
\* that published the figure, on two runs at least, and on no more machines
\* than runs.
THEOREM SpreadsAreAcrossRuns == Spec => []SpreadIsAcrossRuns
<1>1. TreeInv /\ ReportInv => SpreadIsAcrossRuns
  <2> SUFFICES ASSUME TreeInv, ReportInv, NEW f \in report.figures,
                      f.scope = "between-run", f.hasStats
               PROVE  LET runs == {g.key.runID : g \in {h \in report.figures :
                            h.scope = "within-run" /\ h.hasStats /\ BetweenKey(h) = f.key}}
                      IN  /\ f.stats.n = Cardinality(runs)
                          /\ f.stats.n >= 2
                          /\ Cardinality(f.machines) <= f.stats.n
    BY DEF SpreadIsAcrossRuns
  <2> DEFINE group == Group(f.key)
             runs == {g.key.runID : g \in group}
             machines == {g.key.machine : g \in group}
             runOf == [g \in group |-> g.key.runID]
             machineOf == [g \in group |-> g.key.machine]
  <2>1. f \in BetweenRun(Within)
    BY Scopes
  <2>2. {h \in report.figures : h.scope = "within-run" /\ h.hasStats /\ BetweenKey(h) = f.key}
          = group
    BY Scopes DEF Group, Published
  <2>3. /\ IsFiniteSet(group) /\ f.stats.n = Cardinality(group) /\ f.stats.n >= 2
        /\ f.machines = machines
    BY <2>1, BetweenFigureFields
  <2>4. runOf \in Surjection(group, runs)
    BY DEF Surjection
  <2>5. runOf \in Injection(group, runs)
    <3>1. \A g, h \in group : runOf[g] = runOf[h] => g = h
      BY OneFigurePerRun
    <3>2. runOf \in [group -> runs] /\ DOMAIN runOf = group
      OBVIOUS
    <3> HIDE DEF runOf, runs, group
    <3> QED BY <3>1, <3>2 DEF Injection, IsInjective
  <2>6. machineOf \in Surjection(group, machines)
    BY DEF Surjection
  <2> HIDE DEF group, runs, machines, runOf, machineOf
  <2>7. Cardinality(runs) = Cardinality(group)
    BY <2>3, <2>4, <2>5, FS_Surjection
  <2>8. Cardinality(machines) <= Cardinality(group)
    BY <2>3, <2>6, FS_Surjection
  <2> QED BY <2>2, <2>3, <2>7, <2>8 DEF runs
<1> QED BY <1>1, ReportCorrect, PTL
=============================================================================
