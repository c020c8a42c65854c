---------------------------- MODULE PureFunctions ----------------------------
(***************************************************************************)
(* The program's pure functions: one behaviour per input, which is a       *)
(* matrix file, a set of workflow files next to a good matrix, or a        *)
(* sequence of observations.  Compute is compared with definitions that    *)
(* neither sort nor subtract a mean.                                       *)
(***************************************************************************)
EXTENDS Lint, Stats, SequencesExt

CONSTANTS Files,        \* the matrix files
          GoodFile,     \* one that is valid
          Directories,  \* the sets of workflow files, by name
          Values,       \* the observations
          MaxLength     \* a bound on their number

\* GitHub starts a workflow that names its events in one of the three forms.
HasTriggers(wf) ==
  /\ wf.form \in {"scalar", "sequence", "mapping"}
  /\ wf.events \in Seq(STRING)
  /\ wf.form = "scalar" => Len(wf.events) = 1

\* metricValue lets positive observations only through.
ASSUME InputAssumption ==
  /\ Files \subseteq MatrixFiles
  /\ GoodFile \in MatrixFiles
  /\ \A dir \in Directories : \A name \in DOMAIN dir : HasTriggers(dir[name])
  /\ Values \subseteq Nat \ {0}
  /\ MaxLength \in Nat

VARIABLES file,       \* the matrix file
          driven,     \* what Execute is given; <<>> before the load or when rejected
          workflows,  \* the workflow files, by name
          clean,      \* did knobench lint find nothing?
          xs,         \* the observations, in the order they were recorded
          stats       \* Compute's result, <<>> before it is called

vars == <<file, driven, workflows, clean, xs, stats>>

InitWith(m, dir, values) ==
  /\ file = m /\ workflows = dir /\ xs = values
  /\ driven = <<>> /\ clean = FALSE /\ stats = <<>>

NoFiles == [name \in {} |-> NoNode]

Init ==
  \/ \E m \in Files : InitWith(m, NoFiles, <<>>)
  \/ \E dir \in Directories : InitWith(GoodFile, dir, <<>>)
  \/ \E values \in BoundedSeq(Values, MaxLength) : InitWith(GoodFile, NoFiles, values)

LoadMatrix ==
  /\ driven = <<>> /\ stats = <<>> /\ xs = <<>>
  /\ Valid(file)
  /\ driven' = Active(file)
  /\ UNCHANGED <<file, workflows, clean, xs, stats>>

RunLint ==
  /\ ~clean /\ DOMAIN workflows # {}
  /\ LintFindings(file, workflows) = {}
  /\ clean' = TRUE
  /\ UNCHANGED <<file, driven, workflows, xs, stats>>

ComputeThem ==
  /\ stats = <<>> /\ xs # <<>>
  /\ stats' = Compute(xs)
  /\ UNCHANGED <<file, driven, workflows, clean, xs>>

Next == LoadMatrix \/ RunLint \/ ComputeThem
Spec == Init /\ [][Next]_vars

-----------------------------------------------------------------------------
\* LoadMatrix checks at load time everything the command builder would refuse
\* at spend time: a matrix that loads meets what the runner assumes of its
\* configurations, no stage of it is refused for its name, and none that names
\* a paid agent lacks a ceiling. LintMatrix's second loop never finds anything.
LoadedConfigsAreDriven ==
  driven # <<>> =>
    /\ driven \in Seq(ConfigType)
    /\ \A i \in DOMAIN driven :
         /\ driven[i].stages # <<>>
         /\ driven[i].agent # FakeAgent => driven[i].maxCostUSD > 0 /\ driven[i].maxCalls > 0
    /\ LintMatrix(file) = {}

\* The field comment on WarmupsSet: a number of warm-ups that the file gives,
\* zero included, is the number the runner runs, whatever the default.
ExplicitWarmupsAreRun ==
  \A i \in DOMAIN driven : \A j \in DOMAIN file.configurations :
    LET r == file.configurations[j]
    IN  driven[i].id = r.id /\ r.warmups # <<>> /\ r.warmups[1] >= 0 =>
          driven[i].warmups = r.warmups[1]

\* A job asks for a label by a scalar or in a list.
HasLabel(n, label) ==
  \/ n = Scalar(label)
  \/ n.kind = "sequence" /\ \E i \in DOMAIN n.content : n.content[i] = Scalar(label)

\* The comment on lintCmd, "the rules that must not depend on anybody reading
\* a document": in a repository that lints clean, no event that can carry a
\* fork's code starts a job on the self-hosted label, in whichever of its three
\* forms the author wrote it and wherever in the list it stands, and a job that
\* sees a provider's secret, its own or the workflow's, has an environment.
\* Labels in a mapping are those lint does not read.
CleanWorkflowsAreGated ==
  clean => \A name \in DOMAIN workflows :
    LET wf == workflows[name] IN
    \A j \in DOMAIN wf.jobs :
      /\ HasLabel(wf.jobs[j].runsOn, "self-hosted") =>
           \A i \in DOMAIN wf.events : wf.events[i] \notin ForkTriggers
      /\ {j, "workflow"} \cap wf.secrets # {} => wf.jobs[j].environment # NoNode

-----------------------------------------------------------------------------
AtMost(x) == Cardinality({i \in DOMAIN xs : xs[i] <= x})
Below(x)  == Cardinality({i \in DOMAIN xs : xs[i] < x})

\* The observation of rank i, counted from 0: found by counting.
OfRank(i) == CHOOSE x \in Values : Below(x) <= i /\ i < AtMost(x)

\* Type 7 (METHODOLOGY.md): p is at position q(n-1) between the ranks 0 and
\* n-1, in proportion to the distance from the neighbouring ranks.
IsType7(k, p) ==
  LET above == k * (Len(xs) - 1) IN
  \E i \in 0..Len(xs) - 1 :
    \/ 4 * i = above /\ p = 4 * OfRank(i)
    \/ /\ 4 * i < above /\ above < 4 * (i + 1)
       /\ p = (4 * (i + 1) - above) * OfRank(i) + (above - 4 * i) * OfRank(i + 1)

\* The published quartiles are the type 7 quantiles that METHODOLOGY.md names,
\* whatever the order in which the observations were recorded.
QuartilesAreType7 ==
  stats # <<>> => /\ IsType7(1, stats.p25)
                  /\ IsType7(2, stats.median)
                  /\ IsType7(3, stats.p75)

\* The sum of the squared differences of all pairs is n times the sum of the
\* squared deviations from the mean.
SquaredDifferences ==
  SumOf([i \in DOMAIN xs |->
    SumOf([j \in 1..i - 1 |-> (xs[i] - xs[j]) * (xs[i] - xs[j])])])

\* A figure is flagged unstable exactly when the sample standard deviation,
\* with denominator n - 1, exceeds 5% of the mean.
UnstableIsFivePercent ==
  stats # <<>> =>
    stats.noisy =
      (400 * Len(xs) * SquaredDifferences > (Len(xs) - 1) * SumOf(xs) * SumOf(xs))
=============================================================================
