---------------------------- MODULE FunctionsProofs ----------------------------
(***************************************************************************)
(* Proofs about the pure functions, for every matrix file, every set of    *)
(* workflow files and every sequence of observations.                      *)
(***************************************************************************)
EXTENDS PureFunctions, StatsProofs

-----------------------------------------------------------------------------
(* The matrix loader.                                                      *)

\* A configuration once its defaults are filled in.
ResolvedConfigs == [id : STRING, agent : Agents, stages : Seq(STRING), repetitions : Int,
                    warmups : Nat, size : Int, deferred : BOOLEAN, reason : BOOLEAN,
                    maxCostUSD : Int, maxCalls : Int]

LEMMA ResolveType ==
  ASSUME NEW m \in MatrixFiles, NEW r \in RawConfigs
  PROVE  /\ Resolve(m, r) \in ResolvedConfigs
         /\ Resolve(m, r).id = r.id
         /\ Resolve(m, r).warmups = Warmups(m, r)
<1>1. Warmups(m, r) \in Nat
  <2>1. r.warmups # <<>> => r.warmups[1] \in Int
    BY DEF RawConfigs
  <2>2. m.defaults.warmups \in Int
    BY DEF MatrixFiles
  <2> QED BY <2>1, <2>2 DEF Warmups, AtLeast0
<1>2. Or(Or(r.agent, Unset, m.defaults.agent), Unset, FakeAgent) \in Agents
  BY DEF Or, Agents, RawConfigs, MatrixFiles
<1>3. /\ Or(r.repetitions, 0, m.defaults.repetitions) \in Int
      /\ Or(r.size, 0, m.baseSize) \in Int
  BY DEF Or, RawConfigs, MatrixFiles
<1> QED BY <1>1, <1>2, <1>3 DEF Resolve, ResolvedConfigs, RawConfigs

LEMMA ResolvedType ==
  ASSUME NEW m \in MatrixFiles
  PROVE  /\ Resolved(m) \in Seq(ResolvedConfigs)
         /\ DOMAIN Resolved(m) = DOMAIN m.configurations
         /\ \A j \in DOMAIN m.configurations :
              /\ Resolved(m)[j].id = m.configurations[j].id
              /\ Resolved(m)[j].warmups = Warmups(m, m.configurations[j])
<1>1. m.configurations \in Seq(RawConfigs)
  BY DEF MatrixFiles
<1>2. \A j \in DOMAIN m.configurations : m.configurations[j] \in RawConfigs
  BY <1>1
<1>3. \A j \in DOMAIN m.configurations :
        /\ Resolve(m, m.configurations[j]) \in ResolvedConfigs
        /\ Resolve(m, m.configurations[j]).id = m.configurations[j].id
        /\ Resolve(m, m.configurations[j]).warmups = Warmups(m, m.configurations[j])
  BY <1>2, ResolveType
<1>4. DOMAIN m.configurations = 1..Len(m.configurations) /\ Len(m.configurations) \in Nat
  BY <1>1
<1>5. Resolved(m) \in Seq(ResolvedConfigs)
  BY <1>3, <1>4 DEF Resolved
<1> QED BY <1>3, <1>5 DEF Resolved

\* What Active may put in its result.
Drivable(m) == {Driven(Resolved(m)[j]) : j \in {i \in DOMAIN Resolved(m) : ~Resolved(m)[i].deferred}}

\* Active's loop: out after each number of configurations.
Outs(m) ==
  CHOOSE f : f = [n \in 0..Len(Resolved(m)) |->
                    IF n = 0 THEN <<>>
                    ELSE IF Resolved(m)[n].deferred THEN f[n - 1]
                    ELSE Append(f[n - 1], Driven(Resolved(m)[n]))]

\* Active is given configurations that are not deferred, and nothing else.
LEMMA ActiveType ==
  ASSUME NEW m \in MatrixFiles
  PROVE  Active(m) \in Seq(Drivable(m))
<1> DEFINE rs == Resolved(m)
           L == Len(rs)
           Q == Seq(Drivable(m))
           Step(out, n) == IF rs[n].deferred THEN out ELSE Append(out, Driven(rs[n]))
           Built(n, f) == /\ f \in [0..n -> Q] /\ f[0] = <<>>
                         /\ \A k \in 1..n : f[k] = Step(f[k - 1], k)
           S == {n \in Nat : \E f : Built(n, f)}
<1>1. L \in Nat /\ DOMAIN rs = 1..L
  BY ResolvedType
<1>2. \A q \in Q, n \in 1..L : Step(q, n) \in Q
  <2> SUFFICES ASSUME NEW q \in Q, NEW n \in 1..L PROVE Step(q, n) \in Q
    OBVIOUS
  <2>1. ~rs[n].deferred => Driven(rs[n]) \in Drivable(m)
    BY <1>1 DEF Drivable
  <2> QED BY <2>1
<1>3. <<>> \in Q
  OBVIOUS
<1>4. Outs(m) = CHOOSE f : f = [n \in 0..L |-> IF n = 0 THEN <<>> ELSE Step(f[n - 1], n)]
  BY DEF Outs
<1>5. Active(m) = Outs(m)[L]
  BY DEF Active, Outs
<1> HIDE DEF L, Q, Step
<1>6. 0 \in S
  <2>1. Built(0, [k \in 0..0 |-> <<>>])
    BY <1>3
  <2> QED BY <2>1
<1>7. ASSUME NEW n \in 0..L, n \in S, n < L PROVE n + 1 \in S
  <2>1. PICK f : Built(n, f)
    BY <1>7
  <2> DEFINE g == [k \in 0..n+1 |-> IF k = n + 1 THEN Step(f[n], n + 1) ELSE f[k]]
  <2>2. Step(f[n], n + 1) \in Q
    BY <1>1, <1>2, <1>7, <2>1
  <2>3. g \in [0..n+1 -> Q] /\ g[0] = <<>>
    BY <1>1, <1>7, <2>1, <2>2
  <2>4. \A k \in 1..n+1 : g[k] = Step(g[k - 1], k)
    BY <1>1, <1>7, <2>1
  <2>5. Built(n + 1, g)
    BY <2>3, <2>4
  <2>6. n + 1 \in Nat
    OBVIOUS
  <2> HIDE DEF Built, g
  <2> QED BY <2>5, <2>6
<1>8. L \in S
  <2>1. \A n \in 0..L : n \in S /\ n < L => n + 1 \in S
    BY <1>7
  <2> HIDE DEF S
  <2>2. \A n \in 0..L : n \in S
    BY <1>1, <1>6, <2>1, Induction
  <2> QED BY <1>1, <2>2
<1>9. PICK f : Built(L, f)
  BY <1>8
<1>10. f = [n \in 0..L |-> IF n = 0 THEN <<>> ELSE Step(f[n - 1], n)]
  BY <1>1, <1>9
<1>11. Outs(m) = [n \in 0..L |-> IF n = 0 THEN <<>> ELSE Step(Outs(m)[n - 1], n)]
  BY <1>4, <1>10
<1>12. \A n \in 0..L : n \in {k \in Nat : Outs(m)[k] \in Q}
  <2> DEFINE I == {k \in Nat : Outs(m)[k] \in Q}
  <2>1. 0 \in I
    BY <1>1, <1>3, <1>11
  <2>2. ASSUME NEW n \in 0..L, n \in I, n < L PROVE n + 1 \in I
    <3>1. n + 1 \in 0..L /\ n + 1 \in 1..L /\ n + 1 # 0 /\ (n + 1) - 1 = n
      BY <1>1, <2>2
    <3>2. Outs(m)[n + 1] = Step(Outs(m)[n], n + 1)
      BY <1>11, <3>1
    <3> QED BY <1>2, <2>2, <3>1, <3>2
  <2> HIDE DEF I
  <2>3. \A n \in 0..L : n \in I
    BY <1>1, <2>1, <2>2, Induction
  <2> QED BY <2>3 DEF I
<1> QED BY <1>1, <1>5, <1>12 DEF Q

\* Of a valid file, every configuration driven is one of the file's.
LEMMA ActiveConfigs ==
  ASSUME NEW m \in MatrixFiles, Valid(m), NEW i \in DOMAIN Active(m)
  PROVE  /\ Active(m)[i] \in ConfigType
         /\ Active(m)[i].stages # <<>>
         /\ \A s \in DOMAIN Active(m)[i].stages : Active(m)[i].stages[s] \in KnownStages
         /\ Active(m)[i].agent # FakeAgent =>
              Active(m)[i].maxCostUSD > 0 /\ Active(m)[i].maxCalls > 0
         /\ \E j \in DOMAIN m.configurations :
              /\ Active(m)[i].id = m.configurations[j].id
              /\ Active(m)[i].warmups = Warmups(m, m.configurations[j])
<1>1. Active(m)[i] \in Drivable(m)
  <2>1. Active(m) \in Seq(Drivable(m))
    BY ActiveType
  <2> QED BY <2>1
<1>2. PICK j \in DOMAIN Resolved(m) :
        ~Resolved(m)[j].deferred /\ Active(m)[i] = Driven(Resolved(m)[j])
  BY <1>1 DEF Drivable
<1> DEFINE c == Resolved(m)[j]
<1>3. c \in ResolvedConfigs
  BY ResolvedType
<1>4. Described(c) /\ Runnable(c)
  BY <1>2 DEF Valid
<1>5. /\ c.id = m.configurations[j].id
      /\ c.warmups = Warmups(m, m.configurations[j])
      /\ j \in DOMAIN m.configurations
  BY ResolvedType
<1> HIDE DEF c
<1>6. Driven(c) \in ConfigType
  BY <1>3, <1>4 DEF Driven, ConfigType, ResolvedConfigs, Runnable
<1>7. c.agent # FakeAgent => c.maxCostUSD > 0 /\ c.maxCalls > 0
  BY <1>3, <1>4 DEF Runnable, LacksACeiling, ResolvedConfigs
<1>8. Active(m)[i] = Driven(c)
  BY <1>2 DEF c
<1> QED BY <1>4, <1>5, <1>6, <1>7, <1>8 DEF Driven, Described

\* LintMatrix's second loop never finds anything.
LEMMA LintMatrixOfValid ==
  ASSUME NEW m \in MatrixFiles, Valid(m)
  PROVE  LintMatrix(m) = {}
<1> DEFINE allIDs == [s \in DOMAIN NoIDs |-> <<s>>]
<1>1. \A i \in DOMAIN Active(m) : \A s \in DOMAIN Active(m)[i].stages :
        ~BuildFails(Active(m)[i].stages[s], Active(m)[i], allIDs)
  <2> SUFFICES ASSUME NEW i \in DOMAIN Active(m), NEW s \in DOMAIN Active(m)[i].stages
               PROVE  ~BuildFails(Active(m)[i].stages[s], Active(m)[i], allIDs)
    OBVIOUS
  <2> DEFINE c == Active(m)[i]
             stage == c.stages[s]
  <2>1. stage \in KnownStages /\ ~LacksCeiling(c)
    <3>1. c \in ConfigType /\ (c.agent # FakeAgent => c.maxCostUSD > 0 /\ c.maxCalls > 0)
      BY ActiveConfigs
    <3>2. stage \in KnownStages
      BY ActiveConfigs
    <3> HIDE DEF c
    <3> QED BY <3>1, <3>2 DEF LacksCeiling, ConfigType
  <2> HIDE DEF c, stage
  <2>2. stage \in DOMAIN Needs => allIDs[Needs[stage]] # NoID
    BY DEF Needs, NoIDs, NoID
  <2>3. ~BuildFails(stage, c, allIDs)
    BY <2>1, <2>2 DEF BuildFails
  <2> QED BY <2>3 DEF stage, c
<1> QED BY <1>1 DEF LintMatrix

-----------------------------------------------------------------------------
(* The behaviours: what was computed is what the function of it gives.     *)

InputInv  ==
  /\ file \in MatrixFiles /\ xs \in Seq(Values)
  /\ \A name \in DOMAIN workflows : HasTriggers(workflows[name])
OutputInv ==
  /\ driven = <<>> \/ (Valid(file) /\ driven = Active(file))
  /\ clean => LintFindings(file, workflows) = {}
  /\ stats = <<>> \/ (xs # <<>> /\ stats = Compute(xs))

LEMMA Computed == Spec => [](InputInv /\ OutputInv)
<1>1. Init => InputInv /\ OutputInv
  <2> SUFFICES ASSUME Init PROVE InputInv /\ OutputInv
    OBVIOUS
  <2>1. OutputInv
    BY DEF Init, InitWith, OutputInv
  <2>2. file \in MatrixFiles
    BY InputAssumption DEF Init, InitWith
  <2>3. xs \in Seq(Values)
    <3>1. <<>> \in Seq(Values)
      OBVIOUS
    <3>2. \A values \in BoundedSeq(Values, MaxLength) : values \in Seq(Values)
      BY InputAssumption DEF BoundedSeq, SeqOf
    <3> QED BY <3>1, <3>2 DEF Init, InitWith
  <2>4. \A name \in DOMAIN workflows : HasTriggers(workflows[name])
    BY InputAssumption DEF Init, InitWith, NoFiles
  <2> QED BY <2>1, <2>2, <2>3, <2>4 DEF InputInv
<1>2. InputInv /\ OutputInv /\ [Next]_vars => (InputInv /\ OutputInv)'
  <2> SUFFICES ASSUME InputInv, OutputInv, [Next]_vars PROVE (InputInv /\ OutputInv)'
    OBVIOUS
  <2> USE DEF InputInv, OutputInv
  <2>1. CASE LoadMatrix
    BY <2>1 DEF LoadMatrix
  <2>2. CASE RunLint
    BY <2>2 DEF RunLint
  <2>3. CASE ComputeThem
    BY <2>3 DEF ComputeThem
  <2>4. CASE UNCHANGED vars
    BY <2>4 DEF vars
  <2> QED BY <2>1, <2>2, <2>3, <2>4 DEF Next
<1> QED BY <1>1, <1>2, PTL DEF Spec

\* A matrix file that loads is one the runner can be given, whatever is in it:
\* its configurations are those RunnerAssumption speaks of (MaxCharge being any
\* bound of their ceilings), and no stage is refused for its name or ceilings.
THEOREM LoadedMatricesAreDriven == Spec => []LoadedConfigsAreDriven
<1>1. InputInv /\ OutputInv => LoadedConfigsAreDriven
  <2> SUFFICES ASSUME InputInv, OutputInv, driven # <<>>
               PROVE  /\ driven \in Seq(ConfigType)
                      /\ \A i \in DOMAIN driven :
                           /\ driven[i].stages # <<>>
                           /\ driven[i].agent # FakeAgent =>
                                driven[i].maxCostUSD > 0 /\ driven[i].maxCalls > 0
                      /\ LintMatrix(file) = {}
    BY DEF LoadedConfigsAreDriven
  <2>1. file \in MatrixFiles /\ Valid(file) /\ driven = Active(file)
    BY DEF InputInv, OutputInv
  <2>2. \A i \in DOMAIN driven : driven[i] \in ConfigType
    BY <2>1, ActiveConfigs
  <2>3. driven \in Seq(ConfigType)
    <3>1. driven \in Seq(Drivable(file))
      BY <2>1, ActiveType
    <3> QED BY <2>2, <3>1
  <2> QED BY <2>1, <2>3, ActiveConfigs, LintMatrixOfValid
<1> QED BY <1>1, Computed, PTL

\* The number of warm-ups a file gives a configuration is the number it runs.
THEOREM GivenWarmupsAreRun == Spec => []ExplicitWarmupsAreRun
<1>1. InputInv /\ OutputInv => ExplicitWarmupsAreRun
  <2> SUFFICES ASSUME InputInv, OutputInv,
                      NEW i \in DOMAIN driven, NEW j \in DOMAIN file.configurations,
                      driven[i].id = file.configurations[j].id,
                      file.configurations[j].warmups # <<>>,
                      file.configurations[j].warmups[1] >= 0
               PROVE  driven[i].warmups = file.configurations[j].warmups[1]
    BY DEF ExplicitWarmupsAreRun
  <2> DEFINE r == file.configurations[j]
  <2>1. file \in MatrixFiles /\ Valid(file) /\ driven = Active(file)
    BY DEF InputInv, OutputInv
  <2>2. PICK k \in DOMAIN file.configurations :
          /\ driven[i].id = file.configurations[k].id
          /\ driven[i].warmups = Warmups(file, file.configurations[k])
    BY <2>1, ActiveConfigs
  <2>3. k = j
    <3>1. /\ \A a, b \in DOMAIN Resolved(file) : Resolved(file)[a].id = Resolved(file)[b].id => a = b
      BY <2>1 DEF Valid
    <3> QED BY <2>1, <2>2, <3>1, ResolvedType
  <2>4. r.warmups[1] \in Int
    <3>1. file.configurations \in Seq(RawConfigs)
      BY <2>1 DEF MatrixFiles
    <3>2. r \in RawConfigs
      BY <3>1
    <3> HIDE DEF r
    <3>3. r.warmups \in Seq(Int) /\ Len(r.warmups) <= 1
      BY <3>2 DEF RawConfigs
    <3>4. r.warmups # <<>>
      BY DEF r
    <3> QED BY <3>3, <3>4
  <2>5. Warmups(file, r) = r.warmups[1]
    BY <2>4 DEF Warmups, AtLeast0
  <2> QED BY <2>2, <2>3, <2>5
<1> QED BY <1>1, Computed, PTL

\* triggerNames reads of a node exactly the events that were written in it,
\* whatever the form and the filter.
LEMMA TriggersAreRead ==
  ASSUME NEW form \in {"scalar", "sequence", "mapping"}, NEW events \in Seq(STRING),
         form = "scalar" => Len(events) = 1, NEW filter
  PROVE  TriggerNames(Written(form, events, filter)) = {events[i] : i \in DOMAIN events}
<1> DEFINE n == Written(form, events, filter)
<1>0. Len(events) \in Nat /\ DOMAIN events = 1..Len(events)
  OBVIOUS
<1>1. CASE form = "scalar"
  <2>1. n = Scalar(events[1])
    BY <1>1 DEF Written
  <2>2. TriggerNames(n) = {events[1]}
    BY <2>1 DEF TriggerNames, Scalar, Node
  <2> QED BY <1>0, <1>1, <2>2
<1>2. CASE form = "sequence"
  <2>1. n = Node("sequence", "", [i \in 1..Len(events) |-> Scalar(events[i])])
    BY <1>2 DEF Written
  <2> HIDE DEF n
  <2>2. n.kind = "sequence" /\ n.content = [i \in 1..Len(events) |-> Scalar(events[i])]
    BY <2>1 DEF Node
  <2>3. TriggerNames(n) = {n.content[i].value : i \in DOMAIN n.content}
    BY <2>2 DEF TriggerNames
  <2>4. \A i \in 1..Len(events) : n.content[i].value = events[i]
    BY <2>2 DEF Scalar, Node
  <2>5. DOMAIN n.content = 1..Len(events)
    BY <2>2
  <2>6. {n.content[i].value : i \in 1..Len(events)} = {events[i] : i \in 1..Len(events)}
    BY <2>4
  <2> QED BY <1>0, <2>3, <2>5, <2>6 DEF n
<1>3. CASE form = "mapping"
  <2> DEFINE pairs == [i \in 1..2 * Len(events) |->
                         IF i % 2 = 1 THEN Scalar(events[(i + 1) \div 2]) ELSE filter]
             keys  == {k \in DOMAIN n.content : k % 2 = 1}
  <2>1. n = Node("mapping", "", pairs)
    BY <1>3 DEF Written
  <2> HIDE DEF n
  <2>2. n.kind = "mapping" /\ n.content = pairs
    BY <2>1 DEF Node
  <2>3. TriggerNames(n) = {n.content[i].value : i \in keys}
    BY <2>2 DEF TriggerNames
  <2>4. \A k \in keys : (k + 1) \div 2 \in DOMAIN events /\ n.content[k].value = events[(k + 1) \div 2]
    <3> SUFFICES ASSUME NEW k \in 1..2 * Len(events), k % 2 = 1
                 PROVE  /\ (k + 1) \div 2 \in 1..Len(events)
                        /\ pairs[k].value = events[(k + 1) \div 2]
      BY <1>0, <2>2
    <3>1. (k + 1) \div 2 \in 1..Len(events)
      BY <1>0
    <3>2. pairs[k] = Scalar(events[(k + 1) \div 2])
      OBVIOUS
    <3> QED BY <3>1, <3>2 DEF Scalar, Node
  <2>5. \A i \in DOMAIN events : \E k \in keys : (k + 1) \div 2 = i
    <3> SUFFICES ASSUME NEW i \in 1..Len(events)
                 PROVE  \E k \in keys : (k + 1) \div 2 = i
      BY <1>0
    <3>1. 2 * i - 1 \in 1..2 * Len(events) /\ (2 * i - 1) % 2 = 1
      BY <1>0
    <3>2. ((2 * i - 1) + 1) \div 2 = i
      BY <1>0
    <3>3. 2 * i - 1 \in keys
      BY <2>2, <3>1
    <3> QED BY <3>2, <3>3
  <2> HIDE DEF keys
  <2>6. {n.content[k].value : k \in keys} \subseteq {events[i] : i \in DOMAIN events}
    BY <2>4
  <2>7. {events[i] : i \in DOMAIN events} \subseteq {n.content[k].value : k \in keys}
    BY <2>4, <2>5
  <2> QED BY <2>3, <2>6, <2>7 DEF n
<1> QED BY <1>1, <1>2, <1>3

\* What lint lets through, whatever the files of the directory.
THEOREM LintGatesWorkflows == Spec => []CleanWorkflowsAreGated
<1>1. InputInv /\ OutputInv => CleanWorkflowsAreGated
  <2> SUFFICES ASSUME LintFindings(file, workflows) = {},
                      NEW name \in DOMAIN workflows, HasTriggers(workflows[name]),
                      NEW j \in DOMAIN workflows[name].jobs
               PROVE  LET wf == workflows[name]
                      IN  /\ HasLabel(wf.jobs[j].runsOn, "self-hosted") =>
                               \A i \in DOMAIN wf.events : wf.events[i] \notin ForkTriggers
                          /\ {j, "workflow"} \cap wf.secrets # {} =>
                               wf.jobs[j].environment # NoNode
    BY DEF InputInv, OutputInv, CleanWorkflowsAreGated
  <2> DEFINE wf == workflows[name]
             labels == wf.jobs[j].runsOn
             triggers == TriggerNames(Written(wf.form, wf.events, wf.filter))
  <2>1. LintWorkflow(wf) = {}
    <3>1. \A f \in LintWorkflow(wf) : <<name, f>> \in LintFindings(file, workflows)
      BY DEF LintFindings
    <3> QED BY <3>1
  <2>2. wf.parses
    <3>1. ~wf.parses => <<"parse">> \in LintWorkflow(wf)
      BY DEF LintWorkflow
    <3> QED BY <2>1, <3>1
  <2>3. ~(ScalarList(labels) \cap SelfHosted # {} /\ triggers \cap ForkTriggers # {})
    <3>1. ScalarList(labels) \cap SelfHosted # {} /\ triggers \cap ForkTriggers # {}
            => <<"self-hosted", j>> \in LintWorkflow(wf)
      BY <2>2 DEF LintWorkflow
    <3> QED BY <2>1, <3>1
  <2>4. ~(wf.secrets # {} /\ wf.jobs[j].environment = NoNode)
    <3>1. wf.secrets # {} /\ wf.jobs[j].environment = NoNode
            => <<"environment", j>> \in LintWorkflow(wf)
      BY <2>2 DEF LintWorkflow
    <3> QED BY <2>1, <3>1
  <2>5. HasLabel(labels, "self-hosted") => ScalarList(labels) \cap SelfHosted # {}
    <3>1. CASE labels = Scalar("self-hosted")
      <4>1. ScalarList(labels) = {"self-hosted"}
        BY <3>1 DEF ScalarList, Scalar, Node
      <4> QED BY <4>1 DEF SelfHosted
    <3>2. ASSUME labels.kind = "sequence",
                 NEW i \in DOMAIN labels.content, labels.content[i] = Scalar("self-hosted")
          PROVE  ScalarList(labels) \cap SelfHosted # {}
      <4>1. ScalarList(labels) = {labels.content[k].value : k \in DOMAIN labels.content}
        BY <3>2 DEF ScalarList
      <4>2. labels.content[i].value = "self-hosted"
        BY <3>2 DEF Scalar, Node
      <4> QED BY <4>1, <4>2 DEF SelfHosted
    <3> QED BY <3>1, <3>2 DEF HasLabel
  <2>6. triggers = {wf.events[i] : i \in DOMAIN wf.events}
    BY TriggersAreRead DEF HasTriggers
  <2> HIDE DEF triggers
  <2> QED BY <2>3, <2>4, <2>5, <2>6
<1> QED BY <1>1, Computed, PTL

-----------------------------------------------------------------------------
(* The quartiles.                                                          *)

LEMMA ObservationsType ==
  ASSUME xs \in Seq(Values)
  PROVE  /\ xs \in Seq(Positive) /\ xs \in Seq(Int)
         /\ Len(xs) \in Nat /\ DOMAIN xs = 1..Len(xs)
         /\ \A i \in DOMAIN xs : xs[i] \in Values /\ xs[i] \in Int
<1>1. Values \subseteq Int /\ Values \subseteq Positive
  BY InputAssumption DEF Positive
<1>2. DOMAIN xs = 1..Len(xs) /\ Len(xs) \in Nat /\ \A i \in DOMAIN xs : xs[i] \in Values
  OBVIOUS
<1>3. \A i \in DOMAIN xs : xs[i] \in Positive /\ xs[i] \in Int
  BY <1>1, <1>2
<1>4. xs = [i \in 1..Len(xs) |-> xs[i]]
  BY <1>2
<1>5. xs \in Seq(Positive) /\ xs \in Seq(Int)
  BY <1>2, <1>3, <1>4
<1> QED BY <1>2, <1>3, <1>5

\* Counting what is at most, and what is below, a number.
LEMMA CountsType ==
  ASSUME xs \in Seq(Values), NEW T \in SUBSET DOMAIN xs, NEW U, U \subseteq T
  PROVE  /\ IsFiniteSet(T) /\ Cardinality(T) \in Nat
         /\ IsFiniteSet(U) /\ Cardinality(U) \in Nat
         /\ Cardinality(U) <= Cardinality(T)
<1>1. IsFiniteSet(DOMAIN xs)
  BY ObservationsType, FS_Interval, 1 \in Int, Len(xs) \in Int
<1>2. IsFiniteSet(T)
  BY <1>1, FS_Subset
<1>3. IsFiniteSet(U) /\ Cardinality(U) <= Cardinality(T)
  BY <1>2, FS_Subset
<1> QED BY <1>2, <1>3, FS_CardinalityType

\* The number that counting finds at a rank is the one sorting puts there.
LEMMA OfRankIsSorted ==
  ASSUME xs \in Seq(Values), NEW i \in 0..Len(xs) - 1
  PROVE  OfRank(i) = Sorted(xs)[i + 1]
<1> DEFINE a == At(xs)[i + 1]
           x == xs[a]
           IsOfRank(y) == y \in Values /\ Below(y) <= i /\ i < AtMost(y)
<1>1. i + 1 \in 1..Len(xs) /\ i \in Nat
  BY ObservationsType
<1>2. a \in DOMAIN xs /\ Rank(xs, a) = i + 1 /\ Sorted(xs)[i + 1] = x
  BY <1>1, ObservationsType, RankIsOnto, SortedProperties
<1>3. x \in Values /\ x \in Int
  BY <1>2, ObservationsType
<1> HIDE DEF a, x
<1>4. Upto(xs, a) \in SUBSET DOMAIN xs /\ a \in Upto(xs, a) /\ Cardinality(Upto(xs, a)) = i + 1
  <2>1. DOMAIN xs \subseteq Int
    BY ObservationsType
  <2> QED BY <1>2, <2>1 DEF Upto, Rank
<1>5. i < AtMost(x)
  <2> DEFINE T == {j \in DOMAIN xs : xs[j] <= x}
  <2>1. Upto(xs, a) \subseteq T
    BY <1>2, <1>3, ObservationsType DEF Upto, x
  <2>2. Cardinality(T) \in Nat /\ i + 1 <= Cardinality(T)
    BY <1>4, <2>1, CountsType
  <2> QED BY <1>1, <2>2 DEF AtMost
<1>6. Below(x) <= i
  <2> DEFINE U == {j \in DOMAIN xs : xs[j] < x}
             T == Upto(xs, a) \ {a}
  <2>1. U \subseteq T /\ T \in SUBSET DOMAIN xs
    BY <1>2, <1>3, <1>4, ObservationsType DEF Upto, x
  <2>2. IsFiniteSet(Upto(xs, a))
    BY <1>4, CountsType
  <2>3. Cardinality(T) = (i + 1) - 1
    BY <1>4, <2>2, FS_RemoveElement
  <2>4. Cardinality(U) \in Nat /\ Cardinality(U) <= Cardinality(T)
    BY <2>1, CountsType
  <2> QED BY <1>1, <2>3, <2>4 DEF Below
<1>7. ASSUME NEW y \in Values, NEW z \in Values, IsOfRank(y), IsOfRank(z)
      PROVE  ~(y < z)
  <2> SUFFICES ASSUME y < z PROVE FALSE
    OBVIOUS
  <2> DEFINE T == {j \in DOMAIN xs : xs[j] < z}
             U == {j \in DOMAIN xs : xs[j] <= y}
  <2>1. y \in Int /\ z \in Int
    BY InputAssumption
  <2>2. U \subseteq T /\ T \in SUBSET DOMAIN xs
    BY <2>1, ObservationsType
  <2>3. Cardinality(U) \in Nat /\ Cardinality(T) \in Nat /\ Cardinality(U) <= Cardinality(T)
    BY <2>2, CountsType
  <2>4. i < Cardinality(U) /\ Cardinality(T) <= i
    BY <1>7 DEF AtMost, Below
  <2> QED BY <1>1, <2>3, <2>4
<1>8. IsOfRank(x)
  BY <1>3, <1>5, <1>6
<1>9. \A y \in Values : IsOfRank(y) => y = x
  <2> SUFFICES ASSUME NEW y \in Values, IsOfRank(y) PROVE y = x
    OBVIOUS
  <2>1. ~(y < x) /\ ~(x < y)
    BY <1>3, <1>7, <1>8
  <2> QED BY <1>3, <2>1, InputAssumption
<1> QED BY <1>2, <1>8, <1>9 DEF OfRank

\* Interpolation between neighbours of the sorted sequence is type 7.
LEMMA PercentileIsType7 ==
  ASSUME xs \in Seq(Values), xs # <<>>, NEW k \in 1..3
  PROVE  IsType7(k, Percentile(Sorted(xs), k))
<1> DEFINE s == Sorted(xs)
           n == Len(xs)
           above == k * (n - 1)
           lo == Position(k, n).lo
           frac == Position(k, n).frac
<1>1. n \in Nat /\ n >= 1
  BY ObservationsType
<1>2. Len(s) = n /\ \A i \in 1..n : s[i] \in Int
  BY ObservationsType, SortedProperties
<1>3. \A i \in 0..n - 1 : OfRank(i) = s[i + 1]
  BY OfRankIsSorted
<1>4. lo \in 0..n - 1 /\ frac \in 0..3 /\ 4 * lo + frac = above
  <2>1. n \in Positive /\ k \in 0..4
    BY <1>1 DEF Positive
  <2> QED BY <2>1, PositionType
<1>5. above \in Int /\ above <= 3 * (n - 1)
  <2>1. k \in {1, 2, 3}
    OBVIOUS
  <2> QED BY <1>1, <2>1
<1>6. Percentile(s, k) = IF n = 1 THEN 4 * s[1]
                         ELSE IF lo + 1 >= n THEN 4 * s[n]
                         ELSE 4 * s[lo + 1] + frac * (s[lo + 2] - s[lo + 1])
  BY <1>2 DEF Percentile
<1> SUFFICES \E i \in 0..n - 1 :
               \/ 4 * i = above /\ Percentile(s, k) = 4 * s[i + 1]
               \/ /\ 4 * i < above /\ above < 4 * (i + 1)
                  /\ i + 1 \in 0..n - 1
                  /\ Percentile(s, k) = (4 * (i + 1) - above) * s[i + 1]
                                          + (above - 4 * i) * s[(i + 1) + 1]
  BY <1>3 DEF IsType7
<1> HIDE DEF s, n, lo, frac, above
<1>7. CASE n = 1
  <2>1. lo = 0 /\ above = 0
    BY <1>4, <1>5, <1>7
  <2> QED BY <1>6, <1>7, <2>1
<1>8. CASE n # 1
  <2>1. lo + 1 < n
    BY <1>1, <1>4, <1>5, <1>8
  <2>2. Percentile(s, k) = 4 * s[lo + 1] + frac * (s[lo + 2] - s[lo + 1])
    BY <1>4, <1>1, <1>6, <1>8, <2>1
  <2>3. s[lo + 1] \in Int /\ s[lo + 2] \in Int
    BY <1>1, <1>2, <1>4, <2>1
  <2>4. CASE frac = 0
    <3>1. 4 * lo = above /\ Percentile(s, k) = 4 * s[lo + 1]
      BY <1>4, <2>2, <2>3, <2>4
    <3> QED BY <1>4, <3>1
  <2>5. CASE frac # 0
    <3>1. 4 * lo < above /\ above < 4 * (lo + 1) /\ lo + 1 \in 0..n - 1
      BY <1>1, <1>4, <1>5, <2>1, <2>5
    <3>2. (4 * (lo + 1) - above) = 4 - frac /\ above - 4 * lo = frac
      BY <1>4, <1>5
    <3>3. \A p, q \in Int : \A f \in 0..3 : 4 * p + f * (q - p) = (4 - f) * p + f * q
      <4>1. \A p, q \in Int : \A f \in {0, 1, 2, 3} : 4 * p + f * (q - p) = (4 - f) * p + f * q
        OBVIOUS
      <4> QED BY <4>1
    <3>4. (lo + 1) + 1 = lo + 2
      BY <1>4
    <3>5. Percentile(s, k) = (4 * (lo + 1) - above) * s[lo + 1]
                               + (above - 4 * lo) * s[(lo + 1) + 1]
      BY <1>4, <2>2, <2>3, <3>2, <3>3, <3>4
    <3> QED BY <1>4, <3>1, <3>5
  <2> QED BY <2>4, <2>5
<1> QED BY <1>7, <1>8

\* The published quartiles are type 7's, for any observations in any order.
THEOREM QuartilesAreTheQuantiles == Spec => []QuartilesAreType7
<1>1. InputInv /\ OutputInv => QuartilesAreType7
  <2> SUFFICES ASSUME xs \in Seq(Values), xs # <<>>
               PROVE  /\ IsType7(1, Compute(xs).p25)
                      /\ IsType7(2, Compute(xs).median)
                      /\ IsType7(3, Compute(xs).p75)
    BY DEF InputInv, OutputInv, QuartilesAreType7
  <2>1. /\ Compute(xs).p25 = Percentile(Sorted(xs), 1)
        /\ Compute(xs).median = Percentile(Sorted(xs), 2)
        /\ Compute(xs).p75 = Percentile(Sorted(xs), 3)
    BY DEF Compute
  <2>2. \A k \in 1..3 : IsType7(k, Percentile(Sorted(xs), k))
    BY PercentileIsType7
  <2> QED BY <2>1, <2>2
<1> QED BY <1>1, Computed, PTL

-----------------------------------------------------------------------------
(* The coefficient of variation.                                           *)

\* The squared differences of x from the numbers before it.
Row(i) == [j \in 1..i - 1 |-> (xs[i] - xs[j]) * (xs[i] - xs[j])]

LEMMA RowTotal ==
  ASSUME xs \in Seq(Values), NEW i \in 1..Len(xs)
  PROVE  SumOf(Row(i)) = (i - 1) * (xs[i] * xs[i]) - 2 * (xs[i] * Totals(xs)[i - 1])
                           + Totals(Squares(xs))[i - 1]
<1> DEFINE n == Len(xs)
           x == xs[i]
           sq == Squares(xs)
           f == [j \in 0..n |-> j * (x * x) - 2 * (x * Totals(xs)[j]) + Totals(sq)[j]]
<1>1. n \in Nat /\ xs \in Seq(Int) /\ \A j \in 1..n : xs[j] \in Int
  BY ObservationsType
<1>2. /\ sq \in Seq(Int) /\ Len(sq) = n
      /\ \A j \in 1..n : sq[j] = xs[j] * xs[j]
  BY <1>1, ObservationsType DEF Squares
<1>3. /\ \A j \in 0..n : Totals(xs)[j] \in Int
      /\ Totals(xs)[0] = 0
      /\ \A j \in 1..n : Totals(xs)[j] = Totals(xs)[j - 1] + xs[j]
  BY <1>1, TotalsExist
<1>4. /\ \A j \in 0..n : Totals(sq)[j] \in Int
      /\ Totals(sq)[0] = 0
      /\ \A j \in 1..n : Totals(sq)[j] = Totals(sq)[j - 1] + sq[j]
  BY <1>2, TotalsExist
<1> HIDE DEF n, sq
<1>5. x \in Int /\ i \in 1..n
  BY <1>1 DEF n
<1>6. Row(i) \in Seq(Int) /\ Len(Row(i)) = i - 1
  BY <1>1, <1>5 DEF Row
<1>7. f[0] = 0
  BY <1>1, <1>3, <1>4, <1>5
<1>8. \A j \in 1..Len(Row(i)) : f[j] = f[j - 1] + Row(i)[j]
  <2> SUFFICES ASSUME NEW j \in 1..i - 1 PROVE f[j] = f[j - 1] + Row(i)[j]
    BY <1>6
  <2> DEFINE y == xs[j]
             t == Totals(xs)[j - 1]
             q == Totals(sq)[j - 1]
  <2>1. j \in 1..n /\ j - 1 \in 0..n /\ j \in 0..n
    BY <1>1, <1>5
  <2>2. y \in Int /\ t \in Int /\ q \in Int
    BY <1>1, <1>3, <1>4, <2>1
  <2>3. f[j - 1] = (j - 1) * (x * x) - 2 * (x * t) + q
    BY <2>1
  <2>4. f[j] = j * (x * x) - 2 * (x * (t + y)) + (q + y * y)
    BY <1>2, <1>3, <1>4, <2>1
  <2>5. Row(i)[j] = (x - y) * (x - y)
    BY DEF Row
  <2> HIDE DEF x, y, t, q, f
  <2>6. j * (x * x) - 2 * (x * (t + y)) + (q + y * y)
          = (j - 1) * (x * x) - 2 * (x * t) + q + (x - y) * (x - y)
    BY <1>5, <2>2
  <2> QED BY <2>3, <2>4, <2>5, <2>6
<1>9. SumOf(Row(i)) = f[i - 1]
  <2> HIDE DEF f
  <2>1. SumOf(Row(i)) = f[Len(Row(i))]
    BY <1>6, <1>7, <1>8, TotalsAre
  <2> QED BY <1>6, <2>1
<1>10. i - 1 \in 0..n
  BY <1>1, <1>5
<1> QED BY <1>9, <1>10 DEF sq

\* Lagrange's identity.
LEMMA DifferencesTotal ==
  ASSUME xs \in Seq(Values)
  PROVE  SquaredDifferences = Len(xs) * SquaresOf(xs) - SumOf(xs) * SumOf(xs)
<1> DEFINE n == Len(xs)
           sq == Squares(xs)
           rows == [i \in DOMAIN xs |-> SumOf(Row(i))]
           f == [m \in 0..n |-> m * Totals(sq)[m] - Totals(xs)[m] * Totals(xs)[m]]
<1>1. n \in Nat /\ xs \in Seq(Int) /\ DOMAIN xs = 1..n /\ \A j \in 1..n : xs[j] \in Int
  BY ObservationsType
<1>2. /\ sq \in Seq(Int) /\ Len(sq) = n
      /\ \A j \in 1..n : sq[j] = xs[j] * xs[j]
  BY <1>1 DEF Squares
<1>3. /\ \A j \in 0..n : Totals(xs)[j] \in Int
      /\ Totals(xs)[0] = 0
      /\ \A j \in 1..n : Totals(xs)[j] = Totals(xs)[j - 1] + xs[j]
      /\ SumOf(xs) = Totals(xs)[n]
  BY <1>1, TotalsExist
<1>4. /\ \A j \in 0..n : Totals(sq)[j] \in Int
      /\ Totals(sq)[0] = 0
      /\ \A j \in 1..n : Totals(sq)[j] = Totals(sq)[j - 1] + sq[j]
      /\ SumOf(sq) = Totals(sq)[n]
  BY <1>2, TotalsExist
<1>5. SquaresOf(xs) = SumOf(sq) /\ SquaredDifferences = SumOf(rows)
  BY DEF SquaresOf, Squares, SquaredDifferences, Row
<1>6. \A i \in 1..n : rows[i] = (i - 1) * (xs[i] * xs[i]) - 2 * (xs[i] * Totals(xs)[i - 1])
                                   + Totals(sq)[i - 1]
  BY <1>1, RowTotal
<1>7. \A i \in 1..n : rows[i] \in Int
  <2> SUFFICES ASSUME NEW i \in 1..n PROVE rows[i] \in Int
    OBVIOUS
  <2>1. Row(i) \in Seq(Int)
    <3>1. \A j \in 1..i - 1 : j \in 1..n
      BY <1>1
    <3>2. \A j \in 1..i - 1 : (xs[i] - xs[j]) * (xs[i] - xs[j]) \in Int
      BY <1>1, <3>1
    <3>3. i - 1 \in Nat
      OBVIOUS
    <3> QED BY <3>2, <3>3 DEF Row
  <2> QED BY <1>1, <2>1, SumOfType
<1>8. rows \in Seq(Int) /\ Len(rows) = n
  BY <1>1, <1>7
<1> HIDE DEF n, sq, rows
<1>9. f[0] = 0
  <2>1. 0 \in 0..n
    BY <1>1
  <2>2. f[0] = 0 * Totals(sq)[0] - Totals(xs)[0] * Totals(xs)[0]
    BY <2>1
  <2> HIDE DEF f
  <2> QED BY <1>3, <1>4, <2>2
<1>10. \A i \in 1..Len(rows) : f[i] = f[i - 1] + rows[i]
  <2> SUFFICES ASSUME NEW i \in 1..n PROVE f[i] = f[i - 1] + rows[i]
    BY <1>8
  <2> DEFINE x == xs[i]
             t == Totals(xs)[i - 1]
             q == Totals(sq)[i - 1]
  <2>1. i - 1 \in 0..n /\ i \in 0..n
    BY <1>1
  <2>2. x \in Int /\ t \in Int /\ q \in Int
    BY <1>1, <1>3, <1>4, <2>1
  <2>3. f[i - 1] = (i - 1) * q - t * t
    BY <2>1
  <2>4. f[i] = i * (q + x * x) - (t + x) * (t + x)
    BY <1>2, <1>3, <1>4, <2>1
  <2>5. rows[i] = (i - 1) * (x * x) - 2 * (x * t) + q
    BY <1>6
  <2> HIDE DEF x, t, q, f
  <2>6. i * (q + x * x) - (t + x) * (t + x)
          = ((i - 1) * q - t * t) + ((i - 1) * (x * x) - 2 * (x * t) + q)
    BY <2>2
  <2> QED BY <2>3, <2>4, <2>5, <2>6
<1>11. SumOf(rows) = f[n]
  <2> HIDE DEF f
  <2>1. SumOf(rows) = f[Len(rows)]
    BY <1>8, <1>9, <1>10, TotalsAre
  <2> QED BY <1>8, <2>1
<1>12. n \in 0..n
  BY <1>1
<1> QED BY <1>3, <1>4, <1>5, <1>11, <1>12 DEF n

\* What is flagged unstable, for any observations in any order.
THEOREM UnstableFiguresAreFlagged == Spec => []UnstableIsFivePercent
<1>1. InputInv /\ OutputInv => UnstableIsFivePercent
  <2> SUFFICES ASSUME xs \in Seq(Values), xs # <<>>
               PROVE  Compute(xs).noisy =
                        (400 * Len(xs) * SquaredDifferences
                           > (Len(xs) - 1) * SumOf(xs) * SumOf(xs))
    BY DEF InputInv, OutputInv, UnstableIsFivePercent
  <2> DEFINE n == Len(xs)
             sum == SumOf(xs)
             s == Sorted(xs)
             excess == 400 * n * SquaredDifferences > (n - 1) * sum * sum
  <2>1. n \in Nat /\ n >= 1 /\ xs \in Seq(Int)
    BY ObservationsType
  <2>2. sum \in Int /\ SquaresOf(xs) \in Int
    <3>1. Squares(xs) \in Seq(Int)
      BY ObservationsType DEF Squares
    <3> QED BY <2>1, <3>1, SumOfType DEF SquaresOf, Squares
  <2>3. sum >= 1
    <3>1. \A k \in 1..Len(xs) : xs[k] >= 1
      BY ObservationsType DEF Positive
    <3> QED BY <2>1, <2>2, <3>1, SumOfPositives
  <2>4. Len(s) = n /\ SumOf(s) = sum /\ SquaresOf(s) = SquaresOf(xs)
    BY <2>1, SortedProperties, SortedTotals
  <2>5. SquaredDifferences = n * SquaresOf(xs) - sum * sum
    BY DifferencesTotal
  <2>6. Compute(xs).noisy = (SumOf(s) <= 0 \/ CVExceeds(s))
    BY DEF Compute
  <2>7. CVExceeds(s) <=> n > 1 /\ excess
    BY <2>4, <2>5 DEF CVExceeds
  <2>8. ASSUME n = 1 PROVE ~excess
    <3>1. SquaredDifferences = 0
      <4> DEFINE Zero == [i \in DOMAIN xs |-> SumOf(Row(i))]
      <4>1. DOMAIN xs = 1..1
        BY <2>8, ObservationsType
      <4>2. Row(1) = <<>>
        BY DEF Row
      <4>3. SumOf(Row(1)) = 0
        BY <4>2, SumOfEmpty
      <4>4. Zero = [i \in 1..1 |-> 0]
        BY <4>1, <4>3
      <4>5. SumOf(Zero) = 0
        BY <4>4, SumOfZeros, 1 \in Nat
      <4> QED BY <4>5 DEF SquaredDifferences, Row
    <3> QED BY <2>2, <2>8, <3>1
  <2> HIDE DEF n, sum, s, excess
  <2>9. Compute(xs).noisy = excess
    <3>1. ~(SumOf(s) <= 0) /\ (excess => n > 1)
      BY <2>1, <2>2, <2>3, <2>4, <2>8
    <3>2. (SumOf(s) <= 0 \/ CVExceeds(s)) = excess
      BY <2>7, <3>1 DEF excess
    <3> QED BY <2>6, <3>2
  <2> QED BY <2>9 DEF excess, n, sum
<1> QED BY <1>1, Computed, PTL
=============================================================================
