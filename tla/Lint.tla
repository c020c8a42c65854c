--------------------------------- MODULE Lint ---------------------------------
(***************************************************************************)
(* knobench lint: the findings on the matrix and on the workflow files.    *)
(*                                                                         *)
(* A YAML node is [kind, value, content]: the text of a scalar, the nodes  *)
(* of a sequence, and those of a mapping, where keys and values alternate. *)
(* What is absent is NoNode, and no node is an alias.                      *)
(*                                                                         *)
(* A workflow file is what its author says, [parses, secrets, events,      *)
(* form, filter, jobs]: whether it is YAML at all; the places that name a  *)
(* provider's secret, which are jobs and, for what all of them see,        *)
(* "workflow"; the events that start it, in the form they are written in,  *)
(* with the filter that the last form has; and its jobs by name, each      *)
(* [runsOn, environment], two nodes.                                       *)
(***************************************************************************)
EXTENDS Matrix

Node(kind, value, content) == [kind |-> kind, value |-> value, content |-> content]
Scalar(v) == Node("scalar", v, <<>>)
NoNode == Node("none", "", <<>>)

\* The three forms of `on` that GitHub accepts: an event, a list of them, and
\* a mapping from each to its filter.
Written(form, events, filter) ==
  CASE form = "scalar"   -> Scalar(events[1])
    [] form = "sequence" -> Node("sequence", "", [i \in 1..Len(events) |-> Scalar(events[i])])
    [] form = "mapping"  -> Node("mapping", "",
                              [i \in 1..2 * Len(events) |->
                                 IF i % 2 = 1 THEN Scalar(events[(i + 1) \div 2]) ELSE filter])

ForkTriggers == {"pull_request", "pull_request_target"}

\* The labels that contain "self-hosted", which no comma of a join can make.
SelfHosted == {"self-hosted", "self-hosted-large"}

\* scalarList: a mapping has no labels.
ScalarList(n) ==
  CASE n.kind = "scalar"   -> {n.value}
    [] n.kind = "sequence" -> {n.content[i].value : i \in DOMAIN n.content}
    [] OTHER               -> {}

\* triggerNames: of a mapping, every other node.
TriggerNames(n) ==
  CASE n.kind = "scalar"   -> {n.value}
    [] n.kind = "sequence" -> {n.content[i].value : i \in DOMAIN n.content}
    [] n.kind = "mapping"  -> {n.content[i].value : i \in {k \in DOMAIN n.content : k % 2 = 1}}
    [] OTHER               -> {}

\* LintWorkflow. That a secret is reachable is asked of the text of the file,
\* whether it is gated of every job.
LintWorkflow(wf) ==
  LET triggers == TriggerNames(Written(wf.form, wf.events, wf.filter)) IN
  IF ~wf.parses THEN {<<"parse">>}
  ELSE {<<"self-hosted", j>> : j \in {k \in DOMAIN wf.jobs :
          /\ ScalarList(wf.jobs[k].runsOn) \cap SelfHosted # {}
          /\ triggers \cap ForkTriggers # {}}}
       \cup
       {<<"environment", j>> : j \in {k \in DOMAIN wf.jobs :
          wf.secrets # {} /\ wf.jobs[k].environment = NoNode}}

\* lintCmd: what it finds in the matrix and in each file of the directory.
LintFindings(m, workflows) ==
  {<<"matrix", f>> : f \in LintMatrix(m)}
    \cup UNION {{<<name, f>> : f \in LintWorkflow(workflows[name])} : name \in DOMAIN workflows}
=============================================================================
