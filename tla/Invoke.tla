------------------------------- MODULE Invoke -------------------------------
(***************************************************************************)
(* The one place a kno command line is built (harness/invoke.go).  A run   *)
(* id is a token, NoID being the empty string; a command line is reduced   *)
(* to what later steps tell apart: the stage, the run id it names and      *)
(* whether it carries both cost ceilings.                                  *)
(***************************************************************************)
EXTENDS Integers, Sequences

FakeAgent == "fake:"
Agents == STRING \cup {FakeAgent}     \* STRING: the provers do not see it has FakeAgent

\* What the runner and the command builder read of a Config.
ConfigType == [id : STRING, agent : Agents, stages : Seq(STRING),
               warmups : Nat, repetitions : Nat \ {0},
               maxCostUSD : Int, maxCalls : Int]

KnownStages == {"baseline", "value", "select", "export"}

\* The stage whose run id each later stage is given.
Needs == [value |-> "baseline", select |-> "value", export |-> "select"]

\* The stages whose command line names the agent: only these can spend.
AgentStages == {"baseline", "value"}

NoID == <<>>

\* RunIDs{}, the zero value.
NoIDs == [s \in {"baseline", "value", "select"} |-> NoID]

LacksCeiling(c) == c.agent # FakeAgent /\ (c.maxCostUSD <= 0 \/ c.maxCalls <= 0)

\* The error returns of BuildArgs.
BuildFails(stage, c, ids) ==
  \/ stage \notin KnownStages
  \/ stage \in DOMAIN Needs /\ ids[Needs[stage]] = NoID
  \/ stage \in AgentStages /\ LacksCeiling(c)

\* The argument vector BuildArgs returns when it does not fail.
BuildArgs(stage, c, ids) ==
  [stage  |-> stage,
   from   |-> IF stage \in DOMAIN Needs THEN ids[Needs[stage]] ELSE NoID,
   capped |-> stage \in AgentStages /\ c.agent # FakeAgent]
=============================================================================
