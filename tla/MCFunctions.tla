----------------------------- MODULE MCFunctions -----------------------------
(***************************************************************************)
(* Inputs of the program's pure functions for TLC.                         *)
(***************************************************************************)
EXTENDS PureFunctions

Good == Raw("good", FakeAgent, <<"baseline", "value">>, 2, <<1>>, 1, FALSE, FALSE, 0, 0)

File(agent0, reps0, warmups0, configurations) ==
  [schemaVersion |-> 1, baseSize |-> 1,
   defaults |-> [agent |-> agent0, repetitions |-> reps0, warmups |-> warmups0],
   configurations |-> configurations]

\* A configuration with any mix of missing, zero, negative and good fields,
\* next to one that is good.
MixedFiles ==
  {File(agent0, reps0, warmups0,
        <<Raw(id, agent, stages, reps, warmups, size, why[1], why[2], cost, calls), Good>>) :
     agent0 \in {Unset, "openai:"}, reps0 \in {0, 2}, warmups0 \in {-1, 1},
     id \in {Unset, "good", "other"}, agent \in {Unset, FakeAgent, "openai:"},
     stages \in {<<>>, <<"baseline">>, <<"baseline", "validate">>},
     reps \in {-1, 0, 2}, warmups \in {<<>>, <<0>>, <<2>>}, size \in {0, 1},
     why \in {<<FALSE, FALSE>>, <<TRUE, FALSE>>, <<TRUE, TRUE>>},
     cost \in {-1, 0, 1}, calls \in {0, 1}}
OneGoodFile == File(Unset, 2, 1, <<Good>>)

\* Every form of the triggers, with and without filters, and of the labels,
\* a runner group among them.
Events == {"push", "pull_request", "pull_request_target"}
Triggers ==
  {<<"scalar", <<e>>, NoNode>> : e \in Events}
    \cup {<<form, es, filter>> : form \in {"sequence", "mapping"}, es \in SeqOf(Events, 2),
             filter \in {Scalar(""), Node("mapping", "", <<Scalar("branches"), Scalar("main")>>)}}
Labels == {Scalar("hosted"), Scalar("self-hosted-large"),
           Node("sequence", "", <<Scalar("kno-bench"), Scalar("self-hosted")>>),
           Node("mapping", "", <<Scalar("group"), Scalar("large")>>)}
JobsOf == [runsOn : Labels, environment : {NoNode, Scalar("bench-live")}]
WorkflowFile(parses, on, secrets, jobs) ==
  [parses |-> parses, secrets |-> secrets, form |-> on[1], events |-> on[2], filter |-> on[3],
   jobs |-> jobs]
Workflow ==
  {WorkflowFile(parses, on, secrets, jobs) :
     parses \in BOOLEAN, on \in Triggers, secrets \in {{}, {"a"}, {"workflow"}},
     jobs \in [{"a", "b"} -> JobsOf]}
\* The file under test next to the committed pr.yml.
PR == WorkflowFile(TRUE, <<"mapping", <<"pull_request", "push">>, Scalar("")>>, {},
            [j \in {"validate", "dry-run"} |->
               [runsOn |-> Scalar("hosted"), environment |-> NoNode]])
PairsOfFiles == {[name \in {"pr", "bench"} |-> IF name = "pr" THEN PR ELSE wf] : wf \in Workflow}
=============================================================================
