------------------------------ MODULE MCRunner ------------------------------
(***************************************************************************)
(* Instances of the runner for TLC: matrices, and the stages that report.  *)
(***************************************************************************)
EXTENDS RunnerProps, Matrix

Config(id, agent, stages, warmups, repetitions, maxCostUSD, maxCalls) ==
  [id |-> id, agent |-> agent, stages |-> stages, warmups |-> warmups,
   repetitions |-> repetitions, maxCostUSD |-> maxCostUSD, maxCalls |-> maxCalls]

\* A paid chain with a warm-up, then a paid baseline.
PaidMatrix == << Config("chain", "openai:", <<"baseline", "value">>, 1, 1, 2, 5),
                 Config("solo", "openai:", <<"baseline">>, 0, 1, 2, 5) >>

\* The whole chain over fake:, as matrix.yaml drives it, and a paid chain
\* that kno v0.1.2 reports only half of.
ReleasedMatrix == << Config("base", FakeAgent,
                            <<"baseline", "value", "select", "export">>, 1, 1, 0, 0),
                     Config("paid", "openai:", <<"baseline", "value">>, 0, 1, 2, 5) >>

\* A matrix file with defaults and a deferred configuration.
ReleasedFile ==
  [schemaVersion |-> 1, baseSize |-> 1,
   defaults |-> [agent |-> Unset, repetitions |-> 1, warmups |-> 1],
   configurations |->
     << Raw("base", Unset, <<"baseline", "value", "select", "export">>,
            0, <<>>, 0, FALSE, FALSE, 0, 0),
        Raw("later", Unset, <<"baseline">>, 0, <<>>, 0, TRUE, TRUE, 0, 0),
        Raw("paid", "openai:", <<"baseline", "value">>,
            1, <<0>>, 1, FALSE, FALSE, 2, 5) >>]

\* The file loads as that matrix.
ASSUME ReleasedFileLoads == Valid(ReleasedFile) /\ Active(ReleasedFile) = ReleasedMatrix

\* A paid configuration alone.
OneConfig == << Config("solo", "openai:", <<"baseline">>, 0, 2, 2, 5) >>

Reporting_v012 == {"baseline"}
AllReport == {"baseline", "value"}
=============================================================================
