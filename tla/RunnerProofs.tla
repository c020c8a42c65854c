---------------------------- MODULE RunnerProofs ----------------------------
(***************************************************************************)
(* Proofs about the runner, for every matrix, budget and bound.            *)
(***************************************************************************)
EXTENDS RunnerProps, SequenceTheorems, TLAPS

USE DEF NoSpend

-----------------------------------------------------------------------------
(* What an invocation reports, and what it is charged.                     *)

\* Warm-ups plus repetitions is a positive number of repetitions.
LEMMA TotalType ==
  ASSUME NEW i \in DOMAIN Configs
  PROVE  Configs[i] \in ConfigType /\ Total(i) \in Nat \ {0}
<1>1. Configs[i] \in ConfigType
  BY RunnerAssumption
<1>2. Configs[i].warmups \in Nat /\ Configs[i].repetitions \in Nat \ {0}
  BY <1>1 DEF ConfigType
<1> QED BY <1>1, <1>2 DEF Total

\* An invocation charges a natural number within the largest cap.
LEMMA ChargesAreBounded ==
  ASSUME TypeOK, pc \in {"runStage", "Exec"}
  PROVE  /\ c \in ConfigType
         /\ Stage \in STRING
         /\ \A cost \in Charges : cost \in Nat /\ cost <= MaxCharge
<1>1. c \in ConfigType
  BY RunnerAssumption DEF TypeOK, c
<1>2. Stage \in STRING
  BY <1>1 DEF TypeOK, Stage, ConfigType
<1>3. \A cost \in Charges : cost \in Nat /\ cost <= MaxCharge
  <2>1. c.agent # FakeAgent => c.maxCostUSD <= MaxCharge
    BY RunnerAssumption DEF TypeOK, c
  <2>2. c.maxCostUSD \in Int /\ MaxCharge \in Nat
    BY <1>1, RunnerAssumption DEF ConfigType
  <2> QED BY <2>1, <2>2 DEF Charges
<1> QED BY <1>1, <1>2, <1>3

\* parseUSD gives back the amount of a figure of a cent or more, and refuses
\* the form kno prints below a cent.
LEMMA ParseOfPrinted ==
  ASSUME NEW cost \in Nat
  PROVE  ParseUSD(KnoFigure(cost)) = IF 0 < cost /\ cost < Cent
                                     THEN [usd |-> 0, err |-> TRUE]
                                     ELSE [usd |-> cost, err |-> FALSE]
<1>1. CASE 0 < cost /\ cost < Cent
  <2>1. KnoFigure(cost) = [marks |-> <<"<", "$">>, amount |-> Cent]
    BY <1>1 DEF KnoFigure, Figure
  <2>2. TrimPrefix(<<"<", "$">>, "$") = <<"<", "$">>
    BY DEF TrimPrefix
  <2>3. TrimPrefix(<<"<", "$">>, "<") = <<"$">>
    BY DEF TrimPrefix
  <2>4. <<"$">> # <<>>
    OBVIOUS
  <2>5. ParseUSD([marks |-> <<"<", "$">>, amount |-> Cent]) = [usd |-> 0, err |-> TRUE]
    BY <2>2, <2>3, <2>4 DEF ParseUSD
  <2> QED BY <1>1, <2>1, <2>5
<1>2. CASE ~(0 < cost /\ cost < Cent)
  <2>1. KnoFigure(cost) = [marks |-> <<"$">>, amount |-> cost]
    BY <1>2 DEF KnoFigure, Figure
  <2>2. TrimPrefix(<<"$">>, "$") = <<>>
    BY DEF TrimPrefix
  <2>3. TrimPrefix(<<>>, "<") = <<>>
    BY DEF TrimPrefix
  <2>4. ParseUSD([marks |-> <<"$">>, amount |-> cost]) = [usd |-> cost, err |-> FALSE]
    BY <2>2, <2>3 DEF ParseUSD
  <2> QED BY <1>2, <2>1, <2>4
<1> QED BY <1>1, <1>2

\* What parseSpend returns of any document kno may print: a reported spend is
\* the charge itself.
LEMMA SpendIsCharge ==
  ASSUME NEW cost \in Nat, NEW doc \in Documents(cost)
  PROVE  /\ ParseSpend(doc) \in [usd : Nat, reported : BOOLEAN, err : BOOLEAN]
         /\ ParseSpend(doc).reported => ParseSpend(doc).usd = cost
         /\ doc.runID \in {NoID, Token}
<1>1. doc.spent \in {KnoFigure(cost), NoFigure} /\ doc.runID \in {NoID, Token}
  BY DEF Documents
<1>2. CASE doc.spent = NoFigure \/ ~doc.json
  BY <1>1, <1>2 DEF ParseSpend
<1>3. CASE doc.spent # NoFigure /\ doc.json
  <2>1. doc.spent = KnoFigure(cost)
    BY <1>1, <1>3
  <2>2. ParseUSD(doc.spent) \in {[usd |-> 0, err |-> TRUE], [usd |-> cost, err |-> FALSE]}
    BY <2>1, ParseOfPrinted
  <2>3. ParseSpend(doc) \in {[usd |-> 0, reported |-> FALSE, err |-> TRUE],
                             [usd |-> cost, reported |-> TRUE, err |-> FALSE]}
    <3>1. CASE ParseUSD(doc.spent) = [usd |-> 0, err |-> TRUE]
      BY <1>3, <3>1 DEF ParseSpend
    <3>2. CASE ParseUSD(doc.spent) = [usd |-> cost, err |-> FALSE]
      BY <1>3, <3>2 DEF ParseSpend
    <3> QED BY <2>2, <3>1, <3>2
  <2>4. CASE ParseSpend(doc) = [usd |-> 0, reported |-> FALSE, err |-> TRUE]
    BY <1>1, <2>4
  <2>5. CASE ParseSpend(doc) = [usd |-> cost, reported |-> TRUE, err |-> FALSE]
    BY <1>1, <2>5
  <2> QED BY <2>3, <2>4, <2>5
<1> QED BY <1>2, <1>3

-----------------------------------------------------------------------------
(* Type correctness.                                                       *)

Ledgers == [spent : Nat, aborted : BOOLEAN]
Commands == [stage : STRING \cup {"none"}, from : RunIDs, capped : BOOLEAN]

\* Every StageResult the runner builds is of its type.
LEMMA ResultType ==
  ASSUME TypeOK, pc \in {"runStage", "Exec"},
         NEW error \in Errors, NEW spend \in Nat \cup {NoSpend},
         NEW runID \in RunIDs, NEW cost \in Nat
  PROVE  Result(error, spend, runID, cost) \in StageResults
BY ChargesAreBounded DEF Result, StageResults

\* The run id of the current invocation is a token.
LEMMA TokenType ==
  ASSUME TypeOK
  PROVE  Token \in Tokens /\ Token \in RunIDs /\ NoID \in RunIDs
BY DEF TypeOK, Token, Tokens, RunIDs

\* Recording a repetition keeps the type of the record.
LEMMA RecordedType ==
  ASSUME TypeOK, pc \in {"runStage", "Exec"},
         NEW stages \in Seq(StageResults), NEW error \in Errors
  PROVE  Recorded(stages, error) \in Seq(Repetitions)
<1>1. run.repetitions \in Seq(Repetitions)
  BY DEF TypeOK, Runs
<1>2. [config |-> cfg, rep |-> rep, warmup |-> rep < c.warmups,
       stages |-> stages, error |-> error] \in Repetitions
  BY RunnerAssumption DEF TypeOK, Repetitions
<1> QED BY <1>1, <1>2 DEF Recorded

\* The end of a repetition keeps the types.
LEMMA EndRepetitionType ==
  ASSUME TypeOK, pc \in {"runStage", "Exec"},
         NEW stages \in Seq(StageResults), NEW error \in Errors,
         EndRepetition(stages, error), budget' \in Ledgers, kno' \in Commands
  PROVE  TypeOK'
<1>1. run' \in Runs
  BY RecordedType DEF EndRepetition, TypeOK, Runs
<1>2. cfg \in DOMAIN Configs /\ rep < Total(cfg) /\ rep \in Nat /\ Total(cfg) \in Nat
  <2>1. cfg \in DOMAIN Configs /\ rep < Total(cfg) /\ rep \in Nat
    BY DEF TypeOK
  <2> QED BY <2>1, TotalType
<1>3. rep' \in Nat /\ rep' <= Total(cfg') /\ cfg' \in DOMAIN Configs
  BY <1>2 DEF EndRepetition, Total
<1> QED BY <1>1, <1>3 DEF EndRepetition, TypeOK, Ledgers, Commands

\* The end of a run keeps the types.
LEMMA FinishType ==
  ASSUME TypeOK, NEW repetitions \in Seq(Repetitions), NEW partial \in BOOLEAN,
         NEW kind \in Kinds, NEW from \in Nat,
         Finish(repetitions, partial, [kind |-> kind, from |-> from]),
         kno' \in Commands
  PROVE  TypeOK'
<1>1. run' \in Runs
  BY DEF Finish, TypeOK, Runs
<1> QED BY <1>1 DEF Finish, TypeOK, Commands

\* An accepted stage keeps the types, whether or not it is the last one.
LEMMA AcceptType ==
  ASSUME TypeOK, pc = "Exec", NEW spend \in Nat \cup {NoSpend},
         NEW runID \in RunIDs, NEW cost \in Nat,
         Accept(spend, runID, cost), budget' \in Ledgers, kno' \in Commands
  PROVE  TypeOK'
<1> DEFINE stages == Append(rr, Result(NoError, spend, runID, cost))
<1>1. stages \in Seq(StageResults)
  <2>1. Result(NoError, spend, runID, cost) \in StageResults
    BY ResultType DEF Errors
  <2>2. rr \in Seq(StageResults)
    BY DEF TypeOK
  <2> QED BY <2>1, <2>2 DEF stages
<1>2. CASE stg < Len(c.stages)
  <2>1. stg + 1 \in DOMAIN c.stages
    BY <1>2, ChargesAreBounded DEF TypeOK, ConfigType
  <2>2. ids' \in [{"baseline", "value", "select"} -> RunIDs]
    BY <1>2 DEF Accept, TypeOK
  <2>3. rr' \in Seq(StageResults)
    BY <1>1, <1>2 DEF Accept, stages
  <2>4. c' = c /\ Total(cfg') = Total(cfg)
    BY <1>2 DEF Accept, c
  <2>5. stg' \in Nat \ {0} /\ stg' \in DOMAIN c'.stages
    BY <1>2, <2>1, <2>4 DEF Accept, TypeOK
  <2> QED BY <1>2, <2>2, <2>3, <2>4, <2>5 DEF Accept, TypeOK, Ledgers, Commands
<1>3. CASE ~(stg < Len(c.stages))
  BY <1>1, <1>3, EndRepetitionType DEF Accept, Errors
<1> QED BY <1>2, <1>3

\* A repetition that ends with an error keeps the types.
LEMMA FailRepetitionType ==
  ASSUME TypeOK, pc \in {"runStage", "Exec"}, NEW error \in Errors, NEW cost \in Nat,
         FailRepetition(Result(error, NoSpend, NoID, cost)),
         budget' = budget, kno' \in Commands
  PROVE  TypeOK'
<1>1. Append(rr, Result(error, NoSpend, NoID, cost)) \in Seq(StageResults)
  BY ResultType, TokenType DEF TypeOK
<1>2. Result(error, NoSpend, NoID, cost).error = error
  BY DEF Result
<1> QED BY <1>1, <1>2, EndRepetitionType DEF FailRepetition, TypeOK, Ledgers

\* Execute starts in a state of its type.
LEMMA TypeInit == Init => TypeOK
<1> SUFFICES ASSUME Init PROVE TypeOK
  OBVIOUS
<1>1. cfg \in 1..Len(Configs) + 1
  BY RunnerAssumption DEF Init
<1>2. run \in Runs
  BY DEF Init, Runs, NoReason, Kinds
<1>3. ids \in [{"baseline", "value", "select"} -> RunIDs] /\ kno \in Commands
  BY DEF Init, NoIDs, NoProcess, RunIDs, Commands
<1>4. rr \in Seq(StageResults)
  BY DEF Init
<1>5. pc = "Execute" /\ rep \in Nat /\ stg \in Nat \ {0} /\ cancelled \in BOOLEAN
      /\ budget \in Ledgers /\ db \subseteq Tokens
  <2>1. stg \in Nat \ {0}
    BY DEF Init
  <2>2. rep \in Nat /\ cancelled \in BOOLEAN /\ pc = "Execute"
    BY DEF Init
  <2>3. db \subseteq Tokens
    BY DEF Init
  <2>4. budget \in Ledgers
    BY DEF Init, Ledgers
  <2> QED BY <2>1, <2>2, <2>3, <2>4
<1> QED BY <1>1, <1>2, <1>3, <1>4, <1>5 DEF TypeOK, Commands, Ledgers

\* Every step of the runner keeps the types.
LEMMA TypeStep == TypeOK /\ [Next]_vars => TypeOK'
<1> SUFFICES ASSUME TypeOK, [Next]_vars PROVE TypeOK'
  OBVIOUS
<1> USE DEF Kinds, Errors
<1>1. NoProcess \in Commands /\ kno \in Commands /\ budget \in Ledgers
  <2>1. NoProcess \in Commands
    BY DEF NoProcess, Commands, RunIDs
  <2> QED BY <2>1 DEF TypeOK, Commands, Ledgers
<1>2. run.repetitions \in Seq(Repetitions) /\ run.partial \in BOOLEAN
      /\ run.reason \in [kind : Kinds, from : Nat]
  BY DEF TypeOK, Runs
<1>3. cfg \in Nat /\ cfg + 1 \in Nat
  BY RunnerAssumption DEF TypeOK
<1>4. CASE Cancel
  BY <1>4 DEF Cancel, TypeOK, c, Total
<1>5. CASE StopCancelled
  BY <1>1, <1>2, <1>3, <1>5, FinishType DEF StopCancelled
<1>6. CASE StopOverBudget
  BY <1>1, <1>2, <1>3, <1>6, FinishType DEF StopOverBudget
<1>7. CASE ConfigSetupFails
  BY <1>1, <1>2, <1>3, <1>7, FinishType DEF ConfigSetupFails
<1>8. CASE StartConfig
  <2>1. cfg \in DOMAIN Configs /\ 0 <= Total(cfg) /\ cfg' = cfg
    BY <1>8, TotalType DEF StartConfig, MayStart, AtConfiguration
  <2>2. db' \subseteq Tokens
    BY <1>8 DEF StartConfig, Stale, Tokens
  <2> QED BY <1>8, <2>1, <2>2 DEF StartConfig, TypeOK, Total
<1>9. CASE EndOfMatrix
  <2>1. run.reason = [kind |-> run.reason.kind, from |-> run.reason.from]
    BY <1>2
  <2> QED BY <1>1, <1>2, <1>9, <2>1, FinishType DEF EndOfMatrix
<1>10. CASE RepCancelled
  BY <1>1, <1>2, <1>3, <1>10, FinishType DEF RepCancelled
<1>11. CASE LeaveConfig
  <2>1. cfg \in DOMAIN Configs
    BY <1>11 DEF LeaveConfig, TypeOK
  <2>2. cfg + 1 \in 1..Len(Configs) + 1
    BY <2>1, RunnerAssumption
  <2> QED BY <1>11, <2>2 DEF LeaveConfig, TypeOK
<1>12. CASE BeginRep
  <2>1. cfg \in DOMAIN Configs /\ rep < Total(cfg) /\ c \in ConfigType /\ c.stages # <<>>
    BY <1>12, RunnerAssumption DEF BeginRep, MayRepeat, AtRepetition, TypeOK, c
  <2>2. 1 \in DOMAIN c.stages
    BY <2>1 DEF ConfigType
  <2>3. db' \subseteq Tokens
    BY <1>12 DEF BeginRep, StoreRemoved, TypeOK
  <2>4. ids' \in [{"baseline", "value", "select"} -> RunIDs] /\ rr' \in Seq(StageResults)
    BY <1>12 DEF BeginRep, InitialIDs, NoIDs, RunIDs
  <2>5. c' = c /\ Total(cfg') = Total(cfg)
    BY <1>12 DEF BeginRep, c
  <2>6. pc' = "runStage" /\ stg' = 1 /\ UNCHANGED <<cfg, rep, run, budget, cancelled, kno>>
    BY <1>12 DEF BeginRep
  <2>7. cfg' \in 1..Len(Configs) + 1 /\ rep' \in Nat /\ stg' \in Nat \ {0}
    BY <2>6 DEF TypeOK
  <2>8. stg' \in DOMAIN c'.stages /\ rep' < Total(cfg') /\ rep' <= Total(cfg')
        /\ cfg' \in DOMAIN Configs
    BY <2>1, <2>2, <2>5, <2>6, TotalType DEF TypeOK
  <2> QED BY <2>3, <2>4, <2>6, <2>7, <2>8 DEF TypeOK
<1>13. CASE RefuseStage
  BY <1>1, <1>13, FailRepetitionType DEF RefuseStage
<1>14. CASE SpawnFails
  BY <1>1, <1>14, FailRepetitionType DEF SpawnFails
<1>15. CASE Spawn
  <2>1. kno' \in Commands
    <3>1. Needs[Stage] \in {"baseline", "value", "select"} \/ Stage \notin DOMAIN Needs
      BY DEF Needs
    <3> QED BY <1>15, <3>1, ChargesAreBounded, TokenType
            DEF Spawn, BuildArgs, Commands, TypeOK
  <2>2. db' \subseteq Tokens
    BY <1>15, TokenType DEF Spawn, TypeOK
  <2> QED BY <1>15, <2>1, <2>2 DEF Spawn, TypeOK, c, Total, Commands
<1>16. CASE ExecFails
  BY <1>1, <1>16, ChargesAreBounded, FailRepetitionType DEF ExecFails, Returned
<1>17. CASE KnoFails
  BY <1>1, <1>17, ChargesAreBounded, FailRepetitionType DEF KnoFails, Returned
<1>18. CASE Unreadable
  BY <1>1, <1>18, ChargesAreBounded, FailRepetitionType DEF Unreadable, Returned
<1>19. CASE Unaccounted
  <2>1. PICK cost \in Charges :
          Finish(Recorded(Append(rr, Result("unaccounted", NoSpend, NoID, cost)),
                          "unaccounted"),
                 TRUE, [kind |-> "failed", from |-> cfg + 1])
    BY <1>19 DEF Unaccounted
  <2>2. pc = "Exec" /\ cost \in Nat
    BY <1>19, ChargesAreBounded DEF Unaccounted, Returned
  <2>3. Append(rr, Result("unaccounted", NoSpend, NoID, cost)) \in Seq(StageResults)
    <3>1. Result("unaccounted", NoSpend, NoID, cost) \in StageResults
      BY <2>2, ResultType, TokenType
    <3> QED BY <3>1 DEF TypeOK
  <2>4. Recorded(Append(rr, Result("unaccounted", NoSpend, NoID, cost)), "unaccounted")
          \in Seq(Repetitions)
    BY <2>2, <2>3, RecordedType
  <2> QED BY <1>1, <1>3, <1>19, <2>1, <2>4, FinishType DEF Unaccounted, Returned
<1>20. CASE Books
  <2>0. PICK cost \in Charges : \E doc \in Documents(cost) :
          /\ ParseSpend(doc).reported
          /\ budget' = Add(budget, ParseSpend(doc).usd, BudgetUSD)
          /\ IF budget'.aborted THEN OverCap(ParseSpend(doc).usd, cost)
                                ELSE Accept(ParseSpend(doc).usd, doc.runID, cost)
    BY <1>20 DEF Books
  <2>1. PICK doc \in Documents(cost) :
          /\ ParseSpend(doc).reported
          /\ budget' = Add(budget, ParseSpend(doc).usd, BudgetUSD)
          /\ IF budget'.aborted THEN OverCap(ParseSpend(doc).usd, cost)
                                ELSE Accept(ParseSpend(doc).usd, doc.runID, cost)
    BY <2>0
  <2>2. pc = "Exec" /\ cost \in Nat
    BY <1>20, ChargesAreBounded DEF Books, Returned
  <2>3. ParseSpend(doc).usd \in Nat /\ doc.runID \in RunIDs
    BY <2>2, SpendIsCharge, TokenType
  <2>4. budget' \in Ledgers /\ kno' \in Commands
    BY <1>1, <1>20, <2>1, <2>3, RunnerAssumption DEF Add, Ledgers, Books, Returned
  <2>5. CASE budget'.aborted
    <3>1. Append(rr, Result(NoError, ParseSpend(doc).usd, NoID, cost)) \in Seq(StageResults)
      <4>1. Result(NoError, ParseSpend(doc).usd, NoID, cost) \in StageResults
        BY <2>2, <2>3, ResultType, TokenType
      <4>2. rr \in Seq(StageResults)
        BY DEF TypeOK
      <4> QED BY <4>1, <4>2
    <3> QED BY <2>1, <2>2, <2>4, <2>5, <3>1, EndRepetitionType DEF OverCap
  <2>6. CASE ~budget'.aborted
    BY <2>1, <2>2, <2>3, <2>4, <2>6, AcceptType
  <2> QED BY <2>5, <2>6
<1>21. CASE Free
  <2>0. PICK cost \in Charges : \E doc \in Documents(cost) : Accept(NoSpend, doc.runID, cost)
    BY <1>21 DEF Free
  <2>1. PICK doc \in Documents(cost) : Accept(NoSpend, doc.runID, cost)
    BY <2>0
  <2>2. pc = "Exec" /\ cost \in Nat
    BY <1>21, ChargesAreBounded DEF Free, Returned
  <2>3. doc.runID \in RunIDs
    BY <2>2, SpendIsCharge, TokenType
  <2> QED BY <1>1, <1>21, <2>1, <2>2, <2>3, AcceptType DEF Free, Returned
<1>22. CASE UNCHANGED vars
  BY <1>22 DEF vars, TypeOK, c, Total
<1> QED
  BY <1>4, <1>5, <1>6, <1>7, <1>8, <1>9, <1>10, <1>11, <1>12, <1>13, <1>14, <1>15,
     <1>16, <1>17, <1>18, <1>19, <1>20, <1>21, <1>22
  DEF Next, RunnerSteps, ChildReturns, Terminated

\* The indices of the loops stay within the plan and every variable keeps its
\* type: run.go's Execute, runConfig and runStage together.
THEOREM TypeCorrect == Spec => []TypeOK
BY TypeInit, TypeStep, PTL DEF Spec

-----------------------------------------------------------------------------
(* The shape of the steps that the invariants below share.                 *)

\* A booked spend is the charge of the invocation.
LEMMA BooksStep ==
  ASSUME TypeOK, Books
  PROVE  \E cost \in Charges : \E runID \in {NoID, Token} :
           /\ pc = "Exec" /\ kno' = NoProcess
           /\ cost \in Nat /\ cost <= MaxCharge
           /\ budget' = Add(budget, cost, BudgetUSD)
           /\ \/ budget'.aborted /\ OverCap(cost, cost)
              \/ ~budget'.aborted /\ Accept(cost, runID, cost)
<1>1. PICK cost \in Charges : \E doc \in Documents(cost) :
        /\ ParseSpend(doc).reported
        /\ budget' = Add(budget, ParseSpend(doc).usd, BudgetUSD)
        /\ IF budget'.aborted THEN OverCap(ParseSpend(doc).usd, cost)
                              ELSE Accept(ParseSpend(doc).usd, doc.runID, cost)
  BY DEF Books
<1>2. PICK doc \in Documents(cost) :
        /\ ParseSpend(doc).reported
        /\ budget' = Add(budget, ParseSpend(doc).usd, BudgetUSD)
        /\ IF budget'.aborted THEN OverCap(ParseSpend(doc).usd, cost)
                              ELSE Accept(ParseSpend(doc).usd, doc.runID, cost)
  BY <1>1
<1>3. pc = "Exec" /\ kno' = NoProcess
  BY DEF Books, Returned
<1>4. cost \in Nat /\ cost <= MaxCharge
  BY <1>3, ChargesAreBounded
<1>5. ParseSpend(doc).usd = cost /\ doc.runID \in {NoID, Token}
  BY <1>2, <1>4, SpendIsCharge
<1> QED BY <1>2, <1>3, <1>4, <1>5

\* Only Books touches the budget, and the stage loop is only entered with the
\* flag down.
LEMMA BudgetFrame ==
  ASSUME TypeOK, [Next]_vars, ~Books
  PROVE  /\ budget' = budget
         /\ pc' \in {"runStage", "Exec"} =>
              pc \in {"runStage", "Exec"} \/ ~budget.aborted
<1>1. CASE Cancel
  BY <1>1 DEF Cancel
<1>2. CASE StopCancelled \/ StopOverBudget \/ ConfigSetupFails \/ EndOfMatrix \/ RepCancelled
  BY <1>2 DEF StopCancelled, StopOverBudget, ConfigSetupFails, EndOfMatrix,
              RepCancelled, Finish
<1>3. CASE StartConfig \/ LeaveConfig \/ BeginRep
  BY <1>3 DEF StartConfig, LeaveConfig, BeginRep, MayRepeat
<1>4. CASE RefuseStage \/ SpawnFails \/ Spawn
  BY <1>4 DEF RefuseStage, SpawnFails, Spawn
<1>5. CASE ExecFails \/ KnoFails \/ Unreadable \/ Free
  BY <1>5 DEF ExecFails, KnoFails, Unreadable, Free, Returned
<1>6. CASE Unaccounted
  BY <1>6 DEF Unaccounted, Returned, Finish
<1>7. CASE UNCHANGED vars
  BY <1>7 DEF vars
<1> QED BY <1>1, <1>2, <1>3, <1>4, <1>5, <1>6, <1>7
        DEF Next, RunnerSteps, ChildReturns, Terminated

-----------------------------------------------------------------------------
(* The aggregate budget.                                                   *)

\* The budget starts empty, with its flag down.
LEMMA BudgetInit == Init => BudgetInv
BY RunnerAssumption DEF Init, BudgetInv

\* Every step keeps the flag equivalent to "over the limit".
LEMMA BudgetStep == TypeOK /\ BudgetInv /\ [Next]_vars => BudgetInv'
<1> SUFFICES ASSUME TypeOK, BudgetInv, [Next]_vars PROVE BudgetInv'
  OBVIOUS
<1>0. budget \in Ledgers /\ BudgetUSD \in Nat /\ MaxCharge \in Nat
  BY RunnerAssumption DEF TypeOK, Ledgers
<1>1. CASE ~Books
  BY <1>1, BudgetFrame DEF BudgetInv
<1>2. CASE Books
  <2>1. PICK cost \in Charges, runID \in {NoID, Token} :
          /\ pc = "Exec"
          /\ cost \in Nat /\ cost <= MaxCharge
          /\ budget' = Add(budget, cost, BudgetUSD)
          /\ \/ budget'.aborted /\ OverCap(cost, cost)
             \/ ~budget'.aborted /\ Accept(cost, runID, cost)
    BY <1>2, BooksStep
  <2>2. ~budget.aborted /\ ~(BudgetUSD > 0 /\ budget.spent > BudgetUSD)
    BY <2>1 DEF BudgetInv
  <2>3. /\ budget'.spent = budget.spent + cost
        /\ budget'.aborted <=> BudgetUSD > 0 /\ budget.spent + cost > BudgetUSD
    BY <2>1, <2>2 DEF Add
  <2>4. budget'.aborted => pc' = "runConfig"
    BY <2>1 DEF OverCap, EndRepetition
  <2>5. BudgetUSD > 0 => budget'.spent <= BudgetUSD + MaxCharge
    BY <1>0, <2>1, <2>2, <2>3 DEF Ledgers
  <2> QED BY <2>3, <2>4, <2>5 DEF BudgetInv
<1> QED BY <1>1, <1>2

\* The budget's invariant holds in every reachable state.
LEMMA BudgetCorrect == Spec => []BudgetInv
BY TypeInit, TypeStep, BudgetInit, BudgetStep, PTL DEF Spec

\* After the cap has fired no process is started: in runStage the flag is
\* always down.
THEOREM NothingSpawnsOverBudget == Spec => NoSpawnOverBudget
<1>1. TypeOK /\ BudgetInv /\ [Next]_vars =>
        [pc # "Exec" /\ pc' = "Exec" => ~(BudgetUSD > 0 /\ budget.spent > BudgetUSD)]_vars
  <2> SUFFICES ASSUME TypeOK, BudgetInv, [Next]_vars, pc # "Exec", pc' = "Exec"
               PROVE  ~(BudgetUSD > 0 /\ budget.spent > BudgetUSD)
    OBVIOUS
  <2>1. ~budget.aborted
    <3>1. ~Books
      BY DEF Books, Returned
    <3> QED BY <3>1, BudgetFrame DEF BudgetInv
  <2> QED BY <2>1 DEF BudgetInv
<1> QED BY <1>1, TypeCorrect, BudgetCorrect, PTL DEF Spec, NoSpawnOverBudget

-----------------------------------------------------------------------------
(* The store and the run ids.                                              *)

\* How a step can be in the stage loop afterwards: it enters a repetition,
\* starts a process, goes on to the next stage, or changes nothing there.
LEMMA StageLoopStep ==
  ASSUME TypeOK, [Next]_vars, pc' \in {"runStage", "Exec"}
  PROVE  \/ BeginRep
         \/ Spawn
         \/ UNCHANGED <<pc, cfg, rep, stg, ids, db, kno>>
         \/ /\ pc = "Exec" /\ pc' = "runStage" /\ stg' = stg + 1
            /\ UNCHANGED <<cfg, rep, db>>
            /\ \/ ids' = ids
               \/ Stage \in DOMAIN ids /\ ids' = [ids EXCEPT ![Stage] = Token]
<1> DEFINE Continues(runID) ==
             /\ pc = "Exec" /\ pc' = "runStage" /\ stg' = stg + 1
             /\ UNCHANGED <<cfg, rep, db>>
             /\ ids' = IF runID # NoID /\ Stage \in DOMAIN ids
                       THEN [ids EXCEPT ![Stage] = runID] ELSE ids
<1>1. ASSUME NEW spend, NEW runID, NEW cost, pc = "Exec", Accept(spend, runID, cost)
      PROVE  Continues(runID)
  BY <1>1 DEF Accept, EndRepetition
<1>2. CASE Cancel \/ UNCHANGED vars
  BY <1>2 DEF Cancel, vars
<1>3. CASE StopCancelled \/ StopOverBudget \/ ConfigSetupFails \/ EndOfMatrix \/ RepCancelled
  BY <1>3 DEF StopCancelled, StopOverBudget, ConfigSetupFails, EndOfMatrix,
              RepCancelled, Finish
<1>4. CASE StartConfig \/ LeaveConfig
  BY <1>4 DEF StartConfig, LeaveConfig
<1>5. CASE RefuseStage \/ SpawnFails \/ ExecFails \/ KnoFails \/ Unreadable
  BY <1>5 DEF RefuseStage, SpawnFails, ExecFails, KnoFails, Unreadable, Returned,
              FailRepetition, EndRepetition
<1>6. CASE Unaccounted
  BY <1>6 DEF Unaccounted, Returned, Finish
<1>7. CASE Books
  <2>1. PICK cost \in Charges, runID \in {NoID, Token} :
          /\ pc = "Exec"
          /\ OverCap(cost, cost) \/ Accept(cost, runID, cost)
    BY <1>7, BooksStep
  <2>2. Accept(cost, runID, cost)
    BY <2>1 DEF OverCap, EndRepetition
  <2>3. Continues(runID)
    BY <1>1, <2>1, <2>2
  <2> QED BY <2>3
<1>8. CASE Free
  <2>1. PICK cost \in Charges : \E doc \in Documents(cost) : Accept(NoSpend, doc.runID, cost)
    BY <1>8 DEF Free
  <2>2. PICK doc \in Documents(cost) : Accept(NoSpend, doc.runID, cost)
    BY <2>1
  <2>3. pc = "Exec" /\ doc.runID \in {NoID, Token}
    BY <1>8, ChargesAreBounded, SpendIsCharge DEF Free, Returned
  <2>4. Continues(doc.runID)
    BY <1>1, <2>2, <2>3
  <2> QED BY <2>3, <2>4
<1> QED BY <1>2, <1>3, <1>4, <1>5, <1>6, <1>7, <1>8
        DEF Next, RunnerSteps, ChildReturns, Terminated

\* No run id is in hand at the start.
LEMMA LineageInit == Init => LineageInv
BY DEF Init, LineageInv

\* Every step keeps the run ids in hand those of this repetition.
LEMMA LineageStep == TypeOK /\ LineageInv /\ [Next]_vars => LineageInv'
<1> SUFFICES ASSUME TypeOK, LineageInv, [Next]_vars, pc' \in {"runStage", "Exec"}
             PROVE  LineageInv'
  BY DEF LineageInv
<1>0. stg \in Nat \ {0}
  BY DEF TypeOK
<1>1. CASE BeginRep
  BY <1>1 DEF BeginRep, InitialIDs, NoIDs, LineageInv
<1>2. CASE Spawn
  <2>1. /\ UNCHANGED <<cfg, rep, stg, ids>> /\ db \subseteq db'
        /\ Token' \in db' /\ pc = "runStage" /\ c' = c
    BY <1>2 DEF Spawn, Token, c
  <2>2. kno' = BuildArgs(Stage, c, ids) /\ ~BuildFails(Stage, c, ids)
    BY <1>2 DEF Spawn
  <2>3. kno'.stage \in DOMAIN Needs =>
          kno'.from = ids[Needs[kno'.stage]] /\ kno'.from # NoID
    BY <2>2 DEF BuildArgs, BuildFails
  <2> QED BY <2>1, <2>3 DEF LineageInv
<1>3. CASE UNCHANGED <<pc, cfg, rep, stg, ids, db, kno>>
  BY <1>3 DEF LineageInv, Token, c
<1>4. CASE /\ pc = "Exec" /\ pc' = "runStage" /\ stg' = stg + 1
           /\ UNCHANGED <<cfg, rep, db>>
           /\ \/ ids' = ids
              \/ Stage \in DOMAIN ids /\ ids' = [ids EXCEPT ![Stage] = Token]
  <2> SUFFICES ASSUME NEW s \in DOMAIN ids', ids'[s] # NoID
               PROVE  \E k \in 1..stg'-1 : /\ ids'[s] = <<cfg', rep', k>>
                                           /\ ids'[s] \in db'
                                           /\ c'.stages[k] = s
    BY <1>4 DEF LineageInv
  <2>1. c' = c
    BY <1>4 DEF c
  <2>2. CASE ids'[s] = ids[s] /\ s \in DOMAIN ids
    <3>1. PICK k \in 1..stg-1 : ids[s] = <<cfg, rep, k>> /\ ids[s] \in db /\ c.stages[k] = s
      BY <1>4, <2>2 DEF LineageInv
    <3>2. k \in 1..stg'-1
      BY <1>0, <1>4
    <3> QED BY <1>4, <2>1, <2>2, <3>1, <3>2
  <2>3. CASE s = Stage /\ ids'[s] = Token
    <3>1. Token \in db /\ Token = <<cfg, rep, stg>> /\ c.stages[stg] = s
      BY <1>4, <2>3 DEF LineageInv, Token, Stage
    <3>2. stg \in 1..stg'-1
      BY <1>0, <1>4
    <3> QED BY <1>4, <2>1, <2>3, <3>1, <3>2
  <2> QED BY <1>4, <2>2, <2>3
<1> QED BY <1>1, <1>2, <1>3, <1>4, StageLoopStep

\* BuildArgs hands a stage the run id that the stage it needs made in this very
\* repetition, and the store the stage opens holds that run: no run id crosses
\* a repetition, a configuration or a sweep.
THEOREM LineageIsInStore == Spec => []LineageInStore
<1>1. TypeOK /\ LineageInv => LineageInStore
  <2> SUFFICES ASSUME TypeOK, LineageInv, pc = "Exec", kno.stage \in DOMAIN Needs
               PROVE  LineageInStore
    BY DEF LineageInStore
  <2>1. kno.from = ids[Needs[kno.stage]] /\ kno.from # NoID
    BY DEF LineageInv
  <2>2. Needs[kno.stage] \in DOMAIN ids
    BY DEF Needs, TypeOK
  <2> QED BY <2>1, <2>2 DEF LineageInv, LineageInStore
<1> QED BY <1>1, TypeCorrect, TypeInit, TypeStep, LineageInit, LineageStep, PTL DEF Spec

\* As long as os.Remove does what it is asked, a repetition never sees a row
\* that another repetition, or an earlier sweep, wrote.
THEOREM StoreIsFresh ==
  ASSUME ~RemoveMayFail
  PROVE  Spec => []FreshStore
<1>1. Init => FreshStore
  BY DEF Init, FreshStore
<1>2. TypeOK /\ FreshStore /\ [Next]_vars => FreshStore'
  <2> SUFFICES ASSUME TypeOK, FreshStore, [Next]_vars,
                      pc' \in {"runStage", "Exec"}
               PROVE  \A t \in db' : t[1] = cfg' /\ t[2] = rep'
    BY DEF FreshStore
  <2>1. CASE BeginRep
    BY <2>1 DEF BeginRep, StoreRemoved
  <2>2. CASE Spawn
    BY <2>2 DEF Spawn, Token, FreshStore
  <2>3. CASE pc \in {"runStage", "Exec"} /\ UNCHANGED <<cfg, rep, db>>
    BY <2>3 DEF FreshStore
  <2> QED BY <2>1, <2>2, <2>3, StageLoopStep
<1> QED BY <1>1, <1>2, TypeInit, TypeStep, PTL DEF Spec

-----------------------------------------------------------------------------
(* The runner implements a sweep.                                          *)

\* Append as a function.
LEMMA AppendIsFunction ==
  ASSUME NEW S, NEW s \in Seq(S), NEW e \in S
  PROVE  Append(s, e) =
           [i \in 1..Len(s) + 1 |-> IF i = Len(s) + 1 THEN e ELSE s[i]]
<1>1. Append(s, e) \in Seq(S) /\ Len(s) \in Nat /\ Len(Append(s, e)) = Len(s) + 1
  OBVIOUS
<1>2. Append(s, e) = [i \in 1..Len(s) + 1 |-> Append(s, e)[i]]
  <2>1. Append(s, e) \in [1..Len(s) + 1 -> S]
    BY <1>1, LenProperties
  <2> QED BY <2>1
<1>3. \A i \in 1..Len(s) + 1 : Append(s, e)[i] = IF i = Len(s) + 1 THEN e ELSE s[i]
  OBVIOUS
<1> QED BY <1>2, <1>3

\* Recording a repetition appends its configuration and number to the log
\* the abstract sweep reads off the run.
LEMMA LogAppend ==
  ASSUME TypeOK, pc \in {"runStage", "Exec"},
         NEW stages \in Seq(StageResults), NEW error \in Errors,
         run'.repetitions = Recorded(stages, error)
  PROVE  Log' = Append(Log, <<cfg, rep>>)
<1> DEFINE R == run.repetitions
           x == [config |-> cfg, rep |-> rep, warmup |-> rep < c.warmups,
                 stages |-> stages, error |-> error]
<1>1. R \in Seq(Repetitions) /\ Recorded(stages, error) \in Seq(Repetitions)
  BY RecordedType DEF TypeOK, Runs
<1>2. run'.repetitions = Append(R, x)
  BY DEF Recorded
<1>3. DOMAIN run'.repetitions = 1..Len(R) + 1 /\ DOMAIN R = 1..Len(R) /\ Len(R) \in Nat
  BY <1>1, <1>2
<1>4. \A i \in 1..Len(R) : run'.repetitions[i] = R[i]
  BY <1>1, <1>2
<1>5. run'.repetitions[Len(R) + 1] = x
  BY <1>1, <1>2
<1>6. Log \in Seq(Nat \X Nat) /\ Len(Log) = Len(R) /\ DOMAIN Log = 1..Len(R)
  <2>1. ASSUME NEW i \in 1..Len(R) PROVE R[i].config \in Nat /\ R[i].rep \in Nat
    <3>1. R[i] \in Repetitions
      BY <1>1, <2>1
    <3> QED BY <3>1 DEF Repetitions
  <2>2. Log = [i \in 1..Len(R) |-> <<R[i].config, R[i].rep>>]
    BY <1>3 DEF Log
  <2>3. Log \in [1..Len(R) -> Nat \X Nat]
    BY <2>1, <2>2
  <2> QED BY <1>3, <2>3
<1>7. Log' = [i \in 1..Len(R) + 1 |-> <<run'.repetitions[i].config, run'.repetitions[i].rep>>]
  BY <1>3 DEF Log
<1>8. Append(Log, <<cfg, rep>>) =
        [i \in 1..Len(R) + 1 |-> IF i = Len(R) + 1 THEN <<cfg, rep>> ELSE Log[i]]
  <2>1. <<cfg, rep>> \in Nat \X Nat
    BY DEF TypeOK
  <2> HIDE DEF R
  <2> QED BY <1>6, <2>1, AppendIsFunction
<1>9. ASSUME NEW i \in 1..Len(R) + 1
      PROVE  <<run'.repetitions[i].config, run'.repetitions[i].rep>> =
               IF i = Len(R) + 1 THEN <<cfg, rep>> ELSE Log[i]
  <2>1. CASE i = Len(R) + 1
    BY <1>5, <2>1
  <2>2. CASE i # Len(R) + 1
    <3>1. i \in 1..Len(R)
      BY <1>3, <2>2
    <3> QED BY <1>3, <1>4, <2>2, <3>1 DEF Log
  <2> QED BY <2>1, <2>2
<1> QED BY <1>7, <1>8, <1>9

\* What a step may do to the loops, the record and the books.
Idles == UNCHANGED <<pc, cfg, rep, run, budget>>
Closes == pc # "done" /\ pc' = "done" /\ Log' = Log /\ budget' = budget
GoesOn == /\ pc \in {"runStage", "Exec"} /\ pc' \in {"runStage", "Exec"}
          /\ UNCHANGED <<cfg, rep, run>>
          /\ budget'.spent - budget.spent \in Nat
EndsRepetition == /\ pc \in {"runStage", "Exec"} /\ pc' = "runConfig"
                  /\ cfg' = cfg /\ rep' = rep + 1 /\ run'.partial = run.partial
                  /\ Log' = Append(Log, <<cfg, rep>>)
                  /\ budget'.spent - budget.spent \in Nat
EndsInError == /\ pc = "Exec" /\ pc' = "done"
               /\ Log' = Append(Log, <<cfg, rep>>) /\ budget' = budget

\* The end of a repetition is an abstract step that records it.
LEMMA EndRepetitionEnds ==
  ASSUME TypeOK, pc \in {"runStage", "Exec"},
         NEW stages \in Seq(StageResults), NEW error \in Errors,
         EndRepetition(stages, error), budget'.spent - budget.spent \in Nat
  PROVE  EndsRepetition
<1>1. run'.repetitions = Recorded(stages, error) /\ run'.partial = run.partial
  BY DEF EndRepetition, TypeOK, Runs
<1> QED BY <1>1, LogAppend DEF EndRepetition, EndsRepetition

\* So is the end of a repetition whose current stage failed.
LEMMA FailRepetitionEnds ==
  ASSUME TypeOK, pc \in {"runStage", "Exec"}, NEW error \in Errors, NEW cost \in Nat,
         FailRepetition(Result(error, NoSpend, NoID, cost)), budget' = budget
  PROVE  EndsRepetition
<1>1. Result(error, NoSpend, NoID, cost) \in StageResults /\ rr \in Seq(StageResults)
      /\ budget.spent \in Nat
  BY ResultType, TokenType DEF TypeOK
<1>2. Append(rr, Result(error, NoSpend, NoID, cost)) \in Seq(StageResults)
  BY <1>1
<1>3. Result(error, NoSpend, NoID, cost).error = error
  BY DEF Result
<1>4. budget'.spent - budget.spent \in Nat
  BY <1>1
<1> QED BY <1>2, <1>3, <1>4, EndRepetitionEnds DEF FailRepetition

\* An accepted stage goes on to the next one or ends the repetition.
LEMMA AcceptShape ==
  ASSUME TypeOK, pc = "Exec", NEW spend \in Nat \cup {NoSpend},
         NEW runID \in RunIDs, NEW cost \in Nat,
         Accept(spend, runID, cost), budget'.spent - budget.spent \in Nat
  PROVE  GoesOn \/ EndsRepetition
<1>1. Append(rr, Result(NoError, spend, runID, cost)) \in Seq(StageResults)
  <2>1. Result(NoError, spend, runID, cost) \in StageResults /\ rr \in Seq(StageResults)
    BY ResultType DEF Errors, TypeOK
  <2> QED BY <2>1
<1>2. CASE stg < Len(c.stages)
  BY <1>2 DEF Accept, GoesOn
<1>3. CASE ~(stg < Len(c.stages))
  BY <1>1, <1>3, EndRepetitionEnds DEF Accept, Errors
<1> QED BY <1>2, <1>3

\* The end of the matrix loop closes the sweep and records nothing more.
LEMMA FinishCloses ==
  ASSUME pc # "done", NEW partial, NEW reason,
         Finish(run.repetitions, partial, reason)
  PROVE  Closes
<1>1. run'.repetitions = run.repetitions /\ pc' = "done" /\ budget' = budget
  BY DEF Finish
<1> QED BY <1>1 DEF Closes, Log

\* Every step of the runner has one of eight shapes, named for what it does
\* to the record and to the position in the plan.
LEMMA SweepStep ==
  ASSUME TypeOK, [Next]_vars
  PROVE  Idles \/ Closes \/ StartConfig \/ LeaveConfig \/ BeginRep
         \/ GoesOn \/ EndsRepetition \/ EndsInError
<1> USE DEF Errors
<1>0. budget.spent \in Nat /\ budget.spent - budget.spent \in Nat
  BY DEF TypeOK
<1>1. CASE Cancel \/ UNCHANGED vars
  BY <1>1 DEF Cancel, vars, Idles
<1>2. CASE StopCancelled \/ StopOverBudget \/ ConfigSetupFails \/ EndOfMatrix \/ RepCancelled
  BY <1>2, FinishCloses
     DEF StopCancelled, StopOverBudget, ConfigSetupFails, EndOfMatrix, RepCancelled,
         MayStart, AtConfiguration, AtRepetition
<1>3. CASE Spawn
  BY <1>0, <1>3 DEF Spawn, GoesOn
<1>4. CASE RefuseStage \/ SpawnFails
  BY <1>4, FailRepetitionEnds DEF RefuseStage, SpawnFails
<1>5. CASE ExecFails
  BY <1>5, ChargesAreBounded, FailRepetitionEnds DEF ExecFails, Returned
<1>6. CASE KnoFails
  BY <1>6, ChargesAreBounded, FailRepetitionEnds DEF KnoFails, Returned
<1>7. CASE Unreadable
  BY <1>7, ChargesAreBounded, FailRepetitionEnds DEF Unreadable, Returned
<1>8. CASE Unaccounted
  <2>1. PICK cost \in Charges :
          Finish(Recorded(Append(rr, Result("unaccounted", NoSpend, NoID, cost)),
                          "unaccounted"),
                 TRUE, [kind |-> "failed", from |-> cfg + 1])
    BY <1>8 DEF Unaccounted
  <2>2. pc = "Exec" /\ cost \in Nat
    BY <1>8, ChargesAreBounded DEF Unaccounted, Returned
  <2>3. Append(rr, Result("unaccounted", NoSpend, NoID, cost)) \in Seq(StageResults)
    <3>1. Result("unaccounted", NoSpend, NoID, cost) \in StageResults
          /\ rr \in Seq(StageResults)
      BY <2>2, ResultType, TokenType DEF TypeOK
    <3> QED BY <3>1
  <2>4. run'.repetitions =
          Recorded(Append(rr, Result("unaccounted", NoSpend, NoID, cost)), "unaccounted")
        /\ pc' = "done" /\ budget' = budget
    BY <2>1 DEF Finish
  <2>5. Log' = Append(Log, <<cfg, rep>>)
    BY <2>2, <2>3, <2>4, LogAppend
  <2> QED BY <2>2, <2>4, <2>5 DEF EndsInError
<1>9. CASE Books
  <2>1. PICK cost \in Charges, runID \in {NoID, Token} :
          /\ pc = "Exec" /\ cost \in Nat
          /\ budget' = Add(budget, cost, BudgetUSD)
          /\ OverCap(cost, cost) \/ Accept(cost, runID, cost)
    BY <1>9, BooksStep
  <2>2. budget'.spent - budget.spent \in Nat
    BY <1>0, <2>1 DEF Add
  <2>3. runID \in RunIDs
    BY TokenType
  <2>4. CASE OverCap(cost, cost)
    <3>1. Append(rr, Result(NoError, cost, NoID, cost)) \in Seq(StageResults)
      <4>1. Result(NoError, cost, NoID, cost) \in StageResults /\ rr \in Seq(StageResults)
        BY <2>1, ResultType, TokenType DEF TypeOK
      <4> QED BY <4>1
    <3> QED BY <2>1, <2>2, <2>4, <3>1, EndRepetitionEnds DEF OverCap
  <2>5. CASE Accept(cost, runID, cost)
    BY <2>1, <2>2, <2>3, <2>5, AcceptShape
  <2> QED BY <2>1, <2>4, <2>5
<1>10. CASE Free
  <2>1. PICK cost \in Charges : \E doc \in Documents(cost) : Accept(NoSpend, doc.runID, cost)
    BY <1>10 DEF Free
  <2>2. PICK doc \in Documents(cost) : Accept(NoSpend, doc.runID, cost)
    BY <2>1
  <2>3. pc = "Exec" /\ cost \in Nat /\ budget' = budget
    BY <1>10, ChargesAreBounded DEF Free, Returned
  <2>4. doc.runID \in RunIDs
    BY <2>3, SpendIsCharge, TokenType
  <2> QED BY <1>0, <2>2, <2>3, <2>4, AcceptShape
<1> QED BY <1>1, <1>2, <1>3, <1>4, <1>5, <1>6, <1>7, <1>8, <1>9, <1>10
        DEF Next, RunnerSteps, ChildReturns, Terminated

\* The log is a sequence of pairs of numbers.
LEMMA LogType ==
  ASSUME TypeOK
  PROVE  Log \in Seq(Nat \X Nat)
<1>1. run.repetitions \in Seq(Repetitions)
  BY DEF TypeOK, Runs
<1>2. DOMAIN run.repetitions = 1..Len(run.repetitions) /\ Len(run.repetitions) \in Nat
  BY <1>1
<1>3. ASSUME NEW i \in DOMAIN run.repetitions
      PROVE  <<run.repetitions[i].config, run.repetitions[i].rep>> \in Nat \X Nat
  <2>1. run.repetitions[i] \in Repetitions
    BY <1>1, <1>3
  <2> QED BY <2>1 DEF Repetitions
<1>4. Log \in [1..Len(run.repetitions) -> Nat \X Nat]
  BY <1>2, <1>3 DEF Log
<1> QED BY <1>2, <1>4

\* The plan's successor of the repetition that was just recorded.
LEMMA NextAfterAppend ==
  ASSUME TypeOK, pc \in {"runStage", "Exec"}, Log' = Append(Log, <<cfg, rep>>)
  PROVE  (Abstract!NextPlanned)' = IF rep + 1 < Total(cfg) THEN <<cfg, rep + 1>>
                                                          ELSE <<cfg + 1, 0>>
<1>1. Log \in Seq(Nat \X Nat)
  BY LogType
<1>2. Log' # <<>> /\ Log'[Len(Log')] = <<cfg, rep>>
  BY <1>1
<1>3. cfg \in DOMAIN Configs /\ [i \in DOMAIN Configs |-> Total(i)][cfg] = Total(cfg)
  BY DEF TypeOK
<1>4. (Abstract!NextPlanned)' = Abstract!After(<<cfg, rep>>)
  BY <1>2 DEF Abstract!NextPlanned, Abstract!After
<1> QED BY <1>3, <1>4 DEF Abstract!After

\* The plan starts at its first repetition.
LEMMA PlanInit == Init => PlanInv
<1> SUFFICES ASSUME Init PROVE PlanInv
  OBVIOUS
<1>1. Log = <<>>
  BY DEF Init, Log
<1>2. Abstract!NextPlanned = <<1, 0>>
  BY <1>1 DEF Abstract!NextPlanned
<1> QED BY <1>2 DEF Init, PlanInv

\* Every step keeps the runner's position the plan's successor of the
\* repetition it recorded last.
LEMMA PlanStep == TypeOK /\ BudgetInv /\ PlanInv /\ [Next]_vars => PlanInv'
<1> SUFFICES ASSUME TypeOK, BudgetInv, PlanInv, [Next]_vars,
                    ~budget'.aborted, pc' # "done"
             PROVE  (Abstract!NextPlanned)' =
                      IF pc' = "Execute" THEN <<cfg', 0>>
                      ELSE IF rep' < Total(cfg') THEN <<cfg', rep'>>
                                                 ELSE <<cfg' + 1, 0>>
  BY DEF PlanInv
<1>0. rep \in Nat /\ cfg \in Nat
  BY RunnerAssumption DEF TypeOK
<1>1. ASSUME run' = run PROVE (Abstract!NextPlanned)' = Abstract!NextPlanned
  BY <1>1 DEF Abstract!NextPlanned, Log
<1>2. CASE Idles
  BY <1>1, <1>2 DEF Idles, PlanInv
<1>3. CASE StartConfig
  <2>1. cfg' = cfg /\ rep' = 0 /\ pc = "Execute" /\ pc' = "runConfig" /\ run' = run
        /\ budget' = budget /\ 0 < Total(cfg)
    BY <1>3, TotalType DEF StartConfig, MayStart, AtConfiguration
  <2>2. Total(cfg') = Total(cfg)
    BY <2>1
  <2> QED BY <1>1, <2>1, <2>2 DEF PlanInv
<1>4. CASE LeaveConfig
  <2>1. cfg' = cfg + 1 /\ pc' = "Execute" /\ pc = "runConfig" /\ run' = run
        /\ budget' = budget /\ rep >= Total(cfg) /\ Total(cfg) \in Nat
    BY <1>4, TotalType DEF LeaveConfig, TypeOK
  <2> QED BY <1>0, <1>1, <2>1 DEF PlanInv
<1>5. CASE BeginRep
  <2>1. cfg' = cfg /\ rep' = rep /\ pc = "runConfig" /\ pc' = "runStage" /\ run' = run
        /\ budget' = budget
    BY <1>5 DEF BeginRep, MayRepeat, AtRepetition
  <2>2. Total(cfg') = Total(cfg)
    BY <2>1
  <2> QED BY <1>1, <2>1, <2>2 DEF PlanInv
<1>6. CASE GoesOn
  <2>1. ~budget.aborted /\ Total(cfg') = Total(cfg)
    BY <1>6 DEF GoesOn, BudgetInv
  <2> QED BY <1>1, <1>6, <2>1 DEF GoesOn, PlanInv
<1>7. CASE EndsRepetition
  <2>1. Total(cfg') = Total(cfg)
    BY <1>7 DEF EndsRepetition
  <2> QED BY <1>7, <2>1, NextAfterAppend DEF EndsRepetition
<1> QED BY <1>2, <1>3, <1>4, <1>5, <1>6, <1>7, SweepStep DEF Closes, EndsInError

\* The runner is at the plan's successor of its record in every reachable state.
LEMMA PlanCorrect == Spec => []PlanInv
BY TypeInit, TypeStep, BudgetInit, BudgetStep, PlanInit, PlanStep, PTL DEF Spec

\* A step that records the repetition it is at is the abstract Advance.
LEMMA RecordingAdvances ==
  ASSUME TypeOK, BudgetInv, PlanInv, pc \in {"runStage", "Exec"},
         Log' = Append(Log, <<cfg, rep>>), budget'.spent - budget.spent \in Nat
  PROVE  Abstract!Advance
<1>1. ~Abstract!Over
  BY DEF BudgetInv, Abstract!Over
<1>2. Abstract!NextPlanned = <<cfg, rep>> /\ cfg \in DOMAIN Configs
  BY DEF BudgetInv, PlanInv, TypeOK
<1>3. (pc' # "done") \in BOOLEAN
  OBVIOUS
<1> QED BY <1>1, <1>2, <1>3 DEF Abstract!Advance

\* The matrix loop, whatever kno and the operator do, records a gapless prefix
\* of the committed plan in order, spends nothing after the cap has fired and
\* leaves a finished record alone.
THEOREM RunnerImplementsSweep == Spec => ImplementsSweep
<1>1. Init => Abstract!Init
  <2>1. Init => Log = <<>>
    BY DEF Init, Log
  <2> QED BY <2>1 DEF Init, Abstract!Init
<1>2. TypeOK /\ BudgetInv /\ PlanInv /\ [Next]_vars =>
        [Abstract!Next]_<<Log, budget.spent, pc # "done">>
  <2> SUFFICES ASSUME TypeOK, BudgetInv, PlanInv, [Next]_vars
               PROVE  Abstract!Next \/ UNCHANGED <<Log, budget.spent, pc # "done">>
    OBVIOUS
  <2>1. CASE Idles
    BY <2>1 DEF Idles, Log
  <2>2. CASE StartConfig \/ LeaveConfig \/ BeginRep
    BY <2>2 DEF StartConfig, MayStart, AtConfiguration, LeaveConfig, BeginRep,
                MayRepeat, AtRepetition, Log
  <2>3. CASE Closes
    BY <2>3 DEF Closes, Abstract!Next, Abstract!Close
  <2>4. CASE GoesOn
    <3>1. ~Abstract!Over
      BY <2>4 DEF GoesOn, BudgetInv, Abstract!Over
    <3>2. Log' = Log /\ pc # "done" /\ (pc' # "done") \in BOOLEAN
      BY <2>4 DEF GoesOn, Log
    <3> QED BY <2>4, <3>1, <3>2 DEF GoesOn, Abstract!Next, Abstract!Advance
  <2>5. CASE EndsRepetition
    BY <2>5, RecordingAdvances DEF EndsRepetition, Abstract!Next
  <2>6. CASE EndsInError
    <3>1. budget'.spent - budget.spent \in Nat
      BY <2>6 DEF EndsInError, TypeOK
    <3> QED BY <2>6, <3>1, RecordingAdvances DEF EndsInError, Abstract!Next
  <2> QED BY <2>1, <2>2, <2>3, <2>4, <2>5, <2>6, SweepStep
<1> QED BY <1>1, <1>2, TypeCorrect, BudgetCorrect, PlanCorrect, PTL
        DEF Spec, ImplementsSweep, Abstract!Spec
=============================================================================
