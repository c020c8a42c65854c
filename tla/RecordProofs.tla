---------------------------- MODULE RecordProofs ----------------------------
(***************************************************************************)
(* Proofs about what the runner records: that a stage without an error is  *)
(* accounted for, that a repetition without an error is whole, and that a  *)
(* run which lacks repetitions says which.                                 *)
(***************************************************************************)
EXTENDS RunnerProofs, SumProofs

-----------------------------------------------------------------------------
(* What a step may do to the stages in hand and to the record.             *)

\* A stage result that the loop may go on from.
Clean(result) == result.error = NoError /\ Accounted(result)

\* Nothing is recorded. Outside the stage loop nothing is booked, and a new
\* repetition begins empty; inside, the stages in hand are kept, or joined
\* by a clean one whose spend is booked.
Keeps ==
  /\ run'.repetitions = run.repetitions
  /\ budget.aborted => budget'.aborted
  /\ \/ /\ ~InLoop /\ budget'.spent = budget.spent
        /\ InLoop' => rr' = <<>> /\ stg' = 1
     \/ /\ InLoop /\ InLoop'
        /\ rr' = rr /\ stg' = stg /\ budget'.spent = budget.spent
     \/ /\ InLoop /\ InLoop'
        /\ stg' = stg + 1
        /\ \E result \in StageResults :
             /\ Clean(result) /\ rr' = Append(rr, result)
             /\ budget'.spent = budget.spent + SpentOn(result)

\* The repetition is recorded with one more stage and that stage's error, and
\* its spend is booked; without an error it is the last stage, or the cap has
\* fired.
Records(result) ==
  /\ InLoop /\ ~InLoop'
  /\ run'.repetitions = Recorded(Append(rr, result), result.error)
  /\ budget'.spent = budget.spent + SpentOn(result)
  /\ result.error = NoError =>
       Accounted(result) /\ (stg = Len(c.stages) \/ budget'.aborted)

\* A failed stage is recorded.
LEMMA FailRecords ==
  ASSUME TypeOK, InLoop, NEW error \in Errors, error # NoError, NEW cost \in Nat,
         budget' = budget, FailRepetition(Result(error, NoSpend, NoID, cost))
  PROVE  \E result \in StageResults : Records(result)
<1> DEFINE result == Result(error, NoSpend, NoID, cost)
<1>1. result \in StageResults /\ result.error = error
  BY ResultType, TokenType DEF InLoop, Result
<1>2. pc' = "runConfig" /\ run' = [run EXCEPT !.repetitions = Recorded(Append(rr, result), error)]
  BY <1>1 DEF FailRepetition, EndRepetition
<1>3. run'.repetitions = Recorded(Append(rr, result), result.error)
  BY <1>1, <1>2 DEF TypeOK, Runs
<1>4. budget'.spent = budget.spent + SpentOn(result)
  <2>1. SpentOn(result) = 0
    BY DEF SpentOn, Reported, Result
  <2> QED BY <2>1 DEF TypeOK
<1> HIDE DEF result
<1> QED BY <1>1, <1>2, <1>3, <1>4 DEF Records, InLoop

\* An accepted stage that is accounted for joins the stages in hand or, as
\* the last one, is recorded.
LEMMA AcceptRecords ==
  ASSUME TypeOK, pc = "Exec", NEW spend \in Nat \cup {NoSpend},
         NEW runID \in RunIDs, NEW cost \in Nat, budget.aborted => budget'.aborted,
         cost > 0 => spend # NoSpend /\ spend >= cost,
         budget'.spent = budget.spent + (IF spend = NoSpend THEN 0 ELSE spend),
         Accept(spend, runID, cost)
  PROVE  Keeps \/ \E result \in StageResults : Records(result)
<1> DEFINE result == Result(NoError, spend, runID, cost)
<1>1. /\ result \in StageResults /\ result.error = NoError /\ Clean(result)
      /\ budget'.spent = budget.spent + SpentOn(result)
  <2>1. result \in StageResults
    BY ResultType DEF Errors
  <2>2. result.error = NoError /\ result.spend = spend /\ result.cost = cost
    BY DEF Result
  <2> QED BY <2>1, <2>2 DEF Clean, Accounted, Reported, SpentOn
<1> HIDE DEF result
<1>2. CASE stg < Len(c.stages)
  <2>1. run' = run /\ stg' = stg + 1 /\ rr' = Append(rr, result) /\ pc' = "runStage"
    BY <1>2 DEF Accept, result
  <2> QED BY <1>1, <2>1 DEF Keeps, InLoop
<1>3. CASE ~(stg < Len(c.stages))
  <2>1. EndRepetition(Append(rr, result), NoError)
    BY <1>3 DEF Accept, result
  <2>2. run'.repetitions = Recorded(Append(rr, result), result.error) /\ pc' = "runConfig"
    BY <1>1, <2>1 DEF EndRepetition, TypeOK, Runs
  <2>3. stg = Len(c.stages)
    BY <1>3, ChargesAreBounded DEF TypeOK, ConfigType
  <2> QED BY <1>1, <2>2, <2>3 DEF Records, Clean, InLoop
<1> QED BY <1>2, <1>3

\* Every step either keeps the record or appends the repetition at hand.
LEMMA RecordStep ==
  ASSUME TypeOK, BudgetInv, [Next]_vars
  PROVE  Keeps \/ \E result \in StageResults : Records(result)
<1> USE DEF Errors
<1>1. CASE Cancel \/ UNCHANGED vars \/ Spawn
  BY <1>1 DEF Cancel, vars, Spawn, Keeps, InLoop
<1>2. CASE StopCancelled \/ StopOverBudget \/ ConfigSetupFails \/ EndOfMatrix \/ RepCancelled
  BY <1>2 DEF StopCancelled, StopOverBudget, ConfigSetupFails, EndOfMatrix,
              AtConfiguration, MayStart, AtRepetition, RepCancelled, Finish, Keeps, InLoop
<1>3. CASE StartConfig \/ LeaveConfig \/ BeginRep
  BY <1>3 DEF StartConfig, LeaveConfig, BeginRep, AtConfiguration, MayStart, AtRepetition,
              MayRepeat, Keeps, InLoop
<1>4. CASE RefuseStage \/ SpawnFails
  BY <1>4, FailRecords DEF RefuseStage, SpawnFails, InLoop, NoError
<1>5. CASE ExecFails
  BY <1>5, ChargesAreBounded, FailRecords DEF ExecFails, Returned, InLoop, NoError
<1>6. CASE KnoFails
  BY <1>6, ChargesAreBounded, FailRecords DEF KnoFails, Returned, InLoop, NoError
<1>7. CASE Unreadable
  BY <1>7, ChargesAreBounded, FailRecords DEF Unreadable, Returned, InLoop, NoError
<1>8. CASE Unaccounted
  <2>1. PICK cost \in Charges :
          Finish(Recorded(Append(rr, Result("unaccounted", NoSpend, NoID, cost)),
                          "unaccounted"),
                 TRUE, [kind |-> "failed", from |-> cfg + 1])
    BY <1>8 DEF Unaccounted
  <2> DEFINE result == Result("unaccounted", NoSpend, NoID, cost)
  <2>2. pc = "Exec" /\ cost \in Nat
    BY <1>8, ChargesAreBounded DEF Unaccounted, Returned
  <2>3. result \in StageResults /\ result.error = "unaccounted" /\ SpentOn(result) = 0
    BY <2>2, ResultType, TokenType DEF Result, SpentOn, Reported
  <2>4. run'.repetitions = Recorded(Append(rr, result), result.error) /\ pc' = "done"
    BY <2>1, <2>3 DEF Finish
  <2>5. budget'.spent = budget.spent + SpentOn(result)
    BY <2>1, <2>3 DEF Finish, TypeOK
  <2> HIDE DEF result
  <2> QED BY <2>2, <2>3, <2>4, <2>5 DEF Records, InLoop, NoError
<1>9. CASE Books
  <2>1. PICK cost \in Charges, runID \in {NoID, Token} :
          /\ pc = "Exec" /\ cost \in Nat /\ budget'.spent = budget.spent + cost
          /\ \/ budget'.aborted /\ OverCap(cost, cost)
             \/ Accept(cost, runID, cost)
    BY <1>9, BooksStep DEF Add
  <2>2. ~budget.aborted
    BY <2>1 DEF BudgetInv
  <2>3. CASE budget'.aborted /\ OverCap(cost, cost)
    <3> DEFINE result == Result(NoError, cost, NoID, cost)
    <3>1. result \in StageResults
      BY <2>1, ResultType, TokenType
    <3>2. result.error = NoError /\ Accounted(result) /\ SpentOn(result) = cost
      <4>1. result.error = NoError /\ result.spend = cost /\ result.cost = cost
        BY DEF Result
      <4> QED BY <2>1, <4>1 DEF Accounted, Reported, NoSpend, SpentOn
    <3>3. run'.repetitions = Recorded(Append(rr, result), result.error) /\ pc' = "runConfig"
      BY <2>3, <3>2 DEF OverCap, EndRepetition, TypeOK, Runs
    <3> HIDE DEF result
    <3> QED BY <2>1, <2>3, <3>1, <3>2, <3>3 DEF Records, InLoop
  <2>4. CASE Accept(cost, runID, cost)
    <3>1. runID \in RunIDs /\ (cost > 0 => cost # NoSpend /\ cost >= cost)
      BY <2>1, TokenType DEF NoSpend
    <3> QED BY <2>1, <2>2, <2>4, <3>1, AcceptRecords
  <2> QED BY <2>1, <2>3, <2>4
<1>10. CASE Free
  <2>1. PICK cost \in Charges : \E doc \in Documents(cost) : Accept(NoSpend, doc.runID, cost)
    BY <1>10 DEF Free
  <2>2. PICK doc \in Documents(cost) : Accept(NoSpend, doc.runID, cost)
    BY <2>1
  <2>3. pc = "Exec" /\ cost \in Nat /\ budget' = budget
    BY <1>10, ChargesAreBounded DEF Free, Returned
  <2>4. cost = 0
    BY <1>10 DEF Free, MustReport, Charges
  <2>5. doc.runID \in RunIDs
    BY <2>3, SpendIsCharge, TokenType
  <2>6. cost > 0 => NoSpend # NoSpend /\ NoSpend >= cost
    BY <2>4
  <2>7. /\ budget'.spent = budget.spent + (IF NoSpend = NoSpend THEN 0 ELSE NoSpend)
        /\ budget.aborted => budget'.aborted
    BY <2>3 DEF TypeOK
  <2>8. NoSpend \in Nat \cup {NoSpend}
    OBVIOUS
  <2> QED BY <2>2, <2>3, <2>5, <2>6, <2>7, <2>8, AcceptRecords
<1> QED BY <1>1, <1>2, <1>3, <1>4, <1>5, <1>6, <1>7, <1>8, <1>9, <1>10
        DEF Next, RunnerSteps, ChildReturns, Terminated

-----------------------------------------------------------------------------
(* The stages of a recorded repetition.                                    *)

\* The record after a step that appends the repetition at hand.
LEMMA RecordAfter ==
  ASSUME TypeOK, NEW result \in StageResults, Records(result)
  PROVE  LET R == run.repetitions
             last == Len(R) + 1
             stages == run'.repetitions[last].stages
         IN  /\ Len(R) \in Nat /\ Len(run'.repetitions) = last
             /\ DOMAIN run'.repetitions = 1..last /\ DOMAIN R = 1..Len(R)
             /\ \A i \in 1..Len(R) : run'.repetitions[i] = R[i]
             /\ run'.repetitions[last].config = cfg
             /\ run'.repetitions[last].error = result.error
             /\ Len(stages) = Len(rr) + 1 /\ DOMAIN stages = 1..Len(rr) + 1
             /\ \A j \in 1..Len(rr) : stages[j] = rr[j]
             /\ stages[Len(rr) + 1] = result
             /\ Len(rr) \in Nat
<1> DEFINE R == run.repetitions
           x == [config |-> cfg, rep |-> rep, warmup |-> rep < c.warmups,
                 stages |-> Append(rr, result), error |-> result.error]
<1>1. R \in Seq(Repetitions) /\ rr \in Seq(StageResults) /\ pc \in {"runStage", "Exec"}
  BY DEF TypeOK, Runs, Records, InLoop
<1>2. Append(rr, result) \in Seq(StageResults) /\ result.error \in Errors
  BY <1>1 DEF StageResults
<1>3. Recorded(Append(rr, result), result.error) \in Seq(Repetitions)
  BY <1>1, <1>2, RecordedType
<1>4. run'.repetitions = Append(R, x)
  BY DEF Recorded, Records
<1>5. run'.repetitions[Len(R) + 1] = x
  BY <1>1, <1>3, <1>4
<1>6. /\ Len(R) \in Nat /\ Len(run'.repetitions) = Len(R) + 1
      /\ DOMAIN run'.repetitions = 1..Len(R) + 1 /\ DOMAIN R = 1..Len(R)
      /\ \A i \in 1..Len(R) : run'.repetitions[i] = R[i]
  BY <1>1, <1>3, <1>4
<1>7. x.config = cfg /\ x.error = result.error /\ x.stages = Append(rr, result)
  OBVIOUS
<1>8. /\ Len(rr) \in Nat /\ Len(Append(rr, result)) = Len(rr) + 1
      /\ DOMAIN Append(rr, result) = 1..Len(rr) + 1
      /\ \A j \in 1..Len(rr) : Append(rr, result)[j] = rr[j]
      /\ Append(rr, result)[Len(rr) + 1] = result
  BY <1>1, <1>2
<1> HIDE DEF x, R
<1> QED BY <1>5, <1>6, <1>7, <1>8 DEF R

\* The stages in hand stay clean, one for each stage passed.
LEMMA ChainStep == TypeOK /\ BudgetInv /\ ChainInv /\ [Next]_vars => ChainInv'
<1> SUFFICES ASSUME TypeOK, BudgetInv, ChainInv, [Next]_vars, InLoop'
             PROVE  /\ Len(rr') = stg' - 1
                    /\ \A j \in DOMAIN rr' : Clean(rr'[j])
  BY DEF ChainInv, InLoop, Clean, Accounted, Reported
<1>1. Keeps
  BY RecordStep DEF Records
<1>2. rr \in Seq(StageResults) /\ stg \in Nat
  BY DEF TypeOK
<1>3. CASE rr' = <<>> /\ stg' = 1
  BY <1>3
<1>4. CASE InLoop /\ rr' = rr /\ stg' = stg
  BY <1>4 DEF ChainInv, InLoop, Clean
<1>5. CASE /\ InLoop /\ stg' = stg + 1
           /\ \E result \in StageResults : Clean(result) /\ rr' = Append(rr, result)
  <2>1. PICK result \in StageResults : Clean(result) /\ rr' = Append(rr, result)
    BY <1>5
  <2>2. Len(rr) = stg - 1 /\ \A j \in DOMAIN rr : Clean(rr[j])
    BY <1>5 DEF ChainInv, InLoop, Clean
  <2>3. /\ Len(rr') = Len(rr) + 1 /\ DOMAIN rr' = 1..Len(rr) + 1
        /\ \A j \in 1..Len(rr) : rr'[j] = rr[j]
        /\ rr'[Len(rr) + 1] = result /\ DOMAIN rr = 1..Len(rr) /\ Len(rr) \in Nat
    BY <1>2, <2>1
  <2>4. ASSUME NEW j \in DOMAIN rr' PROVE Clean(rr'[j])
    BY <2>1, <2>2, <2>3, j = Len(rr) + 1 \/ j \in 1..Len(rr)
  <2> QED BY <1>2, <1>5, <2>2, <2>3, <2>4
<1> QED BY <1>1, <1>3, <1>4, <1>5 DEF Keeps

\* In every reachable state the stages in hand are clean.
LEMMA ChainCorrect == Spec => []ChainInv
<1>1. Init => ChainInv
  BY DEF Init, ChainInv
<1> QED BY <1>1, ChainStep, TypeInit, TypeStep, BudgetInit, BudgetStep, PTL DEF Spec

\* run.go's test of SpendUSD: whatever kno charges, prints and fails at, a
\* stage recorded without an error has a spend no smaller than its charge.
THEOREM StagesAreAccounted == Spec => []CleanStageIsAccounted
<1>1. Init => CleanStageIsAccounted
  BY DEF Init, CleanStageIsAccounted
<1>2. TypeOK /\ BudgetInv /\ ChainInv /\ CleanStageIsAccounted /\ [Next]_vars
        => CleanStageIsAccounted'
  <2> SUFFICES ASSUME TypeOK, BudgetInv, ChainInv, CleanStageIsAccounted, [Next]_vars,
                      NEW i \in DOMAIN run'.repetitions,
                      NEW j \in DOMAIN run'.repetitions[i].stages
               PROVE  Accounted(run'.repetitions[i].stages[j])
    BY DEF CleanStageIsAccounted, Accounted, Reported
  <2>1. CASE Keeps
    BY <2>1 DEF Keeps, CleanStageIsAccounted
  <2>2. ASSUME NEW result \in StageResults, Records(result)
        PROVE  Accounted(run'.repetitions[i].stages[j])
    <3>1. CASE i \in 1..Len(run.repetitions)
      <4>1. i \in DOMAIN run.repetitions /\ run'.repetitions[i] = run.repetitions[i]
        BY <2>2, <3>1, RecordAfter
      <4> QED BY <4>1 DEF CleanStageIsAccounted
    <3>2. CASE i = Len(run.repetitions) + 1
      <4>1. j \in 1..Len(rr) + 1
        BY <2>2, <3>2, RecordAfter
      <4>2. CASE j \in 1..Len(rr)
        <5>1. run'.repetitions[i].stages[j] = rr[j]
          BY <2>2, <3>2, <4>2, RecordAfter
        <5>2. j \in DOMAIN rr
          BY <4>2 DEF TypeOK
        <5> QED BY <2>2, <5>1, <5>2 DEF ChainInv, Records, InLoop
      <4>3. CASE j = Len(rr) + 1
        <5>1. run'.repetitions[i].stages[j] = result
          BY <2>2, <3>2, <4>3, RecordAfter
        <5> QED BY <2>2, <5>1 DEF Records, Accounted
      <4> QED BY <4>1, <4>2, <4>3, Len(rr) \in Nat, <2>2, RecordAfter
    <3> QED BY <2>2, <3>1, <3>2, RecordAfter
  <2> QED BY <2>1, <2>2, RecordStep
<1> QED BY <1>1, <1>2, ChainCorrect, TypeCorrect, BudgetCorrect, PTL DEF Spec

\* run.go's rr.Error and the three places that leave the stage loop: a
\* repetition is recorded with the error of its last stage, and without one
\* its stages are whole unless the cap fired in it.
THEOREM RepetitionsAreWhole == Spec => []CleanRepetitionIsWhole
<1>1. Init => CleanRepetitionIsWhole
  BY DEF Init, CleanRepetitionIsWhole
<1>2. TypeOK /\ BudgetInv /\ ChainInv /\ CleanRepetitionIsWhole /\ [Next]_vars
        => CleanRepetitionIsWhole'
  <2> SUFFICES ASSUME TypeOK, BudgetInv, ChainInv, CleanRepetitionIsWhole, [Next]_vars
               PROVE  CleanRepetitionIsWhole'
    OBVIOUS
  <2>1. CASE Keeps
    BY <2>1 DEF Keeps, CleanRepetitionIsWhole, IsLast
  <2>2. ASSUME NEW result \in StageResults, Records(result)
        PROVE  CleanRepetitionIsWhole'
    <3> DEFINE last == Len(run.repetitions) + 1
               R == run'.repetitions
    <3>1. ~budget.aborted
      BY <2>2 DEF BudgetInv, Records, InLoop
    <3>2. /\ DOMAIN R = 1..last /\ Len(R) = last /\ last \in Nat
          /\ DOMAIN run.repetitions = 1..last - 1
      BY <2>2, RecordAfter
    <3>3. ASSUME NEW i \in 1..last - 1
          PROVE  /\ Len(R[i].stages) > 0
                 /\ R[i].error = R[i].stages[Len(R[i].stages)].error
                 /\ \A j \in 1..Len(R[i].stages) - 1 : R[i].stages[j].error = NoError
                 /\ ~(R[i].error = NoError
                      /\ Len(R[i].stages) < Len(Configs[R[i].config].stages))
      <4>1. R[i] = run.repetitions[i] /\ i \in DOMAIN run.repetitions
        BY <2>2, <3>2, <3>3, RecordAfter
      <4> QED BY <3>1, <4>1 DEF CleanRepetitionIsWhole
    <3>4. /\ Len(R[last].stages) = stg
          /\ R[last].stages[stg] = result
          /\ \A j \in 1..stg - 1 : R[last].stages[j].error = NoError
          /\ R[last].error = result.error /\ R[last].config = cfg
      <4>1. Len(rr) = stg - 1 /\ stg \in Nat /\ (\A j \in DOMAIN rr : rr[j].error = NoError)
            /\ DOMAIN rr = 1..Len(rr)
        BY <2>2 DEF ChainInv, Records, InLoop, TypeOK
      <4>2. /\ Len(R[last].stages) = Len(rr) + 1
            /\ R[last].stages[Len(rr) + 1] = result
            /\ \A j \in 1..Len(rr) : R[last].stages[j] = rr[j]
            /\ R[last].error = result.error /\ R[last].config = cfg
        BY <2>2, RecordAfter
      <4> HIDE DEF R, last
      <4>3. Len(rr) + 1 = stg
        BY <4>1
      <4> QED BY <4>1, <4>2, <4>3
    <3>5. result.error = NoError /\ stg < Len(Configs[cfg].stages) => budget'.aborted
      BY <2>2, ChargesAreBounded DEF Records, c, TypeOK, InLoop
    <3>6. stg \in Nat \ {0}
      BY DEF TypeOK
    <3> HIDE DEF R, last
    <3>7. /\ Len(R[last].stages) > 0
          /\ R[last].error = R[last].stages[Len(R[last].stages)].error
          /\ \A j \in 1..Len(R[last].stages) - 1 : R[last].stages[j].error = NoError
          /\ R[last].error = NoError
             /\ Len(R[last].stages) < Len(Configs[R[last].config].stages)
               => budget'.aborted
      BY <3>4, <3>5, <3>6
    <3>8. \A i \in DOMAIN R : i \in 1..last - 1 \/ i = last
      BY <3>2
    <3>9. \A i \in DOMAIN R :
            LET r == R[i]
                n == Len(r.stages)
            IN  /\ n > 0
                /\ r.error = r.stages[n].error
                /\ \A j \in 1..n-1 : r.stages[j].error = NoError
                /\ r.error = NoError /\ n < Len(Configs[r.config].stages) =>
                     budget'.aborted /\ i = Len(R)
      BY <3>2, <3>3, <3>7, <3>8
    <3> QED BY <3>9 DEF CleanRepetitionIsWhole, IsLast, R
  <2> QED BY <2>1, <2>2, RecordStep
<1> QED BY <1>1, <1>2, ChainCorrect, TypeCorrect, BudgetCorrect, PTL DEF Spec

-----------------------------------------------------------------------------
(* The books.                                                              *)

Spends(stages) == [j \in DOMAIN stages |-> SpentOn(stages[j])]
Bills(repetitions) == [i \in DOMAIN repetitions |-> SpentIn(repetitions[i].stages)]

\* The stages of a repetition were recorded to spend a number, and one stage
\* more adds its own.
LEMMA SpentOnType ==
  ASSUME NEW result \in StageResults
  PROVE  SpentOn(result) \in Int
BY DEF SpentOn, Reported, StageResults

LEMMA SpentInType ==
  ASSUME NEW stages \in Seq(StageResults)
  PROVE  Spends(stages) \in Seq(Int) /\ SpentIn(stages) \in Int
<1>1. \A r \in StageResults : SpentOn(r) \in Int
  BY SpentOnType
<1>2. Spends(stages) \in Seq(Int)
  BY <1>1 DEF Spends
<1>3. SpentIn(stages) = SumOf(Spends(stages))
  BY DEF SpentIn, Spends
<1> QED BY <1>2, <1>3, SumOfType

LEMMA SpentInAppend ==
  ASSUME NEW stages \in Seq(StageResults), NEW result \in StageResults
  PROVE  SpentIn(Append(stages, result)) = SpentIn(stages) + SpentOn(result)
<1>1. SpentOn(result) \in Int
  BY SpentOnType
<1>2. Spends(stages) \in Seq(Int)
  BY SpentInType
<1>3. Spends(Append(stages, result)) = Append(Spends(stages), SpentOn(result))
  BY DEF Spends
<1> QED BY <1>1, <1>2, <1>3, SumOfAppend DEF SpentIn, Spends

\* A repetition more adds what was spent in it.
LEMMA BillsType ==
  ASSUME NEW R \in Seq(Repetitions)
  PROVE  Bills(R) \in Seq(Int) /\ SumOf(Bills(R)) \in Int
<1>1. \A r \in Repetitions : SpentIn(r.stages) \in Int
  BY SpentInType DEF Repetitions
<1>2. Bills(R) \in Seq(Int)
  BY <1>1 DEF Bills
<1> QED BY <1>2, SumOfType

LEMMA BillsAppend ==
  ASSUME NEW R \in Seq(Repetitions), NEW x, x.stages \in Seq(StageResults)
  PROVE  SumOf(Bills(Append(R, x))) = SumOf(Bills(R)) + SpentIn(x.stages)
<1>1. Bills(R) \in Seq(Int) /\ SpentIn(x.stages) \in Int
  BY BillsType, SpentInType
<1>2. Bills(Append(R, x)) = Append(Bills(R), SpentIn(x.stages))
  BY DEF Bills
<1> QED BY <1>1, <1>2, SumOfAppend

\* What the record holds, and what the stages in hand add to it.
Booked == SumOf(Bills(run.repetitions)) + (IF InLoop THEN SpentIn(rr) ELSE 0)

\* A finished run is stamped with what the budget holds.
StampInv == pc = "done" => run.spentUSD = budget.spent

LEMMA StampStep == TypeOK /\ StampInv /\ [Next]_vars => StampInv'
<1> SUFFICES ASSUME TypeOK, StampInv, [Next]_vars, pc' = "done"
             PROVE  run'.spentUSD = budget'.spent
  BY DEF StampInv
<1>1. CASE Cancel \/ UNCHANGED vars \/ Terminated
  BY <1>1 DEF Cancel, vars, Terminated, StampInv
<1>2. CASE StopCancelled \/ StopOverBudget \/ ConfigSetupFails \/ EndOfMatrix \/ RepCancelled
  BY <1>2 DEF StopCancelled, StopOverBudget, ConfigSetupFails, EndOfMatrix, RepCancelled, Finish
<1>3. CASE StartConfig \/ LeaveConfig \/ BeginRep \/ Spawn
  BY <1>3 DEF StartConfig, LeaveConfig, BeginRep, Spawn
<1>4. CASE RefuseStage \/ SpawnFails \/ ExecFails \/ KnoFails \/ Unreadable
  BY <1>4 DEF RefuseStage, SpawnFails, ExecFails, KnoFails, Unreadable,
              FailRepetition, EndRepetition
<1>5. CASE Unaccounted
  BY <1>5 DEF Unaccounted, Finish
<1>6. CASE Books \/ Free
  BY <1>6 DEF Books, Free, OverCap, Accept, EndRepetition
<1> QED BY <1>1, <1>2, <1>3, <1>4, <1>5, <1>6 DEF Next, RunnerSteps, ChildReturns

\* Whatever is booked is recorded in the same step.
LEMMA BooksKept ==
  ASSUME TypeOK, BudgetInv, budget.spent = Booked, [Next]_vars
  PROVE  budget'.spent = Booked'
<1> DEFINE R == run.repetitions
<1>1. R \in Seq(Repetitions) /\ rr \in Seq(StageResults) /\ budget.spent \in Nat
  BY DEF TypeOK, Runs
<1>2. SpentIn(rr) \in Int /\ SumOf(Bills(R)) \in Int
  BY <1>1, SpentInType, BillsType
<1>3. Booked' = SumOf(Bills(run'.repetitions)) + (IF InLoop' THEN SpentIn(rr') ELSE 0)
  BY DEF Booked, Bills, SpentIn, SpentOn, Reported, InLoop
<1>4. CASE Keeps
  <2>1. run'.repetitions = R
    BY <1>4 DEF Keeps
  <2>2. CASE ~InLoop /\ budget'.spent = budget.spent /\ (InLoop' => rr' = <<>>)
    <3>1. SpentIn(<<>>) = 0
      BY SumOfEmpty DEF SpentIn
    <3> QED BY <1>2, <1>3, <2>1, <2>2, <3>1 DEF Booked
  <2>3. CASE InLoop /\ InLoop' /\ rr' = rr /\ budget'.spent = budget.spent
    BY <1>3, <2>1, <2>3 DEF Booked
  <2>4. ASSUME InLoop, InLoop', NEW result \in StageResults,
               rr' = Append(rr, result), budget'.spent = budget.spent + SpentOn(result)
        PROVE  budget'.spent = Booked'
    <3>1. SpentIn(rr') = SpentIn(rr) + SpentOn(result) /\ SpentOn(result) \in Int
      BY <1>1, <2>4, SpentInAppend, SpentOnType
    <3> QED BY <1>2, <1>3, <2>1, <2>4, <3>1 DEF Booked
  <2> QED BY <1>4, <2>2, <2>3, <2>4 DEF Keeps
<1>5. ASSUME NEW result \in StageResults, Records(result)
      PROVE  budget'.spent = Booked'
  <2> DEFINE x == [config |-> cfg, rep |-> rep, warmup |-> rep < c.warmups,
                   stages |-> Append(rr, result), error |-> result.error]
  <2>1. run'.repetitions = Append(R, x)
    BY <1>5 DEF Records, Recorded
  <2>2. x.stages = Append(rr, result) /\ x.stages \in Seq(StageResults)
    BY <1>1
  <2>3. SpentIn(x.stages) = SpentIn(rr) + SpentOn(result) /\ SpentOn(result) \in Int
    BY <1>1, <1>5, <2>2, SpentInAppend, SpentOnType
  <2> HIDE DEF x
  <2>4. SumOf(Bills(Append(R, x))) = SumOf(Bills(R)) + SpentIn(x.stages)
    BY <1>1, <2>2, BillsAppend
  <2> QED BY <1>2, <1>3, <1>5, <2>1, <2>3, <2>4 DEF Booked, Records
<1> QED BY <1>4, <1>5, RecordStep

\* budget.go's Add and run.go's rr.SpendUSD: for every matrix, limit and way
\* kno may answer, the aggregate the cap is tested against is the sum of the
\* spends in the record, and a finished run's spent_usd is that sum.
THEOREM BooksAreTheRecord == Spec => []BooksMatchRecord
<1>1. Init => budget.spent = Booked /\ StampInv
  <2> SUFFICES ASSUME Init PROVE budget.spent = Booked /\ StampInv
    OBVIOUS
  <2>1. run.repetitions = <<>> /\ budget.spent = 0 /\ pc = "Execute"
    BY DEF Init
  <2>2. Bills(run.repetitions) = <<>>
    BY <2>1 DEF Bills
  <2> QED BY <2>1, <2>2, SumOfEmpty DEF Booked, StampInv, InLoop
<1>2. TypeOK /\ BudgetInv /\ budget.spent = Booked /\ [Next]_vars => (budget.spent = Booked)'
  BY BooksKept
<1>3. TypeOK /\ budget.spent = Booked /\ StampInv => BooksMatchRecord
  <2> SUFFICES ASSUME TypeOK, budget.spent = Booked, StampInv PROVE BooksMatchRecord
    OBVIOUS
  <2>1. SumOf(Bills(run.repetitions)) \in Int
    BY BillsType DEF TypeOK, Runs
  <2> QED BY <2>1 DEF BooksMatchRecord, Booked, StampInv, Bills, InLoop
<1> QED BY <1>1, <1>2, <1>3, StampStep, TypeCorrect, BudgetCorrect, PTL DEF Spec

\* A clean stage is charged for no more than it was recorded to spend.
LEMMA CleanCostBooked ==
  ASSUME NEW result \in StageResults, Accounted(result)
  PROVE  CleanCost(result) \in Int /\ CleanCost(result) <= SpentOn(result)
BY DEF CleanCost, SpentOn, Accounted, Reported, StageResults, NoSpend

\* So are the stages of a repetition.
LEMMA CostBooked ==
  ASSUME NEW stages \in Seq(StageResults), \A j \in DOMAIN stages : Accounted(stages[j])
  PROVE  CostIn(stages) \in Int /\ CostIn(stages) <= SpentIn(stages)
<1> DEFINE costs == [j \in DOMAIN stages |-> CleanCost(stages[j])]
<1>1. Spends(stages) \in Seq(Int)
  BY SpentInType
<1>2. ASSUME NEW j \in DOMAIN stages
      PROVE  CleanCost(stages[j]) \in Int /\ CleanCost(stages[j]) <= Spends(stages)[j]
  <2>1. stages[j] \in StageResults /\ Accounted(stages[j])
    BY <1>2
  <2> QED BY <2>1, CleanCostBooked DEF Spends
<1>3. costs \in Seq(Int) /\ Len(costs) = Len(Spends(stages)) /\ DOMAIN costs = DOMAIN stages
  BY <1>2 DEF Spends
<1>4. \A k \in 1..Len(costs) : costs[k] <= Spends(stages)[k]
  BY <1>2, <1>3
<1> HIDE DEF costs
<1>5. SumOf(costs) \in Int /\ SumOf(costs) <= SumOf(Spends(stages))
  BY <1>1, <1>3, <1>4, SumOfType, SumOfMonotone
<1> QED BY <1>5 DEF CostIn, SpentIn, Spends, costs

\* Budget.Add and the tests of Aborted: however many capped invocations the
\* matrix holds, what the stages without an error were charged exceeds the
\* aggregate limit by at most one invocation's cap.
THEOREM OverspendIsBounded == Spec => []OverspendBounded
<1>1. TypeOK /\ BudgetInv /\ ChainInv /\ CleanStageIsAccounted /\ BooksMatchRecord => OverspendBounded
  <2> SUFFICES ASSUME TypeOK, BudgetInv, ChainInv, CleanStageIsAccounted, BooksMatchRecord,
                      BudgetUSD > 0
               PROVE  SumOf([i \in DOMAIN run.repetitions |-> CostIn(run.repetitions[i].stages)])
                        + (IF InLoop THEN CostIn(rr) ELSE 0) <= BudgetUSD + MaxCharge
    BY DEF OverspendBounded
  <2> DEFINE R == run.repetitions
             costs == [i \in DOMAIN R |-> CostIn(R[i].stages)]
  <2>1. R \in Seq(Repetitions) /\ rr \in Seq(StageResults) /\ budget.spent \in Nat
    BY DEF TypeOK, Runs
  <2>2. Bills(R) \in Seq(Int) /\ SumOf(Bills(R)) \in Int /\ SpentIn(rr) \in Int
    BY <2>1, BillsType, SpentInType
  <2>3. ASSUME NEW i \in DOMAIN R
        PROVE  CostIn(R[i].stages) \in Int /\ CostIn(R[i].stages) <= Bills(R)[i]
    <3>0. R[i] \in Repetitions
      BY <2>1, <2>3
    <3>1. R[i].stages \in Seq(StageResults)
      BY <3>0 DEF Repetitions
    <3>2. \A j \in DOMAIN R[i].stages : Accounted(R[i].stages[j])
      BY <2>3 DEF CleanStageIsAccounted
    <3> QED BY <2>3, <3>1, <3>2, CostBooked DEF Bills
  <2>4. costs \in Seq(Int) /\ Len(costs) = Len(Bills(R)) /\ DOMAIN costs = DOMAIN R
    <3>1. DOMAIN R = 1..Len(R) /\ Len(R) \in Nat
      BY <2>1
    <3>2. costs = [i \in 1..Len(R) |-> CostIn(R[i].stages)] /\ \A i \in 1..Len(R) : CostIn(R[i].stages) \in Int
      BY <2>3, <3>1
    <3>3. costs \in Seq(Int) /\ Len(costs) = Len(R)
      <4> HIDE DEF R
      <4> QED BY <3>1, <3>2
    <3>4. Len(Bills(R)) = Len(R)
      BY <3>1 DEF Bills
    <3> QED BY <3>3, <3>4
  <2>5. \A k \in 1..Len(costs) : costs[k] <= Bills(R)[k]
    BY <2>3, <2>4
  <2> HIDE DEF costs
  <2>6. SumOf(costs) \in Int /\ SumOf(costs) <= SumOf(Bills(R))
    BY <2>2, <2>4, <2>5, SumOfType, SumOfMonotone
  <2>7. InLoop => CostIn(rr) \in Int /\ CostIn(rr) <= SpentIn(rr)
    BY <2>1, CostBooked DEF ChainInv, InLoop
  <2>8. budget.spent = SumOf(Bills(R)) + (IF InLoop THEN SpentIn(rr) ELSE 0)
    BY DEF BooksMatchRecord, Bills
  <2>9. budget.spent <= BudgetUSD + MaxCharge /\ BudgetUSD \in Nat /\ MaxCharge \in Nat
    BY RunnerAssumption DEF BudgetInv
  <2>10. SumOf(costs) + (IF InLoop THEN CostIn(rr) ELSE 0) <= budget.spent
    <3>1. CASE InLoop
      BY <2>2, <2>6, <2>7, <2>8, <3>1
    <3>2. CASE ~InLoop
      BY <2>2, <2>6, <2>8, <3>2
    <3> QED BY <3>1, <3>2
  <2>11. SumOf(costs) + (IF InLoop THEN CostIn(rr) ELSE 0) \in Int
    BY <2>6, <2>7
  <2>12. SumOf(costs) + (IF InLoop THEN CostIn(rr) ELSE 0) <= BudgetUSD + MaxCharge
    BY <2>1, <2>9, <2>10, <2>11
  <2> QED BY <2>12 DEF costs
<1> QED BY <1>1, TypeCorrect, BudgetCorrect, ChainCorrect, StagesAreAccounted, BooksAreTheRecord, PTL

-----------------------------------------------------------------------------
(* What is missing from the record.                                        *)

\* What a configuration has recorded, read off the log.
LEMMA RecordedOfLog ==
  ASSUME NEW i \in DOMAIN Configs
  PROVE  RecordedOf(i) = {<<i, Log[k][2]>> : k \in {j \in DOMAIN Log : Log[j][1] = i}}
<1>1. DOMAIN Log = DOMAIN run.repetitions
  BY DEF Log
<1>2. \A j \in DOMAIN Log : /\ Log[j][1] = run.repetitions[j].config
                            /\ Log[j][2] = run.repetitions[j].rep
  BY DEF Log
<1> QED BY <1>1, <1>2 DEF RecordedOf

\* So it is in the state a step leads to.
LEMMA RecordedOfNewLog ==
  ASSUME NEW i \in DOMAIN Configs
  PROVE  RecordedOf(i)' = {<<i, Log'[k][2]>> : k \in {j \in DOMAIN Log' : Log'[j][1] = i}}
<1>1. DOMAIN Log' = DOMAIN run'.repetitions
  BY DEF Log
<1>2. \A j \in DOMAIN Log' : /\ Log'[j][1] = run'.repetitions[j].config
                             /\ Log'[j][2] = run'.repetitions[j].rep
  BY DEF Log
<1> QED BY <1>1, <1>2 DEF RecordedOf

\* A recorded repetition is one of its configuration's and of no other's.
LEMMA RecordedGrows ==
  ASSUME TypeOK, Log' = Append(Log, <<cfg, rep>>), NEW i \in DOMAIN Configs
  PROVE  RecordedOf(i)' = IF i = cfg THEN RecordedOf(i) \cup {<<cfg, rep>>}
                                     ELSE RecordedOf(i)
<1> DEFINE L == Log
           M == Log'
           n == Len(L)
           Of(s) == {<<i, s[k][2]>> : k \in {j \in DOMAIN s : s[j][1] = i}}
<1>1. L \in Seq(Nat \X Nat) /\ <<cfg, rep>> \in Nat \X Nat
  BY LogType DEF TypeOK
<1>2. n \in Nat /\ DOMAIN L = 1..n
  BY <1>1
<1>3. M = [k \in 1..n + 1 |-> IF k = n + 1 THEN <<cfg, rep>> ELSE L[k]]
  <2> HIDE DEF L
  <2> QED BY <1>1, AppendIsFunction DEF L
<1>4. RecordedOf(i) = Of(L)
  BY RecordedOfLog
<1>5. RecordedOf(i)' = Of(M)
  BY RecordedOfNewLog
<1> HIDE DEF L, M, n
<1>6. DOMAIN M = 1..n + 1 /\ M[n + 1] = <<cfg, rep>> /\ \A k \in 1..n : M[k] = L[k]
  BY <1>2, <1>3
<1>7. CASE i = cfg
  <2>1. Of(M) \subseteq Of(L) \cup {<<cfg, rep>>}
    BY <1>2, <1>6, <1>7
  <2>2. Of(L) \subseteq Of(M)
    BY <1>2, <1>6
  <2>3. <<cfg, rep>> \in Of(M)
    BY <1>2, <1>6, <1>7
  <2> QED BY <1>4, <1>5, <1>7, <2>1, <2>2, <2>3
<1>8. CASE i # cfg
  <2>1. Of(M) \subseteq Of(L)
    BY <1>2, <1>6, <1>8
  <2>2. Of(L) \subseteq Of(M)
    BY <1>2, <1>6
  <2> QED BY <1>4, <1>5, <1>8, <2>1, <2>2
<1> QED BY <1>7, <1>8

\* What a configuration has recorded stays when the log does.
LEMMA RecordedStays ==
  ASSUME Log' = Log, NEW i \in DOMAIN Configs
  PROVE  RecordedOf(i)' = RecordedOf(i)
BY RecordedOfLog, RecordedOfNewLog

\* How a run ends: before a configuration, in one, or after the last.
Stops ==
  /\ run'.budgetAborted = budget.aborted
  /\ \/ pc = "Execute" /\ run'.partial /\ run'.reason.from = cfg
     \/ run'.partial /\ run'.reason.kind = "failed" /\ run'.reason.from = cfg + 1
     \/ pc = "Execute" /\ cfg \notin DOMAIN Configs /\ run'.partial = run.partial

\* Every step that ends the run stamps it in one of those ways.
LEMMA StopStep ==
  ASSUME TypeOK, [Next]_vars, pc # "done", pc' = "done"
  PROVE  Stops
<1>1. CASE Cancel \/ UNCHANGED vars \/ Spawn \/ StartConfig \/ LeaveConfig \/ BeginRep
  BY <1>1 DEF Cancel, vars, Spawn, StartConfig, LeaveConfig, BeginRep
<1>2. CASE StopCancelled \/ StopOverBudget
  BY <1>2 DEF StopCancelled, StopOverBudget, AtConfiguration, Finish, Stops
<1>3. CASE ConfigSetupFails \/ RepCancelled
  BY <1>3 DEF ConfigSetupFails, RepCancelled, Finish, Stops
<1>4. CASE EndOfMatrix
  BY <1>4 DEF EndOfMatrix, Finish, Stops
<1>5. CASE RefuseStage \/ SpawnFails \/ ExecFails \/ KnoFails \/ Unreadable
  BY <1>5 DEF RefuseStage, SpawnFails, ExecFails, KnoFails, Unreadable,
              FailRepetition, EndRepetition
<1>6. CASE Unaccounted
  <2>1. PICK cost \in Charges :
          Finish(Recorded(Append(rr, Result("unaccounted", NoSpend, NoID, cost)),
                          "unaccounted"),
                 TRUE, [kind |-> "failed", from |-> cfg + 1])
    BY <1>6 DEF Unaccounted
  <2>2. run'.partial /\ run'.reason = [kind |-> "failed", from |-> cfg + 1]
        /\ run'.budgetAborted = budget.aborted
    BY <2>1 DEF Finish
  <2> QED BY <2>2 DEF Stops
<1>7. CASE Books \/ Free
  BY <1>7 DEF Books, Free, OverCap, Accept, EndRepetition
<1> QED BY <1>1, <1>2, <1>3, <1>4, <1>5, <1>6, <1>7
        DEF Next, RunnerSteps, ChildReturns, Terminated

MissingInv == PlaceInv /\ ReasonIsExact /\ MissingIsMarked

\* A step that ends the run in the loop over the configurations, or before a
\* repetition, leaves the record as it is.
LEMMA MissingWhenClosed ==
  ASSUME TypeOK, MissingInv, [Next]_vars, Closes
  PROVE  MissingInv'
<1>1. Stops
  BY StopStep DEF Closes
<1>2. \A i \in DOMAIN Configs : RecordedOf(i)' = RecordedOf(i) /\ PlannedOf(i)' = PlannedOf(i)
  BY RecordedStays DEF Closes, PlannedOf
<1>3. cfg \in 1..Len(Configs) + 1 /\ DOMAIN Configs = 1..Len(Configs) /\ Len(Configs) \in Nat
  BY RunnerAssumption DEF TypeOK
<1>4. /\ ~run.partial
      /\ \A i \in DOMAIN Configs :
           /\ i > cfg \/ (i = cfg /\ pc = "Execute") => RecordedOf(i) = {}
           /\ ~budget.aborted /\ i < cfg => RecordedOf(i) = PlannedOf(i)
  BY DEF MissingInv, PlaceInv, Closes
<1>5. ASSUME run'.partial, NEW i \in DOMAIN Configs
      PROVE  /\ i >= run'.reason.from => RecordedOf(i)' = {}
             /\ i < run'.reason.from /\ ~run'.budgetAborted =>
                  \/ RecordedOf(i)' = PlannedOf(i)'
                  \/ run'.reason.kind = "failed" /\ i = run'.reason.from - 1
  <2>1. run'.budgetAborted = budget.aborted
    BY <1>1 DEF Stops
  <2>2. CASE pc = "Execute" /\ run'.reason.from = cfg
    BY <1>2, <1>3, <1>4, <2>1, <2>2
  <2>3. CASE run'.reason.kind = "failed" /\ run'.reason.from = cfg + 1
    BY <1>2, <1>3, <1>4, <2>1, <2>3
  <2> QED BY <1>1, <1>4, <1>5, <2>2, <2>3 DEF Stops
<1>6. ASSUME ~run'.partial, ~run'.budgetAborted, NEW i \in DOMAIN Configs
      PROVE  RecordedOf(i)' = PlannedOf(i)'
  <2>1. cfg \notin DOMAIN Configs /\ ~budget.aborted
    BY <1>1, <1>6 DEF Stops
  <2> QED BY <1>2, <1>3, <1>4, <2>1
<1>7. pc' = "done"
  BY DEF Closes
<1> QED BY <1>5, <1>6, <1>7 DEF MissingInv, PlaceInv, ReasonIsExact, MissingIsMarked

\* A paid stage that reports nothing ends the run in the middle of its
\* configuration, which is the one the reason names.
LEMMA MissingWhenUnaccounted ==
  ASSUME TypeOK, MissingInv, [Next]_vars, EndsInError
  PROVE  MissingInv'
<1>1. run'.partial /\ run'.reason.kind = "failed" /\ run'.reason.from = cfg + 1
      /\ run'.budgetAborted = budget.aborted
  BY StopStep DEF EndsInError, Stops
<1>2. \A i \in DOMAIN Configs :
        /\ i # cfg => RecordedOf(i)' = RecordedOf(i)
        /\ PlannedOf(i)' = PlannedOf(i)
  BY RecordedGrows DEF EndsInError, PlannedOf
<1>3. cfg \in 1..Len(Configs) + 1 /\ DOMAIN Configs = 1..Len(Configs) /\ Len(Configs) \in Nat
  BY RunnerAssumption DEF TypeOK
<1>4. \A i \in DOMAIN Configs :
        /\ i > cfg => RecordedOf(i) = {}
        /\ ~budget.aborted /\ i < cfg => RecordedOf(i) = PlannedOf(i)
  BY DEF MissingInv, PlaceInv, EndsInError
<1>5. ASSUME NEW i \in DOMAIN Configs
      PROVE  /\ i >= run'.reason.from => RecordedOf(i)' = {}
             /\ i < run'.reason.from /\ ~run'.budgetAborted =>
                  \/ RecordedOf(i)' = PlannedOf(i)'
                  \/ run'.reason.kind = "failed" /\ i = run'.reason.from - 1
  BY <1>1, <1>2, <1>3, <1>4
<1>6. pc' = "done"
  BY DEF EndsInError
<1> QED BY <1>1, <1>5, <1>6 DEF MissingInv, PlaceInv, ReasonIsExact, MissingIsMarked

\* The loops move forward over what is recorded and never past it.
LEMMA MissingStep == TypeOK /\ BudgetInv /\ MissingInv /\ [Next]_vars => MissingInv'
<1> SUFFICES ASSUME TypeOK, BudgetInv, MissingInv, [Next]_vars PROVE MissingInv'
  OBVIOUS
<1>0. /\ cfg \in 1..Len(Configs) + 1 /\ rep \in Nat
      /\ DOMAIN Configs = 1..Len(Configs) /\ Len(Configs) \in Nat
  BY RunnerAssumption DEF TypeOK
<1>1. pc # "done" =>
        /\ ~run.partial
        /\ \A i \in DOMAIN Configs :
             /\ i > cfg \/ (i = cfg /\ pc = "Execute") => RecordedOf(i) = {}
             /\ ~budget.aborted =>
                  /\ i < cfg => RecordedOf(i) = PlannedOf(i)
                  /\ i = cfg /\ pc # "Execute" => RecordedOf(i) = {<<i, n>> : n \in 0..rep-1}
  BY DEF MissingInv, PlaceInv
<1>2. \A i \in DOMAIN Configs :
        /\ PlannedOf(i)' = PlannedOf(i)
        /\ Log' = Log => RecordedOf(i)' = RecordedOf(i)
  BY RecordedStays DEF PlannedOf
<1>3. SUFFICES ASSUME ~Closes, ~EndsInError PROVE MissingInv'
  BY MissingWhenClosed, MissingWhenUnaccounted
<1>4. CASE Idles
  <2>1. Log' = Log
    BY <1>4 DEF Idles, Log
  <2>2. PlaceInv'
    BY <1>1, <1>2, <1>4, <2>1 DEF Idles, PlaceInv
  <2>3. ReasonIsExact'
    BY <1>2, <1>4, <2>1 DEF Idles, MissingInv, ReasonIsExact
  <2>4. MissingIsMarked'
    BY <1>2, <1>4, <2>1 DEF Idles, MissingInv, MissingIsMarked
  <2> QED BY <2>2, <2>3, <2>4 DEF MissingInv
<1>5. ASSUME pc # "done", pc' # "done", ~run'.partial,
             \A i \in DOMAIN Configs :
               /\ i > cfg' \/ (i = cfg' /\ pc' = "Execute") => RecordedOf(i)' = {}
               /\ ~budget'.aborted =>
                    /\ i < cfg' => RecordedOf(i)' = PlannedOf(i)'
                    /\ i = cfg' /\ pc' # "Execute" =>
                         RecordedOf(i)' = {<<i, n>> : n \in 0..rep'-1}
      PROVE  MissingInv'
  BY <1>5 DEF MissingInv, PlaceInv, ReasonIsExact, MissingIsMarked
<1>6. CASE StartConfig
  <2>1. /\ cfg' = cfg /\ rep' = 0 /\ pc = "Execute" /\ pc' = "runConfig"
        /\ run' = run /\ budget' = budget /\ Log' = Log
    BY <1>6 DEF StartConfig, MayStart, AtConfiguration, Log
  <2>2. \A i \in DOMAIN Configs : {<<i, n>> : n \in 0..rep'-1} = {}
    BY <2>1
  <2> QED BY <1>1, <1>2, <1>5, <2>1, <2>2
<1>7. CASE LeaveConfig
  <2>1. /\ cfg' = cfg + 1 /\ rep' = 0 /\ pc = "runConfig" /\ pc' = "Execute"
        /\ run' = run /\ budget' = budget /\ Log' = Log
        /\ ~budget.aborted => rep >= Total(cfg)
        /\ cfg \in DOMAIN Configs /\ rep <= Total(cfg) /\ Total(cfg) \in Nat
    BY <1>7, TotalType DEF LeaveConfig, TypeOK, Log
  <2>2. ~budget.aborted => rep = Total(cfg)
    BY <1>0, <2>1
  <2>3. ~budget.aborted => RecordedOf(cfg) = PlannedOf(cfg)
    BY <1>1, <2>1, <2>2 DEF PlannedOf
  <2>4. ASSUME NEW i \in DOMAIN Configs
        PROVE  /\ i > cfg' \/ (i = cfg' /\ pc' = "Execute") => RecordedOf(i)' = {}
               /\ ~budget'.aborted /\ i < cfg' => RecordedOf(i)' = PlannedOf(i)'
    <3>1. (i > cfg' \/ i = cfg' => i > cfg) /\ (i < cfg' => i < cfg \/ i = cfg)
      BY <1>0, <2>1
    <3> QED BY <1>1, <1>2, <2>1, <2>3, <3>1
  <2> QED BY <1>1, <1>5, <2>1, <2>4
<1>8. CASE BeginRep
  <2>1. /\ cfg' = cfg /\ rep' = rep /\ pc = "runConfig" /\ pc' = "runStage"
        /\ run' = run /\ budget' = budget /\ Log' = Log
    BY <1>8 DEF BeginRep, MayRepeat, AtRepetition, Log
  <2> QED BY <1>1, <1>2, <1>5, <2>1
<1>9. CASE GoesOn
  <2>1. /\ cfg' = cfg /\ rep' = rep /\ InLoop /\ InLoop'
        /\ run' = run /\ Log' = Log /\ ~budget.aborted
    BY <1>9 DEF GoesOn, Log, BudgetInv, InLoop
  <2> QED BY <1>1, <1>2, <1>5, <2>1 DEF InLoop
<1>10. CASE EndsRepetition
  <2>1. /\ cfg' = cfg /\ rep' = rep + 1 /\ InLoop /\ pc' = "runConfig"
        /\ run'.partial = run.partial /\ Log' = Append(Log, <<cfg, rep>>)
        /\ ~budget.aborted
    BY <1>10 DEF EndsRepetition, BudgetInv, InLoop
  <2>2. ASSUME NEW i \in DOMAIN Configs, i # cfg PROVE RecordedOf(i)' = RecordedOf(i)
    BY <2>1, <2>2, RecordedGrows
  <2>3. ASSUME cfg \in DOMAIN Configs
        PROVE  RecordedOf(cfg)' = {<<cfg, n>> : n \in 0..rep'-1}
    <3>1. \A i \in DOMAIN Configs : i = cfg =>
            RecordedOf(i)' = RecordedOf(i) \cup {<<cfg, rep>>}
      BY <2>1, RecordedGrows
    <3>2. RecordedOf(cfg) = {<<cfg, n>> : n \in 0..rep-1}
      BY <1>1, <2>1, <2>3 DEF InLoop
    <3>3. 0..rep'-1 = (0..rep-1) \cup {rep}
      BY <1>0, <2>1
    <3>4. {<<cfg, n>> : n \in 0..rep'-1} = {<<cfg, n>> : n \in 0..rep-1} \cup {<<cfg, rep>>}
      BY <3>3
    <3> QED BY <2>1, <2>3, <3>1, <3>2, <3>4
  <2>4. ASSUME NEW i \in DOMAIN Configs, i = cfg
        PROVE  RecordedOf(i)' = {<<i, n>> : n \in 0..rep'-1}
    BY <1>0, <1>1, <2>1, <2>3, <2>4
  <2>5. ASSUME NEW i \in DOMAIN Configs
        PROVE  /\ i > cfg' => RecordedOf(i)' = {}
               /\ i < cfg' => RecordedOf(i)' = PlannedOf(i)'
    <3>1. CASE i > cfg
      BY <1>0, <1>1, <2>1, <2>2, <3>1 DEF InLoop
    <3>2. CASE i < cfg
      <4>1. RecordedOf(i) = PlannedOf(i)
        BY <1>1, <2>1, <3>2 DEF InLoop
      <4>2. RecordedOf(i)' = RecordedOf(i) /\ PlannedOf(i)' = PlannedOf(i)
        BY <1>0, <1>2, <2>2, <3>2
      <4> QED BY <1>0, <2>1, <3>2, <4>1, <4>2
    <3> QED BY <1>0, <2>1, <3>1, <3>2
  <2> QED BY <1>1, <1>5, <2>1, <2>4, <2>5 DEF InLoop
<1> QED BY <1>3, <1>4, <1>6, <1>7, <1>8, <1>9, <1>10, SweepStep

\* In every reachable state the loops' position splits the plan.
LEMMA MissingCorrect == Spec => []MissingInv
<1>1. Init => MissingInv
  BY RunnerAssumption DEF Init, MissingInv, PlaceInv, ReasonIsExact, MissingIsMarked, RecordedOf
<1> QED BY <1>1, MissingStep, TypeInit, TypeStep, BudgetInit, BudgetStep, PTL DEF Spec

\* run.go's PartialReason: the configurations it names did not execute, and
\* unless the cap fired those before them are complete but for the failed one.
THEOREM ReasonsAreExact == Spec => []ReasonIsExact
<1>1. MissingInv => ReasonIsExact
  BY DEF MissingInv
<1> QED BY <1>1, MissingCorrect, PTL

\* Execute's marks: whatever kno, the operator and the budget do, a finished
\* run that lacks a planned repetition is Partial or BudgetAborted.
THEOREM NothingIsDroppedSilently == Spec => []MissingIsMarked
<1>1. MissingInv => MissingIsMarked
  BY DEF MissingInv
<1> QED BY <1>1, MissingCorrect, PTL
=============================================================================
