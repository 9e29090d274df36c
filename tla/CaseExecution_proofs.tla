-------------------------- MODULE CaseExecution_proofs --------------------------
(***************************************************************************)
(* What the store, the API and an attempt at a case preserve, whichever    *)
(* engine runs the attempt: the lemmas the proofs about both engines share.*)
(***************************************************************************)
EXTENDS CaseExecution, FiniteSetTheorems, TLAPS

(* The tally of any case table is a record of natural numbers.             *)
LEMMA SummarizeCasesType ==
  ASSUME NEW cs
  PROVE  SummarizeCases(cs) \in CaseAggregates
<1>1. \A S \in SUBSET Cases : Cardinality(S) \in Nat
  BY CasesAssumption, FS_Subset, FS_CardinalityType
<1>2. QED
  BY <1>1 DEF SummarizeCases, CaseAggregates

LEMMA FinalVerdictType ==
  ASSUME NEW agg
  PROVE  FinalVerdict(agg) \in RunVerdicts
BY DEF FinalVerdict, RunVerdicts

USE DEF NoAggregates, NoAverages

LEMMA NewRowsType ==
  /\ NewRun("pending") \in RunRows
  /\ NoRun \in RunRows
  /\ NewCase("pending") \in CaseRows
  /\ NoCase \in CaseRows
  /\ ErrorRow \in CaseRows
  /\ RunningRow \in CaseRows
  /\ \A r \in Results : CompletedRow(r) \in CaseRows
BY ExecutionAssumption
   DEF NewRun, NoRun, NewCase, NoCase, ErrorRow, RunningRow, CompletedRow, CaseResults,
       RunRows, RunStates, RunVerdicts, CaseAggregates,
       CaseRows, CaseStatuses, CaseOutcomes, CaseVerdicts

-----------------------------------------------------------------------------
(* Every write of the store keeps the tables well-typed.                   *)

LEMMA UpdateRunStateType ==
  ASSUME StoreTypeOK, NEW s \in RunStates, UpdateRunState(s)
  PROVE  StoreTypeOK'
BY DEF StoreTypeOK, UpdateRunState, RunRows

LEMMA UpdateRunAggregatesType ==
  ASSUME StoreTypeOK, NEW agg \in CaseAggregates, NEW verdict \in RunVerdicts,
         NEW s \in RunStates, NEW averaged \in [Cases -> Nat],
         UpdateRunAggregates(agg, verdict, s, averaged)
  PROVE  StoreTypeOK'
BY DEF StoreTypeOK, UpdateRunAggregates, RunRows

(* What update_run_aggregates leaves in the row.                           *)
LEMMA AggregatesWritten ==
  ASSUME StoreTypeOK, RunExists, NEW agg, NEW verdict, NEW s, NEW averaged,
         UpdateRunAggregates(agg, verdict, s, averaged)
  PROVE  /\ run'.state = s /\ run'.agg = agg
         /\ run'.verdict = verdict /\ run'.averaged = averaged
<1> DEFINE stamped == run.completed_at \/ s \in {"completed", "failed"}
<1>1. run' = [run EXCEPT !.agg = agg, !.verdict = verdict, !.state = s,
                         !.averaged = averaged, !.completed_at = stamped]
  BY DEF UpdateRunAggregates
<1> HIDE DEF stamped
<1>2. QED
  BY <1>1 DEF StoreTypeOK, RunRows

LEMMA UpdateCaseResultType ==
  ASSUME StoreTypeOK, NEW c \in Cases, NEW row \in CaseRows, UpdateCaseResult(c, row)
  PROVE  StoreTypeOK'
BY DEF StoreTypeOK, UpdateCaseResult

LEMMA MetricWritesType ==
  ASSUME StoreTypeOK, NEW c \in Cases, DeleteMetricsByCase(c) \/ CreateMetricResult(c)
  PROVE  StoreTypeOK'
<1>1. metrics' \in [Cases -> Nat]
  <2>1. CASE DeleteMetricsByCase(c)
    BY <2>1 DEF StoreTypeOK, DeleteMetricsByCase
  <2>2. CASE CreateMetricResult(c)
    BY <2>2 DEF StoreTypeOK, CreateMetricResult
  <2>3. QED  BY <2>1, <2>2
<1>2. UNCHANGED <<run, cases, runEvents, caseEvents>>
  BY DEF DeleteMetricsByCase, CreateMetricResult
<1>3. QED
  BY <1>1, <1>2 DEF StoreTypeOK

LEMMA CreateRunEventType ==
  ASSUME StoreTypeOK, NEW kind \in {"run_started", "run_completed", "run_failed"},
         CreateRunEvent(kind)
  PROVE  StoreTypeOK'
BY DEF StoreTypeOK, CreateRunEvent

LEMMA CreateCaseEventType ==
  ASSUME StoreTypeOK, NEW c \in Cases, NEW kind \in {"case_completed", "case_error"},
         CreateCaseEvent(c, kind)
  PROVE  StoreTypeOK'
BY DEF StoreTypeOK, CreateCaseEvent

LEMMA CreateRowsType ==
  ASSUME StoreTypeOK, NEW c \in Cases, CreateRun \/ CreateCase(c)
  PROVE  StoreTypeOK'
BY NewRowsType DEF StoreTypeOK, CreateRun, CreateCase

LEMMA DeleteRunType ==
  ASSUME DeleteRun
  PROVE  StoreTypeOK'
BY NewRowsType DEF StoreTypeOK, DeleteRun

LEMMA StoreUnchangedType ==
  ASSUME StoreTypeOK, UNCHANGED db
  PROVE  StoreTypeOK'
BY DEF StoreTypeOK, db

-----------------------------------------------------------------------------
(* Every step of the API process and of an attempt does.                   *)

USE DEF api, execution

LEMMA ApiRowsType ==
  ASSUME StoreTypeOK, ApiTypeOK, ApiStep
  PROVE  StoreTypeOK' /\ ApiTypeOK'
<1> USE DEF ApiTypeOK, LaunchStates, RequestStates
<1>1. CASE StartRun
  <2>1. PICK c \in Cases : TRUE
    BY CasesAssumption
  <2>2. StoreTypeOK'
    BY <1>1, <2>1, CreateRowsType DEF StartRun
  <2>3. QED
    BY <1>1, <2>2 DEF StartRun
<1>2. CASE \E c \in Cases : StartRunCreatesCase(c)
  BY <1>2, CreateRowsType DEF StartRunCreatesCase
<1>3. CASE StartRunFails
  BY <1>3, StoreUnchangedType DEF StartRunFails
<1>4. CASE \E r \in Cancels : CancelChecks(r)
  BY <1>4, StoreUnchangedType DEF CancelChecks
<1>5. CASE \E r \in Cancels : CancelWrites(r)
  BY <1>5, UpdateRunStateType DEF CancelWrites, RunStates
<1>6. CASE \E r \in Deletes : DeleteChecks(r)
  BY <1>6, StoreUnchangedType DEF DeleteChecks
<1>7. CASE \E r \in Deletes : DeleteWrites(r)
  BY <1>7, DeleteRunType DEF DeleteWrites
<1>8. QED
  BY <1>1, <1>2, <1>3, <1>4, <1>5, <1>6, <1>7 DEF ApiStep

(* A step of an attempt that only moves pc keeps the execution well-typed. *)
LEMMA GotoType ==
  ASSUME ExecutionTypeOK, NEW a \in Attempts, UNCHANGED todo,
         NEW s \in (InnerSteps \cup EngineSteps) \ {"insert"}, Goto(a, s)
  PROVE  ExecutionTypeOK'
BY DEF ExecutionTypeOK, Goto

LEMMA ExecuteAndScoreCaseType ==
  ASSUME StoreTypeOK, ApiTypeOK, ExecutionTypeOK,
         NEW a \in Attempts, ExecuteAndScoreCase(a)
  PROVE  StoreTypeOK' /\ ApiTypeOK' /\ ExecutionTypeOK'
<1>0. a[1] \in Cases
  BY DEF Attempts
<1>1. ApiTypeOK'
  BY DEF ExecuteAndScoreCase, MarkCaseRunning, AgentFails, WriteCaseResult, ClearMetrics,
         InsertMetric, EmitCaseEvent, ExecutionRaises, ApiTypeOK
<1>2. CASE MarkCaseRunning(a)
  <2>1. StoreTypeOK'
    BY <1>0, <1>2, NewRowsType, UpdateCaseResultType DEF MarkCaseRunning
  <2>2. ExecutionTypeOK'
    BY <1>2, GotoType DEF MarkCaseRunning, InnerSteps
  <2>3. QED
    BY <1>1, <2>1, <2>2
<1>3. CASE AgentFails(a)
  <2>1. StoreTypeOK'
    BY <1>0, <1>3, NewRowsType, UpdateCaseResultType DEF AgentFails
  <2>2. ExecutionTypeOK'
    BY <1>3, GotoType DEF AgentFails, InnerSteps
  <2>3. QED
    BY <1>1, <2>1, <2>2
<1>4. CASE WriteCaseResult(a)
  <2>1. StoreTypeOK'
    BY <1>0, <1>4, NewRowsType, UpdateCaseResultType DEF WriteCaseResult
  <2>2. PICK n \in 0..MaxMetrics : todo' = [todo EXCEPT ![a] = n]
    BY <1>4 DEF WriteCaseResult
  <2>3. pc' = [pc EXCEPT ![a] = "clear"]
    BY <1>4 DEF WriteCaseResult, Goto
  <2>4. ExecutionTypeOK'
    BY <2>2, <2>3 DEF ExecutionTypeOK, InnerSteps
  <2>5. QED
    BY <1>1, <2>1, <2>4
<1>5. CASE ClearMetrics(a)
  <2>1. StoreTypeOK'
    BY <1>0, <1>5, MetricWritesType DEF ClearMetrics
  <2>2. todo[a] \in 0..MaxMetrics
    BY DEF ExecutionTypeOK
  <2>3. CASE todo[a] = 0
    BY <1>1, <1>5, <2>1, <2>3, GotoType DEF ClearMetrics, InnerSteps
  <2>4. CASE todo[a] # 0
    <3>1. todo' = todo /\ pc' = [pc EXCEPT ![a] = "insert"]
      BY <1>5, <2>4 DEF ClearMetrics, Goto
    <3>2. todo[a] > 0
      BY <2>2, <2>4, ExecutionAssumption
    <3>3. ExecutionTypeOK'
      BY <3>1, <3>2 DEF ExecutionTypeOK, InnerSteps
    <3>4. QED
      BY <1>1, <2>1, <3>3
  <2>5. QED
    BY <2>3, <2>4
<1>6. CASE InsertMetric(a)
  <2>1. StoreTypeOK'
    BY <1>0, <1>6, MetricWritesType DEF InsertMetric
  <2>2. todo[a] \in 1..MaxMetrics
    BY <1>6, ExecutionAssumption DEF InsertMetric, ExecutionTypeOK
  <2>3. todo' = [todo EXCEPT ![a] = todo[a] - 1]
    BY <1>6 DEF InsertMetric
  <2>4. todo[a] - 1 \in 0..MaxMetrics
    BY <2>2, ExecutionAssumption
  <2>5. todo' \in [Attempts -> 0..MaxMetrics]
    BY <2>3, <2>4 DEF ExecutionTypeOK
  <2>6. pc' \in [Attempts -> InnerSteps \cup EngineSteps]
    BY <1>6 DEF InsertMetric, Goto, ExecutionTypeOK, InnerSteps
  <2>7. ASSUME NEW b \in Attempts, pc'[b] = "insert" PROVE todo'[b] > 0
    <3>1. CASE b = a
      <4>1. todo[a] # 1
        BY <1>6, <2>7, <3>1 DEF InsertMetric, Goto, ExecutionTypeOK
      <4>2. QED
        BY <2>2, <2>3, <3>1, <4>1, ExecutionAssumption DEF ExecutionTypeOK
    <3>2. CASE b # a
      BY <1>6, <2>3, <2>7, <3>2 DEF InsertMetric, Goto, ExecutionTypeOK
    <3>3. QED
      BY <3>1, <3>2
  <2>8. QED
    BY <1>1, <2>1, <2>5, <2>6, <2>7 DEF ExecutionTypeOK
<1>7. CASE EmitCaseEvent(a)
  <2>1. StoreTypeOK'
    BY <1>0, <1>7, CreateCaseEventType DEF EmitCaseEvent
  <2>2. ExecutionTypeOK'
    BY <1>7, GotoType DEF EmitCaseEvent, EngineSteps
  <2>3. QED
    BY <1>1, <2>1, <2>2
<1>8. CASE ExecutionRaises(a)
  <2>1. StoreTypeOK'
    BY <1>8, StoreUnchangedType DEF ExecutionRaises
  <2>2. 0 \in 0..MaxMetrics
    BY ExecutionAssumption
  <2>3. pc' = [pc EXCEPT ![a] = "raised"] /\ todo' = [todo EXCEPT ![a] = 0]
    BY <1>8 DEF ExecutionRaises, Goto
  <2>4. ExecutionTypeOK'
    BY <2>2, <2>3 DEF ExecutionTypeOK, EngineSteps
  <2>5. QED
    BY <1>1, <2>1, <2>4
<1>9. QED
  BY <1>2, <1>3, <1>4, <1>5, <1>6, <1>7, <1>8 DEF ExecuteAndScoreCase
=============================================================================
