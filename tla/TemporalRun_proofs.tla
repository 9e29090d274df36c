-------------------------- MODULE TemporalRun_proofs --------------------------
(***************************************************************************)
(* Theorems about TemporalRun for every set of cases, every bound on       *)
(* attempts and concurrency, and every set of API requests.                *)
(***************************************************************************)
EXTENDS TemporalRun, CaseExecution_proofs

-----------------------------------------------------------------------------
(* Type correctness, one lemma per group of actions.                       *)

USE DEF NoAggregates, NoAverages, api, execution, activity, gather, engine

LEMMA InitType == Init => TypeOK
<1> SUFFICES ASSUME Init PROVE TypeOK
  OBVIOUS
<1>1. StoreTypeOK
  BY NewRowsType DEF Init, InitStore, StoreTypeOK
<1>2. ApiTypeOK
  BY DEF Init, InitApi, ApiTypeOK, LaunchStates, RequestStates
<1>3. ExecutionTypeOK
  BY ExecutionAssumption
     DEF Init, InitExecution, ExecutionTypeOK, InnerSteps, EngineSteps
<1>4. /\ wf \in WfStates
      /\ step \in Steps
      /\ tries \in 0..ShortAttempts
      /\ tally \in CaseAggregates
      /\ scored \in [Cases -> Nat]
      /\ sched \in [Cases -> CaseStates]
      /\ attempt \in [Cases -> 0..CaseAttempts]
      /\ permits \in Nat
      /\ seen \in [Attempts -> CaseAggregates]
  BY ExecutionAssumption, TemporalAssumption
     DEF Init, WfStates, Steps, CaseStates, CaseAggregates
<1>5. QED
  BY <1>1, <1>2, <1>3, <1>4 DEF TypeOK

LEMMA ApiStepType ==
  ASSUME TypeOK, ApiStep, UNCHANGED <<execution, engine>>
  PROVE  TypeOK'
BY ApiRowsType DEF TypeOK, ExecutionTypeOK

(* Awaiting an activity leaves its bookkeeping well-typed.                 *)
LEMMA AwaitType ==
  ASSUME NEW w \in WfStates, Await(w)
  PROVE  /\ wf' \in WfStates
         /\ step' \in Steps
         /\ tries' \in 0..ShortAttempts
         /\ tally' \in CaseAggregates
         /\ scored' \in [Cases -> Nat]
BY TemporalAssumption
   DEF Await, FirstStep, WfStates, Activities, Steps, CaseAggregates

LEMMA StartWorkflowType ==
  ASSUME TypeOK, StartWorkflow \/ StartWorkflowFails
  PROVE  TypeOK'
<1>1. StoreTypeOK'
  BY StoreUnchangedType DEF TypeOK, StartWorkflow, StartWorkflowFails
<1>2. ApiTypeOK'
  BY DEF TypeOK, StartWorkflow, StartWorkflowFails, ApiTypeOK, LaunchStates
<1>3. CASE StartWorkflow
  <2>1. "mark_run_started" \in WfStates
    BY DEF WfStates, Activities
  <2>2. QED
    BY <1>1, <1>2, <1>3, <2>1, AwaitType DEF StartWorkflow, TypeOK, ExecutionTypeOK
<1>4. CASE StartWorkflowFails
  BY <1>1, <1>2, <1>4 DEF StartWorkflowFails, TypeOK, ExecutionTypeOK
<1>5. QED
  BY <1>3, <1>4

LEMMA ActivityStepType ==
  ASSUME TypeOK, ActivityStep
  PROVE  TypeOK'
<1> USE DEF Call
<1>0. StoreTypeOK
  BY DEF TypeOK
<1>1. CASE MarkRunStarted
  <2>1. StoreTypeOK'
    BY <1>0, <1>1, UpdateRunStateType, CreateRunEventType DEF MarkRunStarted, RunStates
  <2>2. QED
    BY <1>1, <2>1 DEF MarkRunStarted, TypeOK, ApiTypeOK, ExecutionTypeOK, Steps
<1>2. CASE FetchRunCases
  <2>1. StoreTypeOK'
    BY <1>0, <1>2, StoreUnchangedType DEF FetchRunCases
  <2>2. permits' \in Nat
    BY <1>2, TemporalAssumption DEF FetchRunCases, Slots
  <2>3. sched' \in [Cases -> CaseStates]
    BY <1>2 DEF FetchRunCases, CaseStates
  <2>4. QED
    BY <1>2, <2>1, <2>2, <2>3, TemporalAssumption
       DEF FetchRunCases, TypeOK, ApiTypeOK, ExecutionTypeOK, Steps, WfStates
<1>3. CASE FinalizeRun
  <2>1. StoreTypeOK'
    BY <1>0, <1>3, UpdateRunAggregatesType, StoreUnchangedType, CreateRunEventType,
       FinalVerdictType
       DEF FinalizeRun, RunStates, TypeOK
  <2>2. tally' \in CaseAggregates /\ scored' \in [Cases -> Nat]
    BY <1>3, SummarizeCasesType DEF FinalizeRun, TypeOK, StoreTypeOK
  <2>3. QED
    BY <1>3, <2>1, <2>2 DEF FinalizeRun, TypeOK, ApiTypeOK, ExecutionTypeOK, Steps
<1>4. CASE MarkRunFailed
  <2>1. StoreTypeOK'
    <3>1. NoAverages \in [Cases -> Nat]
      OBVIOUS
    <3>2. QED
      BY <1>0, <1>4, <3>1, UpdateRunAggregatesType, StoreUnchangedType, CreateRunEventType
         DEF MarkRunFailed, RunStates, RunVerdicts, TypeOK
  <2>2. tally' \in CaseAggregates
    BY <1>4, SummarizeCasesType DEF MarkRunFailed, TypeOK
  <2>3. QED
    BY <1>4, <2>1, <2>2 DEF MarkRunFailed, TypeOK, ApiTypeOK, ExecutionTypeOK, Steps
<1>5. CASE ActivityCompletes
  <2>1. StoreTypeOK'
    BY <1>0, <1>5, StoreUnchangedType DEF ActivityCompletes
  <2>2. {"fetch_run_cases", "done", "failed"} \subseteq WfStates
    BY DEF WfStates, Activities
  <2>3. QED
    BY <1>5, <2>1, <2>2, AwaitType
       DEF ActivityCompletes, TypeOK, ApiTypeOK, ExecutionTypeOK
<1>6. CASE ActivityFails
  <2>1. StoreTypeOK'
    BY <1>0, <1>6, StoreUnchangedType DEF ActivityFails
  <2>2. CASE tries < ShortAttempts /\ step' = FirstStep(wf) /\ tries' = tries + 1
                /\ tally' = NoAggregates /\ scored' = NoAverages /\ UNCHANGED wf
    <3>1. tries' \in 0..ShortAttempts
      BY <2>2, TemporalAssumption DEF TypeOK
    <3>2. step' \in Steps
      BY <1>6, <2>2 DEF FirstStep, Steps, Activities
    <3>3. tally' \in CaseAggregates /\ scored' \in [Cases -> Nat]
      BY <2>2 DEF CaseAggregates
    <3>4. QED
      BY <1>6, <2>1, <2>2, <3>1, <3>2, <3>3
         DEF ActivityFails, TypeOK, ApiTypeOK, ExecutionTypeOK
  <2>3. CASE \E w \in {"aborted", "mark_run_failed"} : Await(w)
    <3>1. {"aborted", "mark_run_failed"} \subseteq WfStates
      BY DEF WfStates, Activities
    <3>2. QED
      BY <1>6, <2>1, <2>3, <3>1, AwaitType
         DEF ActivityFails, TypeOK, ApiTypeOK, ExecutionTypeOK
  <2>4. QED
    BY <1>6, <2>2, <2>3 DEF ActivityFails
<1>7. QED
  BY <1>1, <1>2, <1>3, <1>4, <1>5, <1>6 DEF ActivityStep

LEMMA ScheduleCaseType ==
  ASSUME TypeOK, NEW c \in Cases, ScheduleCase(c)
  PROVE  TypeOK'
<1>1. StoreTypeOK' /\ ApiTypeOK'
  BY StoreUnchangedType DEF TypeOK, ScheduleCase, ApiTypeOK
<1>2. ExecutionTypeOK'
  BY ExecutionAssumption, GotoType
     DEF TypeOK, ScheduleCase, Attempts, InnerSteps, EngineSteps
<1>3. permits' \in Nat /\ sched' \in [Cases -> CaseStates]
      /\ attempt' \in [Cases -> 0..CaseAttempts]
  BY ExecutionAssumption DEF TypeOK, ScheduleCase, CaseStates
<1>4. QED
  BY <1>1, <1>2, <1>3 DEF TypeOK, ScheduleCase

(* The current attempt of a case in flight is one of its attempts.         *)
RunningAttempts ==
  \A c \in Cases : sched[c] = "running" => attempt[c] \in 1..CaseAttempts

LEMMA SettleType ==
  ASSUME TypeOK, NEW c \in Cases, NEW result \in {"ok", "failed"}, Settle(c, result)
  PROVE  sched' \in [Cases -> CaseStates] /\ permits' \in Nat
BY DEF TypeOK, Settle, CaseStates

LEMMA RetryOrGiveUpType ==
  ASSUME TypeOK, RunningAttempts, NEW c \in Cases, sched[c] = "running",
         NEW left \in InnerSteps \cup EngineSteps,
         left = "insert" => todo'[Current(c)] > 0,
         todo' \in [Attempts -> 0..MaxMetrics],
         \A a \in Attempts : a # Current(c) => todo'[a] = todo[a],
         RetryOrGiveUp(c, left)
  PROVE  /\ sched' \in [Cases -> CaseStates]
         /\ attempt' \in [Cases -> 0..CaseAttempts]
         /\ permits' \in Nat
         /\ ExecutionTypeOK'
         /\ RunningAttempts'
<1>1. Current(c) \in Attempts
  BY DEF RunningAttempts, Current, Attempts
<1>2. CASE /\ attempt[c] < CaseAttempts
           /\ attempt' = [attempt EXCEPT ![c] = attempt[c] + 1]
           /\ pc' = [pc EXCEPT ![Current(c)] = left, ![<<c, attempt[c] + 1>>] = "setup"]
           /\ UNCHANGED <<sched, permits>>
  <2>1. attempt' \in [Cases -> 0..CaseAttempts]
    BY <1>2, ExecutionAssumption DEF TypeOK, RunningAttempts
  <2>2. pc' \in [Attempts -> InnerSteps \cup EngineSteps]
    BY <1>2 DEF TypeOK, ExecutionTypeOK, EngineSteps
  <2>3. ASSUME NEW a \in Attempts, pc'[a] = "insert" PROVE todo'[a] > 0
    <3>1. CASE a = <<c, attempt[c] + 1>>
      BY <1>2, <2>3, <3>1 DEF TypeOK, ExecutionTypeOK
    <3>2. CASE a = Current(c) /\ a # <<c, attempt[c] + 1>>
      BY <1>2, <2>3, <3>2 DEF TypeOK, ExecutionTypeOK
    <3>3. CASE a # Current(c) /\ a # <<c, attempt[c] + 1>>
      BY <1>2, <2>3, <3>3 DEF TypeOK, ExecutionTypeOK
    <3>4. QED
      BY <3>1, <3>2, <3>3
  <2>4. RunningAttempts'
    BY <1>2, ExecutionAssumption DEF TypeOK, RunningAttempts
  <2>5. QED
    BY <1>2, <2>1, <2>2, <2>3, <2>4 DEF TypeOK, ExecutionTypeOK
<1>3. CASE Goto(Current(c), left) /\ Settle(c, "failed") /\ UNCHANGED attempt
  <2>1. pc' \in [Attempts -> InnerSteps \cup EngineSteps]
    BY <1>3 DEF TypeOK, ExecutionTypeOK, Goto
  <2>2. ASSUME NEW a \in Attempts, pc'[a] = "insert" PROVE todo'[a] > 0
    <3>1. CASE a = Current(c)
      BY <1>3, <2>2, <3>1 DEF TypeOK, ExecutionTypeOK, Goto
    <3>2. CASE a # Current(c)
      BY <1>3, <2>2, <3>2 DEF TypeOK, ExecutionTypeOK, Goto
    <3>3. QED
      BY <3>1, <3>2
  <2>3. RunningAttempts'
    BY <1>3 DEF TypeOK, RunningAttempts, Settle
  <2>4. QED
    BY <1>3, <2>1, <2>2, <2>3, SettleType DEF TypeOK, ExecutionTypeOK
<1>4. QED
  BY <1>2, <1>3 DEF RetryOrGiveUp

LEMMA CaseStepType ==
  ASSUME TypeOK, RunningAttempts, NEW c \in Cases, CaseStep(c)
  PROVE  TypeOK' /\ RunningAttempts'
<1>1. StoreTypeOK' /\ ApiTypeOK'
  BY StoreUnchangedType
     DEF TypeOK, CaseStep, CaseCompletes, CaseFails, CaseOverruns, ApiTypeOK
<1>2. UNCHANGED <<wf, activity>>
  BY DEF CaseStep, CaseCompletes, CaseFails, CaseOverruns
<1>3. CASE CaseCompletes(c)
  <2>1. RunningAttempts'
    BY <1>3 DEF CaseCompletes, Settle, TypeOK, RunningAttempts
  <2>2. QED
    BY <1>1, <1>2, <1>3, <2>1, SettleType DEF CaseCompletes, TypeOK, ExecutionTypeOK
<1>4. CASE CaseFails(c)
  <2>1. /\ todo' \in [Attempts -> 0..MaxMetrics]
        /\ \A a \in Attempts : a # Current(c) => todo'[a] = todo[a]
    <3>1. 0 \in 0..MaxMetrics /\ todo \in [Attempts -> 0..MaxMetrics]
      BY ExecutionAssumption DEF TypeOK, ExecutionTypeOK
    <3>2. todo' = [todo EXCEPT ![Current(c)] = 0]
      BY <1>4 DEF CaseFails
    <3>3. QED
      BY <3>1, <3>2
  <2>2. seen' \in [Attempts -> CaseAggregates]
    BY <1>4 DEF CaseFails, TypeOK, CaseAggregates
  <2>3. /\ sched' \in [Cases -> CaseStates]
        /\ attempt' \in [Cases -> 0..CaseAttempts]
        /\ permits' \in Nat
        /\ ExecutionTypeOK'
        /\ RunningAttempts'
    BY <1>4, <2>1, RetryOrGiveUpType DEF CaseFails, EngineSteps
  <2>4. QED
    BY <1>1, <1>2, <2>2, <2>3 DEF TypeOK
<1>5. CASE CaseOverruns(c)
  <2>1. Current(c) \in Attempts
    BY <1>5 DEF CaseOverruns, RunningAttempts, Current, Attempts
  <2>2. /\ pc[Current(c)] \in InnerSteps \cup EngineSteps
        /\ pc[Current(c)] = "insert" => todo'[Current(c)] > 0
        /\ todo' \in [Attempts -> 0..MaxMetrics]
        /\ todo' = todo
    BY <1>5, <2>1 DEF CaseOverruns, TypeOK, ExecutionTypeOK
  <2>3. /\ sched' \in [Cases -> CaseStates]
        /\ attempt' \in [Cases -> 0..CaseAttempts]
        /\ permits' \in Nat
        /\ ExecutionTypeOK'
        /\ RunningAttempts'
    BY <1>5, <2>2, RetryOrGiveUpType DEF CaseOverruns
  <2>4. QED
    BY <1>1, <1>2, <1>5, <2>3 DEF TypeOK, CaseOverruns
<1>6. QED
  BY <1>3, <1>4, <1>5 DEF CaseStep

LEMMA GatherCompletesType ==
  ASSUME TypeOK, GatherCompletes
  PROVE  TypeOK'
<1>1. StoreTypeOK' /\ ApiTypeOK'
  BY StoreUnchangedType DEF TypeOK, GatherCompletes, ApiTypeOK
<1>2. "finalize_run" \in WfStates
  BY DEF WfStates, Activities
<1>3. QED
  BY <1>1, <1>2, AwaitType DEF TypeOK, GatherCompletes, ExecutionTypeOK

LEMMA RunCaseForRunType ==
  ASSUME TypeOK, NEW a \in Attempts, RunCaseForRun(a)
  PROVE  TypeOK'
<1>0. /\ a[1] \in Cases
      /\ StoreTypeOK /\ ApiTypeOK /\ ExecutionTypeOK
  BY DEF Attempts, TypeOK
<1>1. CASE SetupCase(a) \/ SetupRaises(a)
  <2>1. StoreTypeOK' /\ ApiTypeOK'
    BY <1>0, <1>1, StoreUnchangedType DEF SetupCase, SetupRaises, ApiTypeOK
  <2>2. ExecutionTypeOK'
    BY <1>0, <1>1, GotoType DEF SetupCase, SetupRaises, InnerSteps, EngineSteps
  <2>3. QED
    BY <1>1, <2>1, <2>2 DEF SetupCase, SetupRaises, TypeOK
<1>2. CASE ExecuteAndScoreCase(a) /\ UNCHANGED engine
  BY <1>0, <1>2, ExecuteAndScoreCaseType DEF TypeOK
<1>3. CASE RecordCaseError(a)
  <2>1. StoreTypeOK' /\ ApiTypeOK'
    BY <1>0, <1>3, NewRowsType, UpdateCaseResultType, CreateCaseEventType
       DEF RecordCaseError, ApiTypeOK
  <2>2. ExecutionTypeOK'
    BY <1>0, <1>3, GotoType DEF RecordCaseError, EngineSteps
  <2>3. QED
    BY <1>3, <2>1, <2>2 DEF RecordCaseError, TypeOK
<1>4. CASE TallyCases(a)
  <2>1. StoreTypeOK' /\ ApiTypeOK'
    BY <1>0, <1>4, StoreUnchangedType DEF TallyCases, ApiTypeOK
  <2>2. ExecutionTypeOK'
    BY <1>0, <1>4, GotoType DEF TallyCases, EngineSteps
  <2>3. seen' \in [Attempts -> CaseAggregates]
    BY <1>4, SummarizeCasesType DEF TallyCases, TypeOK
  <2>4. QED
    BY <1>4, <2>1, <2>2, <2>3 DEF TallyCases, TypeOK
<1>5. CASE RefreshProgress(a)
  <2>1. seen[a] \in CaseAggregates /\ NoAverages \in [Cases -> Nat]
        /\ NoAggregates \in CaseAggregates
    BY DEF TypeOK, CaseAggregates
  <2>2. StoreTypeOK' /\ ApiTypeOK'
    BY <1>0, <1>5, <2>1, UpdateRunAggregatesType
       DEF RefreshProgress, ApiTypeOK, RunStates, RunVerdicts
  <2>3. ExecutionTypeOK'
    BY <1>0, <1>5, GotoType DEF RefreshProgress, EngineSteps
  <2>4. seen' \in [Attempts -> CaseAggregates]
    BY <1>5, <2>1 DEF RefreshProgress, TypeOK
  <2>5. QED
    BY <1>5, <2>2, <2>3, <2>4 DEF RefreshProgress, TypeOK
<1>6. QED
  BY <1>1, <1>2, <1>3, <1>4, <1>5 DEF RunCaseForRun

-----------------------------------------------------------------------------
(* RunningAttempts only depends on what the gather writes.                 *)
LEMMA RunningAttemptsKept ==
  ASSUME RunningAttempts, UNCHANGED <<sched, attempt>>
  PROVE  RunningAttempts'
BY DEF RunningAttempts

LEMMA TypeStep ==
  ASSUME TypeOK, RunningAttempts, [Next]_vars
  PROVE  TypeOK' /\ RunningAttempts'
<1>1. CASE ApiStep /\ UNCHANGED <<execution, engine>>
  BY <1>1, ApiStepType, RunningAttemptsKept
<1>2. CASE StartWorkflow \/ StartWorkflowFails
  BY <1>2, StartWorkflowType, RunningAttemptsKept DEF StartWorkflow, StartWorkflowFails
<1>3. CASE ActivityStep
  <2>1. CASE FetchRunCases
    BY <1>3, <2>1, ActivityStepType DEF FetchRunCases, RunningAttempts
  <2>2. CASE ~FetchRunCases
    BY <1>3, <2>2, ActivityStepType, RunningAttemptsKept
       DEF ActivityStep, MarkRunStarted, FinalizeRun, MarkRunFailed, ActivityCompletes,
           ActivityFails, Call
  <2>3. QED
    BY <2>1, <2>2
<1>4. CASE \E c \in Cases : ScheduleCase(c)
  <2>1. PICK c \in Cases : ScheduleCase(c)
    BY <1>4
  <2>2. RunningAttempts'
    BY <2>1, ExecutionAssumption DEF ScheduleCase, RunningAttempts, TypeOK
  <2>3. QED
    BY <2>1, <2>2, ScheduleCaseType
<1>5. CASE \E c \in Cases : CaseStep(c)
  BY <1>5, CaseStepType
<1>6. CASE GatherCompletes
  BY <1>6, GatherCompletesType, RunningAttemptsKept DEF GatherCompletes
<1>7. CASE \E a \in Attempts : RunCaseForRun(a)
  BY <1>7, RunCaseForRunType, RunningAttemptsKept
     DEF RunCaseForRun, SetupCase, SetupRaises, RecordCaseError, TallyCases, RefreshProgress
<1>8. CASE UNCHANGED vars
  BY <1>8 DEF vars, db, TypeOK, StoreTypeOK, ApiTypeOK, ExecutionTypeOK, RunningAttempts
<1>9. QED
  BY <1>1, <1>2, <1>3, <1>4, <1>5, <1>6, <1>7, <1>8 DEF Next

LEMMA TypeInvariant == Spec => [](TypeOK /\ RunningAttempts)
<1>1. Init => TypeOK /\ RunningAttempts
  BY InitType DEF Init, RunningAttempts
<1>2. TypeOK /\ RunningAttempts /\ [Next]_vars => TypeOK' /\ RunningAttempts'
  BY TypeStep
<1>3. QED
  BY <1>1, <1>2, PTL DEF Spec

(* Every column, counter and position stays in its domain: in particular   *)
(* no retry exceeds the maximum_attempts of its policy, and metric rows    *)
(* are inserted only while some are left.                                  *)
THEOREM TypeCorrect == Spec => []TypeOK
BY TypeInvariant, PTL

-----------------------------------------------------------------------------
(* The workflow is started once.                                           *)

LaunchInv == wf # "none" => launch = "submitted"

LEMMA LaunchStep ==
  ASSUME LaunchInv, [Next]_vars
  PROVE  LaunchInv'
<1> USE DEF LaunchInv
<1>1. CASE ApiStep /\ UNCHANGED <<execution, engine>>
  BY <1>1 DEF ApiStep, StartRun, StartRunCreatesCase, StartRunFails, CancelChecks,
              CancelWrites, DeleteChecks, DeleteWrites
<1>2. CASE StartWorkflow \/ StartWorkflowFails
  BY <1>2 DEF StartWorkflow, StartWorkflowFails
<1>3. CASE ActivityStep
  BY <1>3 DEF ActivityStep, MarkRunStarted, FetchRunCases, FinalizeRun, MarkRunFailed,
              ActivityCompletes, ActivityFails, Call, Activities
<1>4. CASE \E c \in Cases : ScheduleCase(c)
  BY <1>4 DEF ScheduleCase
<1>5. CASE \E c \in Cases : CaseStep(c)
  BY <1>5 DEF CaseStep, CaseCompletes, CaseFails, CaseOverruns
<1>6. CASE GatherCompletes
  BY <1>6 DEF GatherCompletes
<1>7. CASE \E a \in Attempts : RunCaseForRun(a)
  BY <1>7 DEF RunCaseForRun, SetupCase, SetupRaises, RecordCaseError, TallyCases,
              RefreshProgress, ExecuteAndScoreCase, MarkCaseRunning, AgentFails,
              WriteCaseResult, ClearMetrics, InsertMetric, EmitCaseEvent, ExecutionRaises
<1>8. CASE UNCHANGED vars
  BY <1>8 DEF vars
<1>9. QED
  BY <1>1, <1>2, <1>3, <1>4, <1>5, <1>6, <1>7, <1>8 DEF Next

-----------------------------------------------------------------------------
(* The semaphore of the gather.                                            *)

(* While the gather runs, the free slots and the cases in flight add up to *)
(* the slots; outside of it no case is waiting or in flight.               *)
GatherInv ==
  /\ wf = "gather" => permits + Cardinality(InFlight) = Slots
  /\ wf # "gather" => Settled

LEMMA InFlightFinite == IsFiniteSet(InFlight) /\ Cardinality(InFlight) \in Nat
BY CasesAssumption, FS_Subset, FS_CardinalityType DEF InFlight

(* A case that settles gives exactly its own slot back.                    *)
LEMMA SettleConserves ==
  ASSUME TypeOK, NEW c \in Cases, sched[c] = "running",
         NEW result \in {"ok", "failed"}, Settle(c, result)
  PROVE  permits' + Cardinality(InFlight') = permits + Cardinality(InFlight)
<1>1. InFlight' = InFlight \ {c} /\ c \in InFlight
  BY DEF InFlight, Settle, TypeOK
<1>2. Cardinality(InFlight') = Cardinality(InFlight) - 1
  BY <1>1, InFlightFinite, FS_RemoveElement
<1>3. QED
  BY <1>2, InFlightFinite DEF Settle, TypeOK

LEMMA GatherKept ==
  ASSUME GatherInv, UNCHANGED <<wf, sched, permits>>
  PROVE  GatherInv'
BY DEF GatherInv, InFlight, Settled

LEMMA GatherStep ==
  ASSUME TypeOK, LaunchInv, GatherInv, [Next]_vars
  PROVE  GatherInv'
<1>1. CASE ApiStep /\ UNCHANGED <<execution, engine>>
  BY <1>1, GatherKept
<1>2. CASE StartWorkflow
  <2>1. wf = "none" /\ wf' = "mark_run_started" /\ UNCHANGED sched
    BY <1>2 DEF StartWorkflow, LaunchInv, Await
  <2>2. QED
    BY <2>1 DEF GatherInv, Settled
<1>3. CASE StartWorkflowFails
  BY <1>3, GatherKept DEF StartWorkflowFails
<1>4. CASE ActivityStep
  <2>1. CASE MarkRunStarted \/ FinalizeRun \/ MarkRunFailed
    BY <2>1, GatherKept DEF MarkRunStarted, FinalizeRun, MarkRunFailed, Call
  <2>2. CASE FetchRunCases
    <3>1. InFlight' = {} /\ permits' = Slots /\ wf' = "gather"
      BY <2>2 DEF FetchRunCases, InFlight
    <3>2. Slots \in Nat
      BY TemporalAssumption DEF Slots
    <3>3. QED
      BY <3>1, <3>2, FS_EmptySet DEF GatherInv
  <2>3. CASE ActivityCompletes \/ ActivityFails
    <3>1. wf # "gather" /\ wf' # "gather" /\ UNCHANGED sched
      BY <2>3 DEF ActivityCompletes, ActivityFails, Await, Activities
    <3>2. QED
      BY <3>1 DEF GatherInv, Settled
  <2>4. QED
    BY <1>4, <2>1, <2>2, <2>3 DEF ActivityStep
<1>5. CASE \E c \in Cases : ScheduleCase(c)
  <2>1. PICK c \in Cases : ScheduleCase(c)
    BY <1>5
  <2>2. InFlight' = InFlight \cup {c} /\ c \notin InFlight
    BY <2>1 DEF ScheduleCase, InFlight, TypeOK
  <2>3. Cardinality(InFlight') = Cardinality(InFlight) + 1
    BY <2>2, InFlightFinite, FS_AddElement
  <2>4. permits' = permits - 1 /\ wf = "gather" /\ wf' = "gather"
    BY <2>1 DEF ScheduleCase
  <2>5. QED
    BY <2>3, <2>4, InFlightFinite DEF GatherInv, TypeOK
<1>6. CASE \E c \in Cases : CaseStep(c)
  <2>1. PICK c \in Cases : CaseStep(c)
    BY <1>6
  <2>2. sched[c] = "running" /\ UNCHANGED wf
    BY <2>1 DEF CaseStep, CaseCompletes, CaseFails, CaseOverruns
  <2>3. wf = "gather"
    BY <2>2 DEF GatherInv, Settled
  <2>4. \/ UNCHANGED <<sched, permits>>
        \/ \E result \in {"ok", "failed"} : Settle(c, result)
    BY <2>1 DEF CaseStep, CaseCompletes, CaseFails, CaseOverruns, RetryOrGiveUp
  <2>5. CASE UNCHANGED <<sched, permits>>
    BY <2>2, <2>5, GatherKept
  <2>6. CASE \E result \in {"ok", "failed"} : Settle(c, result)
    <3>1. permits' + Cardinality(InFlight') = permits + Cardinality(InFlight)
      BY <2>2, <2>6, SettleConserves
    <3>2. QED
      BY <2>2, <2>3, <3>1 DEF GatherInv, Slots
  <2>7. QED
    BY <2>4, <2>5, <2>6
<1>7. CASE GatherCompletes
  <2>1. Settled
    BY <1>7 DEF GatherCompletes, Settled
  <2>2. wf' = "finalize_run" /\ UNCHANGED sched
    BY <1>7 DEF GatherCompletes, Await
  <2>3. QED
    BY <2>1, <2>2 DEF GatherInv, Settled
<1>8. CASE \E a \in Attempts : RunCaseForRun(a)
  BY <1>8, GatherKept
     DEF RunCaseForRun, SetupCase, SetupRaises, RecordCaseError, TallyCases, RefreshProgress
<1>9. CASE UNCHANGED vars
  BY <1>9, GatherKept DEF vars
<1>10. QED
  BY <1>1, <1>2, <1>3, <1>4, <1>5, <1>6, <1>7, <1>8, <1>9 DEF Next

LEMMA GatherInvariant == Spec => [](TypeOK /\ LaunchInv /\ GatherInv)
<1>1. Init => LaunchInv /\ GatherInv
  BY DEF Init, LaunchInv, GatherInv, Settled
<1>2. TypeOK /\ LaunchInv /\ GatherInv /\ [Next]_vars => LaunchInv' /\ GatherInv'
  BY LaunchStep, GatherStep
<1>3. QED
  BY <1>1, <1>2, TypeCorrect, PTL DEF Spec

(* The semaphore bounds the cases in flight for any number of cases,       *)
(* attempts and slots, retries, failures and overruns included.            *)
THEOREM PacingHolds == Spec => []Pacing
<1>1. TypeOK /\ GatherInv => Pacing
  <2>1. SUFFICES ASSUME TypeOK, GatherInv PROVE Pacing
    OBVIOUS
  <2>2. CASE wf = "gather"
    BY <2>1, <2>2, InFlightFinite, TemporalAssumption DEF GatherInv, Pacing, Slots, TypeOK
  <2>3. CASE wf # "gather"
    <3>1. InFlight = {}
      BY <2>1, <2>3 DEF GatherInv, Settled, InFlight
    <3>2. QED
      BY <3>1, FS_EmptySet, TemporalAssumption DEF Pacing, Slots
  <2>4. QED
    BY <2>2, <2>3
<1>2. QED
  BY <1>1, GatherInvariant, PTL

-----------------------------------------------------------------------------
(* Who ends a run, and when.                                               *)

Ended == run.completed_at \/ run.state \in {"completed", "failed"}

Endings == {"finalize_run", "mark_run_failed", "done", "failed", "aborted"}

(* The row only says the run ended once finalize_run or mark_run_failed    *)
(* has been scheduled, and from there the workflow never goes back.        *)
EndingInv == Ended => wf \in Endings

LEMMA UpdateRunStateEnds ==
  ASSUME StoreTypeOK, NEW s \in {"running", "cancelled"}, UpdateRunState(s), Ended'
  PROVE  Ended
BY DEF UpdateRunState, Ended, StoreTypeOK, RunRows

LEMMA RefreshEnds ==
  ASSUME StoreTypeOK, NEW agg, NEW averaged,
         UpdateRunAggregates(agg, "pending", "running", averaged), Ended'
  PROVE  Ended
BY DEF UpdateRunAggregates, Ended, StoreTypeOK, RunRows

LEMMA NewRowsNotEnded ==
  ASSUME run' \in {NewRun("pending"), NoRun}
  PROVE  ~Ended'
BY DEF Ended, NewRun, NoRun

LEMMA EndingKept ==
  ASSUME EndingInv, Ended' => Ended, UNCHANGED wf
  PROVE  EndingInv'
BY DEF EndingInv

LEMMA EndingStep ==
  ASSUME TypeOK, LaunchInv, EndingInv, [Next]_vars
  PROVE  EndingInv'
<1>0. StoreTypeOK
  BY DEF TypeOK
<1>1. CASE ApiStep /\ UNCHANGED <<execution, engine>>
  <2>1. \/ UNCHANGED run
        \/ run' \in {NewRun("pending"), NoRun}
        \/ UpdateRunState("cancelled")
    BY <1>1 DEF ApiStep, StartRun, StartRunCreatesCase, StartRunFails, CancelChecks,
                CancelWrites, DeleteChecks, DeleteWrites, CreateRun, CreateCase,
                DeleteRun, db
  <2>2. Ended' => Ended
    BY <1>0, <2>1, UpdateRunStateEnds, NewRowsNotEnded DEF Ended
  <2>3. QED
    BY <1>1, <2>2, EndingKept
<1>2. CASE StartWorkflow
  BY <1>2 DEF StartWorkflow, LaunchInv, EndingInv, Endings, Ended, db
<1>3. CASE StartWorkflowFails
  BY <1>3 DEF StartWorkflowFails, EndingInv, Ended, db
<1>4. CASE ActivityStep
  <2>1. CASE MarkRunStarted
    <3>1. Ended' => Ended
      BY <1>0, <2>1, UpdateRunStateEnds DEF MarkRunStarted, CreateRunEvent, Ended
    <3>2. QED
      BY <2>1, <3>1, EndingKept DEF MarkRunStarted, Call
  <2>2. CASE FetchRunCases
    BY <2>2 DEF FetchRunCases, EndingInv, Endings, Ended, db
  <2>3. CASE FinalizeRun \/ MarkRunFailed
    BY <2>3 DEF FinalizeRun, MarkRunFailed, Call, EndingInv, Endings
  <2>4. CASE ActivityCompletes \/ ActivityFails
    BY <2>4 DEF ActivityCompletes, ActivityFails, Await, Activities, EndingInv, Endings,
                Ended, db
  <2>5. QED
    BY <1>4, <2>1, <2>2, <2>3, <2>4 DEF ActivityStep
<1>5. CASE \E c \in Cases : ScheduleCase(c) \/ CaseStep(c)
  BY <1>5, EndingKept
     DEF ScheduleCase, CaseStep, CaseCompletes, CaseFails, CaseOverruns, Ended, db
<1>6. CASE GatherCompletes
  BY <1>6 DEF GatherCompletes, Await, EndingInv, Endings
<1>7. CASE \E a \in Attempts : RunCaseForRun(a)
  <2>1. PICK a \in Attempts : RunCaseForRun(a)
    BY <1>7
  <2>2. CASE RefreshProgress(a)
    BY <1>0, <2>2, RefreshEnds, EndingKept DEF RefreshProgress
  <2>3. CASE ~RefreshProgress(a)
    <3>1. UNCHANGED <<run, wf>>
      BY <2>1, <2>3
         DEF RunCaseForRun, SetupCase, SetupRaises, RecordCaseError, TallyCases,
             ExecuteAndScoreCase, MarkCaseRunning, AgentFails, WriteCaseResult,
             ClearMetrics, InsertMetric, EmitCaseEvent, ExecutionRaises,
             UpdateCaseResult, CreateCaseEvent, DeleteMetricsByCase, CreateMetricResult, db
    <3>2. QED
      BY <3>1, EndingKept DEF Ended
  <2>4. QED
    BY <2>2, <2>3
<1>8. CASE UNCHANGED vars
  BY <1>8, EndingKept DEF vars, db, Ended
<1>9. QED
  BY <1>1, <1>2, <1>3, <1>4, <1>5, <1>6, <1>7, <1>8 DEF Next

(* No attempt, retry, overrun or API request makes a run look ended while  *)
(* the workflow still waits for one of its cases.                          *)
THEOREM NoEarlyEndingHolds == Spec => []NoEarlyEnding
<1>1. Init => EndingInv
  BY DEF Init, InitStore, NoRun, NewRun, EndingInv, Ended
<1>2. TypeOK /\ LaunchInv /\ EndingInv /\ [Next]_vars => EndingInv'
  BY EndingStep
<1>3. GatherInv /\ EndingInv => NoEarlyEnding
  BY DEF GatherInv, EndingInv, Endings, Ended, NoEarlyEnding
<1>4. QED
  BY <1>1, <1>2, <1>3, GatherInvariant, PTL DEF Spec
=============================================================================
