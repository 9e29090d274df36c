----------------------- MODULE TemporalRun_endings_proofs -----------------------
(***************************************************************************)
(* Theorems about how TemporalRun ends a run: with all of its cases, in a  *)
(* terminal state it does not leave again, and with the figures of its     *)
(* rows; and about what it records of each case: its metric rows, its      *)
(* result and its event, however its attempts were interrupted.  Nothing   *)
(* is assumed of the constants beyond their ASSUMEs.                       *)
(***************************************************************************)
EXTENDS TemporalRun_proofs

-----------------------------------------------------------------------------
(* No write of an engine makes a run appear or a case disappear.           *)
RowsRemain ==
  /\ RunExists' => RunExists
  /\ \A c \in Cases : CaseExists(c) => CaseExists(c)'

LEMMA UnchangedRowsRemain ==
  ASSUME UNCHANGED <<run, cases>>
  PROVE  RowsRemain
BY DEF RowsRemain, RunExists, CaseExists

LEMMA RunWriteRowsRemain ==
  ASSUME StoreTypeOK, NEW s \in RunStates, NEW agg, NEW verdict, NEW averaged,
         UpdateRunState(s) \/ UpdateRunAggregates(agg, verdict, s, averaged)
  PROVE  RowsRemain
BY DEF RowsRemain, RunExists, CaseExists, UpdateRunState, UpdateRunAggregates

LEMMA CaseWriteRowsRemain ==
  ASSUME StoreTypeOK, NEW c \in Cases, NEW row, row.status # "none",
         UpdateCaseResult(c, row)
  PROVE  RowsRemain
BY DEF RowsRemain, RunExists, CaseExists, UpdateCaseResult, StoreTypeOK

LEMMA WrittenRowsExist ==
  /\ ErrorRow.status # "none"
  /\ RunningRow.status # "none"
  /\ \A r : CompletedRow(r).status # "none"
BY DEF ErrorRow, RunningRow, CompletedRow

LEMMA ExecuteRowsRemain ==
  ASSUME StoreTypeOK, NEW a \in Attempts, ExecuteAndScoreCase(a)
  PROVE  RowsRemain
<1>0. a[1] \in Cases
  BY DEF Attempts
<1>1. CASE MarkCaseRunning(a)
  BY <1>0, <1>1, WrittenRowsExist, CaseWriteRowsRemain DEF MarkCaseRunning
<1>2. CASE AgentFails(a)
  BY <1>0, <1>2, WrittenRowsExist, CaseWriteRowsRemain DEF AgentFails
<1>3. CASE WriteCaseResult(a)
  BY <1>0, <1>3, WrittenRowsExist, CaseWriteRowsRemain DEF WriteCaseResult
<1>4. CASE ClearMetrics(a) \/ InsertMetric(a) \/ EmitCaseEvent(a) \/ ExecutionRaises(a)
  BY <1>4, UnchangedRowsRemain
     DEF ClearMetrics, InsertMetric, EmitCaseEvent, ExecutionRaises,
         DeleteMetricsByCase, CreateMetricResult, CreateCaseEvent, db
<1>5. QED
  BY <1>1, <1>2, <1>3, <1>4 DEF ExecuteAndScoreCase

LEMMA RunCaseRowsRemain ==
  ASSUME StoreTypeOK, NEW a \in Attempts, RunCaseForRun(a)
  PROVE  RowsRemain
<1>0. a[1] \in Cases
  BY DEF Attempts
<1>1. CASE SetupCase(a) \/ SetupRaises(a) \/ TallyCases(a)
  BY <1>1, UnchangedRowsRemain DEF SetupCase, SetupRaises, TallyCases, db
<1>2. CASE ExecuteAndScoreCase(a)
  BY <1>2, ExecuteRowsRemain
<1>3. CASE RecordCaseError(a)
  BY <1>0, <1>3, WrittenRowsExist, CaseWriteRowsRemain, UnchangedRowsRemain
     DEF RecordCaseError, CreateCaseEvent
<1>4. CASE RefreshProgress(a)
  BY <1>4, RunWriteRowsRemain DEF RefreshProgress, RunStates
<1>5. QED
  BY <1>1, <1>2, <1>3, <1>4 DEF RunCaseForRun

LEMMA ActivityRowsRemain ==
  ASSUME StoreTypeOK, ActivityStep
  PROVE  RowsRemain
<1>0. {"running", "completed", "failed"} \subseteq RunStates
  BY DEF RunStates
<1>1. CASE MarkRunStarted
  BY <1>0, <1>1, RunWriteRowsRemain, UnchangedRowsRemain DEF MarkRunStarted, CreateRunEvent
<1>2. CASE FinalizeRun
  BY <1>0, <1>2, RunWriteRowsRemain, UnchangedRowsRemain DEF FinalizeRun, CreateRunEvent, db
<1>3. CASE MarkRunFailed
  BY <1>0, <1>3, RunWriteRowsRemain, UnchangedRowsRemain DEF MarkRunFailed, CreateRunEvent, db
<1>4. CASE FetchRunCases \/ ActivityCompletes \/ ActivityFails
  BY <1>4, UnchangedRowsRemain DEF FetchRunCases, ActivityCompletes, ActivityFails, db
<1>5. QED
  BY <1>1, <1>2, <1>3, <1>4 DEF ActivityStep

(* What the API process does to the rows once the run has been created.    *)
LEMMA ApiRowsRemain ==
  ASSUME StoreTypeOK, ApiStep, launch # "new"
  PROVE  RowsRemain \/ ~RunExists'
<1>1. CASE \E c \in Cases : StartRunCreatesCase(c)
  BY <1>1 DEF StartRunCreatesCase, CreateCase, RowsRemain, RunExists, CaseExists, NewCase,
              StoreTypeOK
<1>2. CASE \E r \in Cancels : CancelWrites(r)
  BY <1>2, RunWriteRowsRemain DEF CancelWrites, RunStates
<1>3. CASE \E r \in Deletes : DeleteWrites(r)
  BY <1>3 DEF DeleteWrites, DeleteRun, RunExists, NoRun, NewRun
<1>4. CASE UNCHANGED <<run, cases>>
  BY <1>4, UnchangedRowsRemain
<1>5. QED
  BY <1>1, <1>2, <1>3, <1>4 DEF ApiStep, StartRun, StartRunFails, CancelChecks, DeleteChecks, db

-----------------------------------------------------------------------------
(* Every case is created before the workflow starts, and scheduled by it.  *)

CasesCreated ==
  launch \in {"created", "submitted"} /\ RunExists => \A c \in Cases : CaseExists(c)

CasesScheduled ==
  wf \in {"gather", "finalize_run", "done"} /\ RunExists
    => \A c \in Cases : sched[c] # "none"

LEMMA CasesCreatedStep ==
  ASSUME TypeOK, LaunchInv, CasesCreated, [Next]_vars
  PROVE  CasesCreated'
<1>0. StoreTypeOK
  BY DEF TypeOK
<1>2. CASE ApiStep /\ UNCHANGED <<execution, engine>>
  <2>1. CASE StartRun \/ StartRunFails
    BY <2>1 DEF StartRun, StartRunFails, CasesCreated
  <2>2. CASE \E c \in Cases : StartRunCreatesCase(c)
    <3>1. PICK c \in Cases : StartRunCreatesCase(c)
      BY <2>2
    <3>2. cases' = [cases EXCEPT ![c] = NewCase("pending")]
      BY <3>1 DEF StartRunCreatesCase, CreateCase
    <3>3. \A d \in CaseRowsOf \cup {c} : CaseExists(d)'
      BY <1>0, <3>2 DEF CaseRowsOf, CaseExists, NewCase, StoreTypeOK
    <3>4. launch' \in {"created", "submitted"} => CaseRowsOf \cup {c} = Cases
      BY <3>1 DEF StartRunCreatesCase
    <3>5. QED
      BY <3>3, <3>4 DEF CasesCreated
  <2>3. CASE launch # "new" /\ UNCHANGED launch
    <3>1. RowsRemain \/ ~RunExists'
      BY <1>0, <1>2, <2>3, ApiRowsRemain
    <3>2. QED
      BY <2>3, <3>1 DEF CasesCreated, RowsRemain
  <2>4. QED
    BY <1>2, <2>1, <2>2, <2>3
       DEF ApiStep, CancelChecks, CancelWrites, DeleteChecks, DeleteWrites
<1>3. CASE StartWorkflow \/ StartWorkflowFails
  BY <1>3 DEF StartWorkflow, StartWorkflowFails, CasesCreated, RunExists, CaseExists, db
<1>4. CASE ActivityStep
  <2>1. RowsRemain
    BY <1>0, <1>4, ActivityRowsRemain
  <2>2. UNCHANGED launch
    BY <1>4 DEF ActivityStep, MarkRunStarted, FetchRunCases, FinalizeRun, MarkRunFailed,
                ActivityCompletes, ActivityFails, Call, api
  <2>3. QED
    BY <2>1, <2>2 DEF CasesCreated, RowsRemain
<1>5. CASE \/ \E c \in Cases : ScheduleCase(c) \/ CaseStep(c)
           \/ GatherCompletes
           \/ UNCHANGED vars
  BY <1>5 DEF ScheduleCase, CaseStep, CaseCompletes, CaseFails, CaseOverruns,
              GatherCompletes, CasesCreated, RunExists, CaseExists, vars, db, api
<1>6. CASE \E a \in Attempts : RunCaseForRun(a)
  <2>1. RowsRemain
    BY <1>0, <1>6, RunCaseRowsRemain
  <2>2. UNCHANGED launch
    BY <1>6 DEF RunCaseForRun, SetupCase, SetupRaises, RecordCaseError, TallyCases,
                RefreshProgress, ExecuteAndScoreCase, MarkCaseRunning, AgentFails,
                WriteCaseResult, ClearMetrics, InsertMetric, EmitCaseEvent,
                ExecutionRaises, api
  <2>3. QED
    BY <2>1, <2>2 DEF CasesCreated, RowsRemain
<1>7. QED
  BY <1>2, <1>3, <1>4, <1>5, <1>6 DEF Next

LEMMA CasesScheduledStep ==
  ASSUME TypeOK, LaunchInv, CasesCreated, CasesScheduled, [Next]_vars
  PROVE  CasesScheduled'
<1>0. StoreTypeOK
  BY DEF TypeOK
<1>1. CASE ApiStep /\ UNCHANGED <<execution, engine>>
  <2>1. CASE launch = "new"
    BY <1>1, <2>1 DEF LaunchInv, CasesScheduled, engine
  <2>2. CASE launch # "new"
    BY <1>0, <1>1, <2>2, ApiRowsRemain DEF RowsRemain, CasesScheduled, engine, gather
  <2>3. QED
    BY <2>1, <2>2
<1>2. CASE StartWorkflow \/ StartWorkflowFails
  BY <1>2 DEF StartWorkflow, StartWorkflowFails, Await, CasesScheduled, RunExists, db,
              engine, gather
<1>3. CASE ActivityStep
  <2>1. RowsRemain
    BY <1>0, <1>3, ActivityRowsRemain
  <2>2. CASE FetchRunCases
    <3>1. wf # "none" /\ RunExists' = RunExists /\ UNCHANGED cases
      BY <2>2 DEF FetchRunCases, RunExists, db
    <3>2. sched' = [c \in Cases |-> IF CaseExists(c) THEN "waiting" ELSE "none"]
      BY <2>2 DEF FetchRunCases
    <3>3. RunExists => \A c \in Cases : CaseExists(c)
      BY <3>1 DEF LaunchInv, CasesCreated
    <3>4. QED
      BY <3>1, <3>2, <3>3 DEF CasesScheduled
  <2>3. CASE ~FetchRunCases
    BY <1>3, <2>1, <2>3
       DEF ActivityStep, MarkRunStarted, FinalizeRun, MarkRunFailed, ActivityCompletes,
           ActivityFails, Call, Await, RowsRemain, CasesScheduled, Activities, gather
  <2>4. QED
    BY <2>2, <2>3
<1>4. CASE \E c \in Cases : ScheduleCase(c) \/ CaseStep(c)
  <2>1. PICK c \in Cases : ScheduleCase(c) \/ CaseStep(c)
    BY <1>4
  <2>2. /\ \E s \in CaseStates \ {"none"} : sched' \in {sched, [sched EXCEPT ![c] = s]}
        /\ UNCHANGED <<wf, run>>
    BY <2>1 DEF ScheduleCase, CaseStep, CaseCompletes, CaseFails, CaseOverruns,
                RetryOrGiveUp, Settle, CaseStates, db
  <2>3. QED
    BY <2>2 DEF CasesScheduled, RunExists, TypeOK
<1>5. CASE GatherCompletes \/ UNCHANGED vars
  BY <1>5 DEF GatherCompletes, Await, CasesScheduled, RunExists, vars, db, engine, gather
<1>6. CASE \E a \in Attempts : RunCaseForRun(a)
  <2>1. RowsRemain
    BY <1>0, <1>6, RunCaseRowsRemain
  <2>2. UNCHANGED <<wf, sched>>
    BY <1>6 DEF RunCaseForRun, SetupCase, SetupRaises, RecordCaseError, TallyCases,
                RefreshProgress, engine, gather
  <2>3. QED
    BY <2>1, <2>2 DEF CasesScheduled, RowsRemain
<1>7. QED
  BY <1>1, <1>2, <1>3, <1>4, <1>5, <1>6 DEF Next

LEMMA CasesInvariant == Spec => [](CasesCreated /\ CasesScheduled)
<1>1. Init => CasesCreated /\ CasesScheduled
  BY DEF Init, InitApi, CasesCreated, CasesScheduled
<1>2. TypeOK /\ LaunchInv /\ CasesCreated /\ CasesScheduled /\ [Next]_vars
        => CasesCreated' /\ CasesScheduled'
  BY CasesCreatedStep, CasesScheduledStep
<1>3. QED
  BY <1>1, <1>2, GatherInvariant, PTL DEF Spec

(* start_run's two-phase creation never lets the workflow run on part of   *)
(* the cases: a workflow that is done has executed every case of the run.  *)
THEOREM NoCaseIsLeftOutHolds == Spec => []NoCaseIsLeftOut
<1>1. TypeOK /\ GatherInv /\ CasesScheduled => NoCaseIsLeftOut
  BY DEF TypeOK, GatherInv, Settled, CasesScheduled, NoCaseIsLeftOut, CaseStates
<1>2. QED
  BY <1>1, GatherInvariant, CasesInvariant, PTL

-----------------------------------------------------------------------------
(* Which attempts are at work.                                             *)

Resting == {"idle", "done", "dead"}

(* Except at a case of Overruns, only the current attempt of a case in     *)
(* flight makes store calls: nothing is left over from a retried one.      *)
NoZombies ==
  \A a \in Attempts :
    a[1] \notin Overruns /\ pc[a] \notin Resting
      => sched[a[1]] = "running" /\ a = Current(a[1])

LEMMA ExecuteMovesOne ==
  ASSUME ExecutionTypeOK, NEW b \in Attempts, ExecuteAndScoreCase(b)
  PROVE  /\ pc[b] \in InnerSteps
         /\ \A a \in Attempts : a # b => pc'[a] = pc[a] /\ todo'[a] = todo[a]
BY DEF ExecuteAndScoreCase, MarkCaseRunning, AgentFails, WriteCaseResult, ClearMetrics,
       InsertMetric, EmitCaseEvent, ExecutionRaises, Goto, ExecutionTypeOK, InnerSteps

LEMMA RunCaseMovesOne ==
  ASSUME TypeOK, NEW b \in Attempts, RunCaseForRun(b)
  PROVE  /\ pc[b] \notin Resting
         /\ \A a \in Attempts : a # b => pc'[a] = pc[a] /\ todo'[a] = todo[a]
         /\ UNCHANGED <<wf, activity, gather>>
<1>1. CASE ExecuteAndScoreCase(b) /\ UNCHANGED engine
  BY <1>1, ExecuteMovesOne DEF TypeOK, InnerSteps, Resting, engine
<1>2. CASE ~(ExecuteAndScoreCase(b) /\ UNCHANGED engine)
  BY <1>2 DEF RunCaseForRun, SetupCase, SetupRaises, RecordCaseError, TallyCases,
              RefreshProgress, Goto, Resting, TypeOK, ExecutionTypeOK, engine
<1>3. QED
  BY <1>1, <1>2

LEMMA NoZombiesKept ==
  ASSUME NoZombies, UNCHANGED <<pc, sched, attempt>>
  PROVE  NoZombies'
BY DEF NoZombies, Current

LEMMA NoZombiesCaseStep ==
  ASSUME TypeOK, RunningAttempts, NoZombies, NEW c \in Cases,
         ScheduleCase(c) \/ CaseStep(c)
  PROVE  NoZombies'
<1> SUFFICES ASSUME NEW a \in Attempts, a[1] \notin Overruns, pc'[a] \notin Resting
             PROVE  sched'[a[1]] = "running" /\ a = Current(a[1])'
  BY DEF NoZombies
<1>0. a[1] \in Cases /\ a = <<a[1], a[2]>>
  BY DEF Attempts
<1>1. CASE a[1] # c
  <2>1. pc'[a] = pc[a]
    BY <1>0, <1>1 DEF ScheduleCase, CaseStep, CaseCompletes, CaseFails, CaseOverruns,
                      RetryOrGiveUp, Goto, Current, TypeOK, ExecutionTypeOK, execution
  <2>2. sched'[a[1]] = sched[a[1]] /\ attempt'[a[1]] = attempt[a[1]]
    BY <1>0, <1>1 DEF ScheduleCase, CaseStep, CaseCompletes, CaseFails, CaseOverruns,
                      RetryOrGiveUp, Settle, TypeOK
  <2>3. QED
    BY <2>1, <2>2 DEF NoZombies, Current
<1>2. CASE a[1] = c /\ ScheduleCase(c)
  <2>1. pc[a] \in Resting
    BY <1>2 DEF ScheduleCase, NoZombies
  <2>2. a = <<c, 1>>
    BY <1>2, <2>1 DEF ScheduleCase, Goto, TypeOK, ExecutionTypeOK
  <2>3. QED
    BY <1>2, <2>2 DEF ScheduleCase, Current, TypeOK
<1>3. CASE a[1] = c /\ CaseCompletes(c)
  BY <1>3 DEF CaseCompletes, NoZombies, Resting, execution
<1>4. CASE a[1] = c /\ CaseFails(c)
  <2>1. Current(c) \in Attempts /\ attempt[c] \in 1..CaseAttempts /\ sched[c] = "running"
    BY <1>4 DEF CaseFails, RunningAttempts, Current, Attempts
  <2>2. CASE attempt[c] < CaseAttempts /\ UNCHANGED <<sched, permits>>
    <3>1. /\ attempt' = [attempt EXCEPT ![c] = @ + 1]
          /\ pc' = [pc EXCEPT ![Current(c)] = "dead", ![<<c, attempt[c] + 1>>] = "setup"]
      BY <1>4, <2>1, <2>2, ExecutionAssumption DEF CaseFails, RetryOrGiveUp
    <3>2. a # Current(c)
      BY <2>1, <3>1 DEF Resting, Current, TypeOK, ExecutionTypeOK
    <3>3. a = <<c, attempt[c] + 1>>
      BY <1>4, <3>1, <3>2 DEF NoZombies, TypeOK, ExecutionTypeOK
    <3>4. QED
      BY <1>4, <2>1, <2>2, <3>1, <3>3 DEF Current, TypeOK
  <2>3. CASE attempt[c] = CaseAttempts
    <3>1. pc' = [pc EXCEPT ![Current(c)] = "dead"]
      BY <1>4, <2>3, ExecutionAssumption DEF CaseFails, RetryOrGiveUp, Goto
    <3>2. a # Current(c)
      BY <2>1, <3>1 DEF Resting, TypeOK, ExecutionTypeOK
    <3>3. QED
      BY <1>4, <3>1, <3>2 DEF NoZombies, TypeOK, ExecutionTypeOK
  <2>4. QED
    BY <1>4, <2>2, <2>3 DEF CaseFails, RetryOrGiveUp
<1>5. CASE a[1] = c /\ CaseOverruns(c)
  BY <1>5 DEF CaseOverruns
<1>6. QED
  BY <1>1, <1>2, <1>3, <1>4, <1>5 DEF CaseStep

LEMMA NoZombiesStep ==
  ASSUME TypeOK, RunningAttempts, GatherInv, NoZombies, [Next]_vars
  PROVE  NoZombies'
<1>1. CASE ApiStep /\ UNCHANGED <<execution, engine>>
  BY <1>1, NoZombiesKept DEF execution, engine, gather
<1>2. CASE StartWorkflow \/ StartWorkflowFails
  BY <1>2, NoZombiesKept DEF StartWorkflow, StartWorkflowFails, execution, engine, gather
<1>3. CASE ActivityStep
  <2>1. CASE FetchRunCases
    BY <2>1 DEF FetchRunCases, GatherInv, Settled, NoZombies, Attempts, execution
  <2>2. CASE ~FetchRunCases
    BY <1>3, <2>2, NoZombiesKept
       DEF ActivityStep, MarkRunStarted, FinalizeRun, MarkRunFailed, ActivityCompletes,
           ActivityFails, Call, execution, gather
  <2>3. QED
    BY <2>1, <2>2
<1>4. CASE \E c \in Cases : ScheduleCase(c) \/ CaseStep(c)
  BY <1>4, NoZombiesCaseStep
<1>5. CASE GatherCompletes \/ UNCHANGED vars
  BY <1>5, NoZombiesKept DEF GatherCompletes, vars, execution, engine, gather
<1>6. CASE \E a \in Attempts : RunCaseForRun(a)
  <2>1. PICK b \in Attempts : RunCaseForRun(b)
    BY <1>6
  <2>2. QED
    BY <2>1, RunCaseMovesOne DEF NoZombies, Current, gather
<1>7. QED
  BY <1>1, <1>2, <1>3, <1>4, <1>5, <1>6 DEF Next

LEMMA NoZombiesInvariant == Spec => []NoZombies
<1>1. Init => NoZombies
  BY DEF Init, InitExecution, NoZombies, Resting
<1>2. TypeOK /\ RunningAttempts /\ GatherInv /\ NoZombies /\ [Next]_vars => NoZombies'
  BY NoZombiesStep
<1>3. QED
  BY <1>1, <1>2, TypeInvariant, GatherInvariant, PTL DEF Spec

(* Without overruns, no attempt makes a store call outside of the gather.  *)
LEMMA QuietOutsideGather ==
  ASSUME TypeOK, GatherInv, NoZombies, Overruns = {}, wf # "gather",
         NEW a \in Attempts
  PROVE  ~RunCaseForRun(a)
BY RunCaseMovesOne DEF NoZombies, GatherInv, Settled, Attempts

-----------------------------------------------------------------------------
(* What the last activity leaves in the row of the run.                    *)

(* The figures a run should show once nothing happens to its rows.         *)
HasFigures(verdict) ==
  run.agg = SummarizeCases(cases) /\ run.verdict = verdict

Completed ==
  /\ run.state \in TerminalRunStates
  /\ HasFigures(FinalVerdict(SummarizeCases(cases)))
  /\ run.averaged = metrics

Failed == run.state \in TerminalRunStates /\ HasFigures("failed")

(* finalize_run and mark_run_failed only write what they have read: with   *)
(* no attempt at work, what they read is what the rows still hold.         *)
ResultInv ==
  Overruns = {} /\ RunExists =>
    /\ wf = "finalize_run" =>
         /\ step \in {"metrics", "write"} => tally = SummarizeCases(cases)
         /\ step = "write" => scored = metrics
         /\ step \in {"event", "end"} => Completed
    /\ wf = "mark_run_failed" =>
         /\ step = "write" => tally = SummarizeCases(cases)
         /\ step \in {"event", "end"} => Failed
    /\ wf = "done" => Completed
    /\ wf = "failed" => Failed

LEMMA ResultKept ==
  ASSUME ResultInv, UNCHANGED <<run, cases, metrics, wf, step, tally, scored>>
  PROVE  ResultInv'
BY DEF ResultInv, Completed, Failed, HasFigures, RunExists, SummarizeCases

LEMMA ResultAfterCancel ==
  ASSUME StoreTypeOK, ResultInv, UpdateRunState("cancelled"),
         UNCHANGED <<wf, step, tally, scored>>
  PROVE  ResultInv'
<1>1. UNCHANGED <<cases, metrics>>
  BY DEF UpdateRunState
<1>2. CASE ~RunExists
  BY <1>2, ResultKept DEF UpdateRunState
<1>3. CASE RunExists
  <2>1. /\ run' = [run EXCEPT !.state = "cancelled", !.started_at = run.started_at]
        /\ run'.state \in TerminalRunStates
        /\ run'.agg = run.agg /\ run'.verdict = run.verdict /\ run'.averaged = run.averaged
    BY <1>3 DEF UpdateRunState, StoreTypeOK, RunRows, TerminalRunStates
  <2>2. SummarizeCases(cases)' = SummarizeCases(cases)
    BY <1>1 DEF SummarizeCases
  <2>3. Completed => Completed'
    BY <1>1, <2>1, <2>2 DEF Completed, HasFigures
  <2>4. Failed => Failed'
    BY <1>1, <2>1, <2>2 DEF Failed, HasFigures
  <2>5. QED
    BY <1>1, <1>3, <2>2, <2>3, <2>4 DEF ResultInv
<1>4. QED
  BY <1>2, <1>3

LEMMA ResultApiStep ==
  ASSUME TypeOK, LaunchInv, ResultInv, ApiStep, UNCHANGED <<execution, engine>>
  PROVE  ResultInv'
<1>0. StoreTypeOK /\ UNCHANGED <<wf, step, tally, scored>>
  BY DEF TypeOK, engine, activity
<1>1. CASE wf = "none"
  BY <1>0, <1>1 DEF ResultInv
<1>2. CASE wf # "none"
  <2>1. launch = "submitted"
    BY <1>2 DEF LaunchInv
  <2>2. CASE \E r \in Cancels : CancelWrites(r)
    BY <1>0, <2>2, ResultAfterCancel DEF CancelWrites
  <2>3. CASE \E r \in Deletes : DeleteWrites(r)
    BY <2>3 DEF DeleteWrites, DeleteRun, NoRun, NewRun, RunExists, ResultInv
  <2>4. CASE UNCHANGED db
    BY <1>0, <2>4, ResultKept DEF db
  <2>5. QED
    BY <2>1, <2>2, <2>3, <2>4
       DEF ApiStep, StartRun, StartRunCreatesCase, StartRunFails, CancelChecks, DeleteChecks
<1>3. QED
  BY <1>1, <1>2

LEMMA FinalizeResult ==
  ASSUME TypeOK, ResultInv, FinalizeRun
  PROVE  ResultInv'
<1>0. StoreTypeOK /\ wf = "finalize_run" /\ wf' = "finalize_run"
  BY DEF TypeOK, FinalizeRun, Call
<1>1. CASE step = "cases"
  BY <1>0, <1>1 DEF FinalizeRun, Call, ResultInv, RunExists, SummarizeCases, db
<1>2. CASE step = "metrics"
  BY <1>0, <1>2 DEF FinalizeRun, Call, ResultInv, RunExists, SummarizeCases, db
<1>3. CASE step = "write"
  <2>1. /\ UpdateRunAggregates(tally, FinalVerdict(tally), "completed", scored)
        /\ step' = "event"
    BY <1>3 DEF FinalizeRun, Call
  <2>2. UNCHANGED <<cases, metrics>> /\ SummarizeCases(cases)' = SummarizeCases(cases)
    BY <2>1 DEF UpdateRunAggregates, SummarizeCases
  <2>3. ASSUME Overruns = {}, RunExists' PROVE Completed'
    <3>1. RunExists
      BY <2>1, <2>3 DEF UpdateRunAggregates, RunExists
    <3>2. tally = SummarizeCases(cases) /\ scored = metrics
      BY <1>0, <1>3, <2>3, <3>1 DEF ResultInv
    <3>3. /\ run'.state = "completed" /\ run'.agg = tally
          /\ run'.verdict = FinalVerdict(tally) /\ run'.averaged = scored
      BY <1>0, <2>1, <3>1, AggregatesWritten
    <3>4. QED
      BY <2>2, <3>2, <3>3 DEF Completed, HasFigures, TerminalRunStates
  <2>4. QED
    BY <1>0, <2>1, <2>3 DEF ResultInv
<1>4. CASE step = "event"
  <2>1. UNCHANGED <<run, cases, metrics>> /\ step' = "end"
    BY <1>4 DEF FinalizeRun, Call, CreateRunEvent
  <2>2. RunExists' = RunExists /\ Completed' = Completed
    BY <2>1 DEF RunExists, Completed, HasFigures, SummarizeCases
  <2>3. QED
    BY <1>0, <1>4, <2>1, <2>2 DEF ResultInv
<1>5. QED
  BY <1>1, <1>2, <1>3, <1>4 DEF FinalizeRun, Call

LEMMA MarkFailedResult ==
  ASSUME TypeOK, ResultInv, MarkRunFailed
  PROVE  ResultInv'
<1>0. StoreTypeOK /\ wf = "mark_run_failed" /\ wf' = "mark_run_failed"
  BY DEF TypeOK, MarkRunFailed, Call
<1>1. CASE step = "cases"
  BY <1>0, <1>1 DEF MarkRunFailed, Call, ResultInv, RunExists, SummarizeCases, db
<1>2. CASE step = "write"
  <2>1. /\ UpdateRunAggregates(tally, "failed", "failed", NoAverages)
        /\ step' = "event"
    BY <1>2 DEF MarkRunFailed, Call
  <2>2. SummarizeCases(cases)' = SummarizeCases(cases)
    BY <2>1 DEF UpdateRunAggregates, SummarizeCases
  <2>3. ASSUME Overruns = {}, RunExists' PROVE Failed'
    <3>1. RunExists
      BY <2>1, <2>3 DEF UpdateRunAggregates, RunExists
    <3>2. tally = SummarizeCases(cases)
      BY <1>0, <1>2, <2>3, <3>1 DEF ResultInv
    <3>3. run'.state = "failed" /\ run'.agg = tally /\ run'.verdict = "failed"
      BY <1>0, <2>1, <3>1, AggregatesWritten
    <3>4. QED
      BY <2>2, <3>2, <3>3 DEF Failed, HasFigures, TerminalRunStates
  <2>4. QED
    BY <1>0, <2>1, <2>3 DEF ResultInv
<1>3. CASE step = "event"
  <2>1. UNCHANGED <<run, cases, metrics>> /\ step' = "end"
    BY <1>3 DEF MarkRunFailed, Call, CreateRunEvent
  <2>2. RunExists' = RunExists /\ Failed' = Failed
    BY <2>1 DEF RunExists, Failed, HasFigures, SummarizeCases
  <2>3. QED
    BY <1>0, <1>3, <2>1, <2>2 DEF ResultInv
<1>4. QED
  BY <1>1, <1>2, <1>3 DEF MarkRunFailed, Call

LEMMA ResultStep ==
  ASSUME TypeOK, LaunchInv, GatherInv, NoZombies, ResultInv, [Next]_vars
  PROVE  ResultInv'
<1>1. CASE ApiStep /\ UNCHANGED <<execution, engine>>
  BY <1>1, ResultApiStep
<1>2. CASE StartWorkflow
  BY <1>2 DEF StartWorkflow, Await, ResultInv
<1>3. CASE StartWorkflowFails \/ UNCHANGED vars
  BY <1>3, ResultKept DEF StartWorkflowFails, vars, db, engine, activity
<1>4. CASE ActivityStep
  <2>1. CASE MarkRunStarted \/ FetchRunCases
    BY <2>1 DEF MarkRunStarted, FetchRunCases, Call, ResultInv
  <2>2. CASE FinalizeRun \/ MarkRunFailed
    BY <2>2, FinalizeResult, MarkFailedResult
  <2>3. CASE ActivityCompletes
    <3>1. UNCHANGED <<run, cases, metrics>> /\ step = "end"
      BY <2>3 DEF ActivityCompletes, db
    <3>2. /\ RunExists' = RunExists
          /\ Completed' = Completed /\ Failed' = Failed
      BY <3>1 DEF RunExists, Completed, Failed, HasFigures, SummarizeCases
    <3>3. \/ wf' = "fetch_run_cases"
          \/ wf = "finalize_run" /\ wf' = "done"
          \/ wf = "mark_run_failed" /\ wf' = "failed"
      BY <2>3 DEF ActivityCompletes, Await
    <3>4. QED
      BY <3>1, <3>2, <3>3 DEF ResultInv
  <2>4. CASE ActivityFails
    BY <2>4 DEF ActivityFails, Await, Activities, FirstStep, ResultInv
  <2>5. QED
    BY <1>4, <2>1, <2>2, <2>3, <2>4 DEF ActivityStep
<1>5. CASE \E c \in Cases : ScheduleCase(c) \/ CaseStep(c)
  BY <1>5, ResultKept
     DEF ScheduleCase, CaseStep, CaseCompletes, CaseFails, CaseOverruns, activity, db
<1>6. CASE GatherCompletes
  BY <1>6 DEF GatherCompletes, Await, Activities, FirstStep, ResultInv
<1>7. CASE \E a \in Attempts : RunCaseForRun(a)
  <2>1. UNCHANGED wf
    BY <1>7, RunCaseMovesOne
  <2>2. Overruns = {} => wf = "gather"
    BY <1>7, QuietOutsideGather
  <2>3. QED
    BY <2>1, <2>2 DEF ResultInv
<1>8. QED
  BY <1>1, <1>2, <1>3, <1>4, <1>5, <1>6, <1>7 DEF Next

LEMMA ResultInvariant == Spec => []ResultInv
<1>1. Init => ResultInv
  BY DEF Init, ResultInv
<1>2. TypeOK /\ LaunchInv /\ GatherInv /\ NoZombies /\ ResultInv /\ [Next]_vars => ResultInv'
  BY ResultStep
<1>3. QED
  BY <1>1, <1>2, NoZombiesInvariant, GatherInvariant, PTL DEF Spec

(* When no attempt outlives its timeout, a workflow that is over has left  *)
(* its run in a terminal state, whatever failed and was retried before.    *)
THEOREM FinishedRunIsTerminalHolds == Spec => []FinishedRunIsTerminal
<1>1. ResultInv => FinishedRunIsTerminal
  BY DEF ResultInv, Completed, Failed, FinishedRunIsTerminal
<1>2. QED
  BY <1>1, ResultInvariant, PTL

(* ... and with the figures of its case and metric rows as they remain.    *)
THEOREM FinalFiguresAreTrueHolds == Spec => []FinalFiguresAreTrue
<1>1. ResultInv => FinalFiguresAreTrue
  BY DEF ResultInv, Completed, Failed, HasFigures, FinalFiguresAreTrue
<1>2. QED
  BY <1>1, ResultInvariant, PTL

-----------------------------------------------------------------------------
(* The late refresh that would reopen an ended run cannot happen: the row  *)
(* is ended only outside of the gather, where no attempt is at work.       *)
LEMMA EndedStep ==
  ASSUME TypeOK, LaunchInv, GatherInv, EndingInv, NoZombies, [Next]_vars,
         Overruns = {}, run.state \in {"completed", "failed"}
  PROVE  run'.state \notin {"pending", "running"}
<1>0. StoreTypeOK /\ wf \in Endings /\ launch = "submitted"
  BY DEF TypeOK, EndingInv, Ended, Endings, LaunchInv
<1>1. CASE ApiStep /\ UNCHANGED <<execution, engine>>
  <2>1. \/ UNCHANGED run
        \/ run' = NoRun
        \/ UpdateRunState("cancelled")
    BY <1>0, <1>1 DEF ApiStep, StartRun, StartRunCreatesCase, StartRunFails, CancelChecks,
                CancelWrites, DeleteChecks, DeleteWrites, DeleteRun, db
  <2>2. CASE UpdateRunState("cancelled")
    <3>1. run' = [run EXCEPT !.state = "cancelled", !.started_at = run'.started_at] \/ run' = run
      BY <1>0, <2>2 DEF UpdateRunState, StoreTypeOK, RunRows
    <3>2. QED
      BY <1>0, <3>1 DEF StoreTypeOK, RunRows
  <2>3. QED
    BY <2>1, <2>2 DEF NoRun, NewRun
<1>2. CASE StartWorkflow \/ StartWorkflowFails
  BY <1>0, <1>2 DEF StartWorkflow, StartWorkflowFails
<1>3. CASE ActivityStep
  <2>1. CASE MarkRunStarted
    BY <1>0, <2>1 DEF MarkRunStarted, Call, Endings
  <2>2. CASE FinalizeRun
    BY <1>0, <2>2, AggregatesWritten DEF FinalizeRun, CreateRunEvent, RunExists, db
  <2>3. CASE MarkRunFailed
    BY <1>0, <2>3, AggregatesWritten DEF MarkRunFailed, CreateRunEvent, RunExists, db
  <2>4. CASE FetchRunCases \/ ActivityCompletes \/ ActivityFails
    BY <2>4 DEF FetchRunCases, ActivityCompletes, ActivityFails, db
  <2>5. QED
    BY <1>3, <2>1, <2>2, <2>3, <2>4 DEF ActivityStep
<1>4. CASE \/ \E c \in Cases : ScheduleCase(c) \/ CaseStep(c)
           \/ GatherCompletes
           \/ UNCHANGED vars
  BY <1>4 DEF ScheduleCase, CaseStep, CaseCompletes, CaseFails, CaseOverruns,
              GatherCompletes, vars, db
<1>5. CASE \E a \in Attempts : RunCaseForRun(a)
  BY <1>0, <1>5, QuietOutsideGather DEF Endings
<1>6. QED
  BY <1>1, <1>2, <1>3, <1>4, <1>5 DEF Next

LEMMA EndingInvariant == Spec => []EndingInv
<1>1. Init => EndingInv
  BY DEF Init, InitStore, NoRun, NewRun, EndingInv, Ended
<1>2. TypeOK /\ LaunchInv /\ EndingInv /\ [Next]_vars => EndingInv'
  BY EndingStep
<1>3. QED
  BY <1>1, <1>2, GatherInvariant, PTL DEF Spec

(* Without overruns, a run the worker has ended never reads as in progress *)
(* again: neither a refresh of a case nor a restart lands after its end.   *)
THEOREM EndedStaysEndedHolds == Spec => EndedStaysEnded
<1>1. TypeOK /\ LaunchInv /\ GatherInv /\ EndingInv /\ NoZombies /\ [Next]_vars
        => [Overruns = {} /\ run.state \in {"completed", "failed"}
              => run'.state \notin {"pending", "running"}]_vars
  BY EndedStep
<1>2. QED
  BY <1>1, GatherInvariant, EndingInvariant, NoZombiesInvariant, PTL
     DEF Spec, EndedStaysEnded


-----------------------------------------------------------------------------
(* Metric rows.                                                            *)

(* An attempt inserts after it has cleared, and alone: the rows of its     *)
(* case and those it still has to insert never exceed one scoring.         *)
MetricsInv ==
  /\ \A c \in Cases \ Overruns : metrics[c] <= MaxMetrics
  /\ \A a \in Attempts : a[1] \notin Overruns /\ pc[a] = "insert"
                           => metrics[a[1]] + todo[a] <= MaxMetrics

LEMMA MetricsKept ==
  ASSUME MetricsInv, UNCHANGED <<metrics, pc, todo>>
  PROVE  MetricsInv'
BY DEF MetricsInv

LEMMA MetricsApiStep ==
  ASSUME TypeOK, MetricsInv, ApiStep, UNCHANGED <<execution, engine>>
  PROVE  MetricsInv'
<1>1. CASE \E r \in Deletes : DeleteWrites(r)
  <2>1. metrics' = [c \in Cases |-> 0] /\ UNCHANGED <<pc, todo>>
    BY <1>1 DEF DeleteWrites, DeleteRun, execution
  <2>2. \A a \in Attempts : a[1] \in Cases /\ todo[a] \in 0..MaxMetrics
    BY DEF TypeOK, ExecutionTypeOK, Attempts
  <2>3. QED
    BY <2>1, <2>2, ExecutionAssumption DEF MetricsInv
<1>2. CASE UNCHANGED metrics
  BY <1>2, MetricsKept DEF execution
<1>3. QED
  BY <1>1, <1>2
     DEF ApiStep, StartRun, StartRunCreatesCase, StartRunFails, CancelChecks, CancelWrites,
         DeleteChecks, CreateRun, CreateCase, UpdateRunState, db

LEMMA MetricsCaseStep ==
  ASSUME TypeOK, RunningAttempts, MetricsInv, NEW c \in Cases,
         ScheduleCase(c) \/ CaseStep(c)
  PROVE  MetricsInv'
<1>1. UNCHANGED metrics
  BY DEF ScheduleCase, CaseStep, CaseCompletes, CaseFails, CaseOverruns, db
<1>2. ASSUME NEW a \in Attempts, a[1] \notin Overruns, pc'[a] = "insert"
      PROVE  pc[a] = "insert" /\ todo'[a] = todo[a]
  <2>0. a[1] \in Cases /\ a = <<a[1], a[2]>>
    BY DEF Attempts
  <2>1. CASE ScheduleCase(c) \/ CaseCompletes(c)
    BY <1>2, <2>1 DEF ScheduleCase, CaseCompletes, Goto, execution, TypeOK, ExecutionTypeOK
  <2>2. CASE CaseFails(c)
    <3>1. Current(c) \in Attempts
      BY <2>2 DEF CaseFails, RunningAttempts, Current, Attempts
    <3>2. /\ pc'[Current(c)] = "dead"
          /\ pc'[a] \in {pc[a], "dead", "setup"}
      BY <2>2, <3>1 DEF CaseFails, RetryOrGiveUp, Goto, TypeOK, ExecutionTypeOK, Current
    <3>3. todo' = [todo EXCEPT ![Current(c)] = 0]
      BY <2>2 DEF CaseFails
    <3>4. QED
      BY <1>2, <3>2, <3>3 DEF TypeOK, ExecutionTypeOK
  <2>3. CASE CaseOverruns(c)
    <3>1. a[1] # c
      BY <1>2, <2>3 DEF CaseOverruns
    <3>2. pc'[a] = pc[a] /\ todo'[a] = todo[a]
      BY <2>0, <2>3, <3>1
         DEF CaseOverruns, RetryOrGiveUp, Goto, Current, TypeOK, ExecutionTypeOK
    <3>3. QED
      BY <1>2, <3>2
  <2>4. QED
    BY <2>1, <2>2, <2>3 DEF CaseStep
<1>3. QED
  BY <1>1, <1>2 DEF MetricsInv

LEMMA MetricsRunCase ==
  ASSUME TypeOK, NoZombies, MetricsInv, NEW b \in Attempts, RunCaseForRun(b)
  PROVE  MetricsInv'
<1>0. b[1] \in Cases /\ metrics \in [Cases -> Nat] /\ MaxMetrics \in Nat
  BY ExecutionAssumption DEF Attempts, TypeOK, StoreTypeOK
<1>1. \A a \in Attempts : a # b => pc'[a] = pc[a] /\ todo'[a] = todo[a]
  BY RunCaseMovesOne
<1>2. \A a \in Attempts :
        /\ a[1] \in Cases
        /\ a # b /\ a[1] = b[1] /\ b[1] \notin Overruns => pc[a] # "insert"
  BY RunCaseMovesOne DEF NoZombies, Attempts, Resting
<1>3. CASE ClearMetrics(b)
  <2>1. metrics' = [metrics EXCEPT ![b[1]] = 0] /\ todo' = todo
    BY <1>3 DEF ClearMetrics, DeleteMetricsByCase
  <2>2. todo[b] \in 0..MaxMetrics
    BY DEF TypeOK, ExecutionTypeOK
  <2>3. QED
    BY <1>0, <1>1, <1>2, <2>1, <2>2 DEF MetricsInv
<1>4. CASE InsertMetric(b)
  <2>1. /\ metrics' = [metrics EXCEPT ![b[1]] = metrics[b[1]] + 1]
        /\ todo' = [todo EXCEPT ![b] = todo[b] - 1]
        /\ pc[b] = "insert"
    BY <1>4 DEF InsertMetric, CreateMetricResult
  <2>2. todo[b] \in 1..MaxMetrics /\ todo'[b] = todo[b] - 1
    BY <1>0, <2>1 DEF TypeOK, ExecutionTypeOK
  <2>3. b[1] \notin Overruns => metrics[b[1]] + todo[b] <= MaxMetrics
    BY <2>1 DEF MetricsInv
  <2>4. QED
    BY <1>0, <1>1, <1>2, <2>1, <2>2, <2>3 DEF MetricsInv
<1>5. CASE ~ClearMetrics(b) /\ ~InsertMetric(b)
  <2>1. UNCHANGED metrics
    BY <1>5 DEF RunCaseForRun, SetupCase, SetupRaises, RecordCaseError, TallyCases,
                RefreshProgress, ExecuteAndScoreCase, MarkCaseRunning, AgentFails,
                WriteCaseResult, EmitCaseEvent, ExecutionRaises, UpdateCaseResult,
                CreateCaseEvent, UpdateRunAggregates, db
  <2>2. pc'[b] # "insert"
    BY <1>5 DEF RunCaseForRun, SetupCase, SetupRaises, RecordCaseError, TallyCases,
                RefreshProgress, ExecuteAndScoreCase, MarkCaseRunning, AgentFails,
                WriteCaseResult, EmitCaseEvent, ExecutionRaises, Goto, TypeOK,
                ExecutionTypeOK
  <2>3. QED
    BY <1>1, <2>1, <2>2 DEF MetricsInv
<1>6. QED
  BY <1>3, <1>4, <1>5

LEMMA MetricsStep ==
  ASSUME TypeOK, RunningAttempts, NoZombies, MetricsInv, [Next]_vars
  PROVE  MetricsInv'
<1>1. CASE ApiStep /\ UNCHANGED <<execution, engine>>
  BY <1>1, MetricsApiStep
<1>2. CASE ActivityStep
  BY <1>2, MetricsKept
     DEF ActivityStep, MarkRunStarted, FetchRunCases, FinalizeRun, MarkRunFailed,
         ActivityCompletes, ActivityFails, Call, UpdateRunState, UpdateRunAggregates,
         CreateRunEvent, execution, db
<1>3. CASE StartWorkflow \/ StartWorkflowFails \/ GatherCompletes \/ UNCHANGED vars
  BY <1>3, MetricsKept
     DEF StartWorkflow, StartWorkflowFails, GatherCompletes, vars, execution, db
<1>4. CASE \E c \in Cases : ScheduleCase(c) \/ CaseStep(c)
  BY <1>4, MetricsCaseStep
<1>5. CASE \E a \in Attempts : RunCaseForRun(a)
  BY <1>5, MetricsRunCase
<1>6. QED
  BY <1>1, <1>2, <1>3, <1>4, <1>5 DEF Next

(* Scoring is repeatable for any number of attempts and metrics: a case    *)
(* whose attempts keep to their timeout never has more metric rows than    *)
(* one scoring inserts.                                                    *)
THEOREM MetricsNotDuplicatedHolds == Spec => []MetricsNotDuplicated
<1>1. Init => MetricsInv
  BY ExecutionAssumption DEF Init, InitStore, InitExecution, MetricsInv
<1>2. TypeOK /\ RunningAttempts /\ NoZombies /\ MetricsInv /\ [Next]_vars => MetricsInv'
  BY MetricsStep
<1>3. MetricsInv => MetricsNotDuplicated
  BY DEF MetricsInv, MetricsNotDuplicated
<1>4. QED
  BY <1>1, <1>2, <1>3, TypeInvariant, NoZombiesInvariant, PTL DEF Spec

-----------------------------------------------------------------------------
(* Results and events of the cases.                                        *)

Recorded(c) ==
  \/ cases[c].status = "completed" /\ "case_completed" \in caseEvents[c]
  \/ cases[c].status = "error" /\ "case_error" \in caseEvents[c]

(* How far the record of case c is when its attempt is at step s.          *)
RecordedBy(c, s) ==
  /\ s \in {"clear", "insert", "event_completed"} => cases[c].status = "completed"
  /\ s \in {"event_error", "event_raised"} => cases[c].status = "error"
  /\ s \in {"scored", "aggregate", "done"} => Recorded(c)

RecordInv ==
  RunExists =>
    \A c \in Cases \ Overruns :
      /\ sched[c] = "ok" => Recorded(c)
      /\ sched[c] = "running" => RecordedBy(c, pc[Current(c)])

(* No case is scheduled before the workflow starts.                        *)
FreshInv == wf = "none" => \A c \in Cases : sched[c] = "none"

LEMMA FreshStep ==
  ASSUME TypeOK, GatherInv, FreshInv, [Next]_vars
  PROVE  FreshInv'
<1>1. CASE ApiStep /\ UNCHANGED <<execution, engine>>
  BY <1>1 DEF FreshInv, engine, gather
<1>2. CASE StartWorkflow \/ GatherCompletes
  BY <1>2 DEF StartWorkflow, GatherCompletes, Await, FreshInv
<1>3. CASE StartWorkflowFails \/ UNCHANGED vars
  BY <1>3 DEF StartWorkflowFails, vars, engine, gather, FreshInv
<1>4. CASE ActivityStep
  BY <1>4 DEF ActivityStep, MarkRunStarted, FetchRunCases, FinalizeRun, MarkRunFailed,
              ActivityCompletes, ActivityFails, Call, Await, Activities, FreshInv
<1>5. CASE \E c \in Cases : ScheduleCase(c) \/ CaseStep(c)
  <2>1. wf' = wf /\ wf = "gather"
    BY <1>5 DEF ScheduleCase, CaseStep, CaseCompletes, CaseFails, CaseOverruns,
                GatherInv, Settled
  <2>2. QED
    BY <2>1 DEF FreshInv
<1>6. CASE \E a \in Attempts : RunCaseForRun(a)
  BY <1>6, RunCaseMovesOne DEF FreshInv, gather
<1>7. QED
  BY <1>1, <1>2, <1>3, <1>4, <1>5, <1>6 DEF Next

LEMMA RecordKept ==
  ASSUME RecordInv, UNCHANGED <<cases, caseEvents, pc, sched, attempt>>,
         RunExists' => RunExists
  PROVE  RecordInv'
BY DEF RecordInv, RecordedBy, Recorded, Current

LEMMA RecordApiStep ==
  ASSUME TypeOK, LaunchInv, FreshInv, RecordInv, ApiStep, UNCHANGED <<execution, engine>>
  PROVE  RecordInv'
<1>0. StoreTypeOK /\ UNCHANGED <<pc, sched, attempt, wf>>
  BY DEF TypeOK, execution, engine, gather
<1>1. CASE wf = "none"
  BY <1>0, <1>1 DEF FreshInv, RecordInv
<1>2. CASE wf # "none"
  <2>1. launch = "submitted"
    BY <1>2 DEF LaunchInv
  <2>2. CASE \E r \in Deletes : DeleteWrites(r)
    BY <2>2 DEF DeleteWrites, DeleteRun, NoRun, NewRun, RunExists, RecordInv
  <2>3. CASE UNCHANGED <<cases, caseEvents>>
    <3>1. RunExists' => RunExists
      BY <1>0, <2>1, ApiRowsRemain, UnchangedRowsRemain DEF RowsRemain
    <3>2. QED
      BY <1>0, <2>3, <3>1, RecordKept
  <2>4. QED
    BY <2>1, <2>2, <2>3
       DEF ApiStep, StartRun, StartRunCreatesCase, StartRunFails, CancelChecks, CancelWrites,
           DeleteChecks, UpdateRunState, db
<1>3. QED
  BY <1>1, <1>2

LEMMA RecordActivityStep ==
  ASSUME TypeOK, RecordInv, ActivityStep
  PROVE  RecordInv'
<1>1. RunExists' => RunExists
  BY ActivityRowsRemain DEF RowsRemain, TypeOK
<1>2. UNCHANGED <<cases, caseEvents, pc>>
  BY DEF ActivityStep, MarkRunStarted, FetchRunCases, FinalizeRun, MarkRunFailed,
         ActivityCompletes, ActivityFails, Call, UpdateRunState, UpdateRunAggregates,
         CreateRunEvent, execution, db
<1>3. CASE FetchRunCases
  BY <1>3 DEF FetchRunCases, RecordInv
<1>4. CASE ~FetchRunCases
  BY <1>1, <1>2, <1>4, RecordKept
     DEF ActivityStep, MarkRunStarted, FinalizeRun, MarkRunFailed, ActivityCompletes,
         ActivityFails, Call, gather
<1>5. QED
  BY <1>3, <1>4

LEMMA RecordCaseStep ==
  ASSUME TypeOK, RunningAttempts, RecordInv, NEW c \in Cases,
         ScheduleCase(c) \/ CaseStep(c)
  PROVE  RecordInv'
<1>0. UNCHANGED <<run, cases, caseEvents>>
  BY DEF ScheduleCase, CaseStep, CaseCompletes, CaseFails, CaseOverruns, db
<1> SUFFICES ASSUME RunExists, NEW d \in Cases \ Overruns
             PROVE  /\ sched'[d] = "ok" => Recorded(d)
                    /\ sched'[d] = "running" => RecordedBy(d, pc'[Current(d)'])
  BY <1>0 DEF RecordInv, RecordedBy, Recorded, RunExists
<1>1. CASE d # c
  <2>1. sched'[d] = sched[d] /\ attempt'[d] = attempt[d]
    BY <1>1 DEF ScheduleCase, CaseStep, CaseCompletes, CaseFails, CaseOverruns,
                RetryOrGiveUp, Settle, TypeOK
  <2>2. sched[d] = "running" => Current(d) \in Attempts
    BY DEF RunningAttempts, Current, Attempts
  <2>3. sched[d] = "running" => pc'[Current(d)] = pc[Current(d)]
    BY <1>1, <2>2 DEF ScheduleCase, CaseStep, CaseCompletes, CaseFails, CaseOverruns,
                RetryOrGiveUp, Goto, Current, TypeOK, ExecutionTypeOK, execution
  <2>4. QED
    BY <2>1, <2>3 DEF RecordInv, Current
<1>2. CASE d = c /\ ScheduleCase(c)
  <2>1. Current(c)' = <<c, 1>> /\ <<c, 1>> \in Attempts
    BY <1>2, ExecutionAssumption DEF ScheduleCase, Current, TypeOK, Attempts
  <2>2. pc'[Current(c)'] = "setup" /\ sched'[c] = "running"
    BY <1>2, <2>1 DEF ScheduleCase, Goto, TypeOK, ExecutionTypeOK
  <2>3. QED
    BY <1>2, <2>2 DEF RecordedBy
<1>3. CASE d = c /\ CaseCompletes(c)
  BY <1>3 DEF CaseCompletes, Settle, TypeOK, RecordInv, RecordedBy
<1>4. CASE d = c /\ CaseFails(c)
  <2>1. Current(c) \in Attempts /\ attempt[c] \in 1..CaseAttempts
    BY <1>4 DEF CaseFails, RunningAttempts, Current, Attempts
  <2>2. CASE attempt[c] < CaseAttempts
    <3>1. /\ attempt' = [attempt EXCEPT ![c] = @ + 1]
          /\ pc' = [pc EXCEPT ![Current(c)] = "dead", ![<<c, attempt[c] + 1>>] = "setup"]
          /\ sched' = sched
      BY <1>4, <2>1, <2>2, ExecutionAssumption DEF CaseFails, RetryOrGiveUp
    <3>2. Current(c)' = <<c, attempt[c] + 1>> /\ <<c, attempt[c] + 1>> \in Attempts
      BY <2>1, <2>2, <3>1, ExecutionAssumption DEF Current, TypeOK, Attempts
    <3>3. pc'[Current(c)'] = "setup"
      BY <3>1, <3>2 DEF TypeOK, ExecutionTypeOK
    <3>4. QED
      BY <1>4, <3>1, <3>3 DEF RecordInv, RecordedBy, CaseFails
  <2>3. CASE attempt[c] = CaseAttempts
    BY <1>4, <2>3, ExecutionAssumption DEF CaseFails, RetryOrGiveUp, Settle, TypeOK
  <2>4. QED
    BY <1>4, <2>2, <2>3 DEF CaseFails, RetryOrGiveUp
<1>5. CASE d = c /\ CaseOverruns(c)
  BY <1>5 DEF CaseOverruns
<1>6. QED
  BY <1>1, <1>2, <1>3, <1>4, <1>5 DEF CaseStep

LEMMA RunCaseTouchesOne ==
  ASSUME TypeOK, NEW b \in Attempts, RunCaseForRun(b), NEW d \in Cases, d # b[1]
  PROVE  cases'[d] = cases[d] /\ caseEvents'[d] = caseEvents[d]
BY DEF RunCaseForRun, SetupCase, SetupRaises, RecordCaseError, TallyCases, RefreshProgress,
       ExecuteAndScoreCase, MarkCaseRunning, AgentFails, WriteCaseResult, ClearMetrics,
       InsertMetric, EmitCaseEvent, ExecutionRaises, UpdateCaseResult, CreateCaseEvent,
       DeleteMetricsByCase, CreateMetricResult, UpdateRunAggregates, db, TypeOK, StoreTypeOK

LEMMA CaseResultWritten ==
  ASSUME StoreTypeOK, NEW c \in Cases, CaseExists(c), NEW row, UpdateCaseResult(c, row)
  PROVE  cases'[c] = row
BY DEF StoreTypeOK, UpdateCaseResult

LEMMA CaseEventWritten ==
  ASSUME StoreTypeOK, NEW c \in Cases, NEW kind, CreateCaseEvent(c, kind)
  PROVE  kind \in caseEvents'[c] /\ UNCHANGED cases
BY DEF StoreTypeOK, CreateCaseEvent

(* Each call of an attempt brings the record of its case as far as the     *)
(* next one needs it.                                                      *)
LEMMA RecordOwnCase ==
  ASSUME TypeOK, NEW b \in Attempts, CaseExists(b[1]), RunCaseForRun(b),
         RecordedBy(b[1], pc[b])
  PROVE  RecordedBy(b[1], pc[b])'
<1>0. StoreTypeOK /\ b[1] \in Cases /\ pc \in [Attempts -> InnerSteps \cup EngineSteps]
  BY DEF TypeOK, ExecutionTypeOK, Attempts
<1>1. CASE MarkCaseRunning(b) \/ ExecutionRaises(b) \/ SetupCase(b) \/ SetupRaises(b)
  BY <1>0, <1>1 DEF MarkCaseRunning, ExecutionRaises, SetupCase, SetupRaises, Goto, RecordedBy
<1>2. CASE AgentFails(b)
  BY <1>0, <1>2, CaseResultWritten DEF AgentFails, Goto, ErrorRow, RecordedBy
<1>3. CASE WriteCaseResult(b)
  <2>1. \E r \in Results : cases'[b[1]] = CompletedRow(r)
    BY <1>0, <1>3, CaseResultWritten DEF WriteCaseResult
  <2>2. pc'[b] = "clear"
    BY <1>0, <1>3 DEF WriteCaseResult, Goto
  <2>3. QED
    BY <2>1, <2>2 DEF CompletedRow, RecordedBy
<1>4. CASE ClearMetrics(b) \/ InsertMetric(b)
  <2>1. UNCHANGED cases
    BY <1>4 DEF ClearMetrics, InsertMetric, DeleteMetricsByCase, CreateMetricResult
  <2>2. pc[b] \in {"clear", "insert"} /\ pc'[b] \in {"insert", "event_completed"}
    BY <1>0, <1>4 DEF ClearMetrics, InsertMetric, Goto
  <2>3. QED
    BY <2>1, <2>2 DEF RecordedBy
<1>5. CASE EmitCaseEvent(b)
  BY <1>0, <1>5, CaseEventWritten DEF EmitCaseEvent, Goto, RecordedBy, Recorded
<1>6. CASE RecordCaseError(b)
  <2>1. CASE pc[b] = "raised"
    BY <1>0, <1>6, <2>1, CaseResultWritten DEF RecordCaseError, Goto, ErrorRow, RecordedBy
  <2>2. CASE pc[b] = "event_raised"
    BY <1>0, <1>6, <2>2, CaseEventWritten DEF RecordCaseError, Goto, RecordedBy, Recorded
  <2>3. QED
    BY <1>6, <2>1, <2>2 DEF RecordCaseError
<1>7. CASE TallyCases(b) \/ RefreshProgress(b)
  <2>1. UNCHANGED <<cases, caseEvents>>
    BY <1>7 DEF TallyCases, RefreshProgress, UpdateRunAggregates, db
  <2>2. pc[b] \in {"scored", "aggregate"} /\ pc'[b] \in {"aggregate", "done"}
    BY <1>0, <1>7 DEF TallyCases, RefreshProgress, Goto
  <2>3. QED
    BY <2>1, <2>2 DEF RecordedBy, Recorded
<1>8. QED
  BY <1>1, <1>2, <1>3, <1>4, <1>5, <1>6, <1>7 DEF RunCaseForRun, ExecuteAndScoreCase

LEMMA RecordRunCase ==
  ASSUME TypeOK, LaunchInv, RunningAttempts, CasesCreated, GatherInv, NoZombies, RecordInv,
         NEW b \in Attempts, RunCaseForRun(b)
  PROVE  RecordInv'
<1>0. /\ UNCHANGED <<wf, sched, attempt>>
      /\ RunExists' => RunExists
  BY RunCaseMovesOne, RunCaseRowsRemain DEF gather, RowsRemain, TypeOK
<1> SUFFICES ASSUME RunExists, NEW d \in Cases \ Overruns
             PROVE  /\ sched[d] = "ok" => Recorded(d)'
                    /\ sched[d] = "running" => RecordedBy(d, pc[Current(d)])'
  BY <1>0 DEF RecordInv
<1>1. Current(d)' = Current(d)
  BY <1>0 DEF Current
<1>2. CASE d # b[1]
  <2>1. cases'[d] = cases[d] /\ caseEvents'[d] = caseEvents[d]
    BY <1>2, RunCaseTouchesOne
  <2>2. sched[d] = "running" => Current(d) \in Attempts /\ Current(d) # b
    BY <1>2 DEF RunningAttempts, Current, Attempts
  <2>3. sched[d] = "running" => pc'[Current(d)] = pc[Current(d)]
    BY <2>2, RunCaseMovesOne
  <2>4. QED
    BY <1>1, <2>1, <2>3 DEF RecordInv, RecordedBy, Recorded
<1>3. CASE d = b[1]
  <2>1. sched[d] = "running" /\ b = Current(d)
    BY <1>3, RunCaseMovesOne DEF NoZombies
  <2>2. CaseExists(d)
    BY <2>1 DEF GatherInv, Settled, LaunchInv, CasesCreated
  <2>3. RecordedBy(d, pc[b])
    BY <2>1 DEF RecordInv
  <2>4. RecordedBy(d, pc[b])'
    BY <1>3, <2>2, <2>3, RecordOwnCase
  <2>5. QED
    BY <1>1, <2>1, <2>4
<1>4. QED
  BY <1>2, <1>3

LEMMA RecordStep ==
  ASSUME TypeOK, RunningAttempts, LaunchInv, CasesCreated, GatherInv, NoZombies, FreshInv,
         RecordInv, [Next]_vars
  PROVE  RecordInv'
<1>1. CASE ApiStep /\ UNCHANGED <<execution, engine>>
  BY <1>1, RecordApiStep
<1>2. CASE ActivityStep
  BY <1>2, RecordActivityStep
<1>3. CASE StartWorkflow \/ StartWorkflowFails \/ GatherCompletes \/ UNCHANGED vars
  BY <1>3, RecordKept
     DEF StartWorkflow, StartWorkflowFails, GatherCompletes, vars, execution, engine, gather,
         RunExists, db
<1>4. CASE \E c \in Cases : ScheduleCase(c) \/ CaseStep(c)
  BY <1>4, RecordCaseStep
<1>5. CASE \E a \in Attempts : RunCaseForRun(a)
  BY <1>5, RecordRunCase
<1>6. QED
  BY <1>1, <1>2, <1>3, <1>4, <1>5 DEF Next

(* Every case the workflow takes for executed has a result, and the event  *)
(* that announced it, whichever of its attempts and error paths wrote it.  *)
THEOREM ReportedCasesAreRecordedHolds == Spec => []ReportedCasesAreRecorded
<1>1. Init => FreshInv /\ RecordInv
  BY DEF Init, FreshInv, RecordInv
<1>2. TypeOK /\ RunningAttempts /\ LaunchInv /\ CasesCreated /\ GatherInv /\ NoZombies
        /\ FreshInv /\ RecordInv /\ [Next]_vars
        => FreshInv' /\ RecordInv'
  BY FreshStep, RecordStep
<1>3. RecordInv => ReportedCasesAreRecorded
  BY DEF RecordInv, Recorded, ReportedCasesAreRecorded
<1>4. QED
  BY <1>1, <1>2, <1>3, TypeInvariant, GatherInvariant, CasesInvariant, NoZombiesInvariant,
     PTL DEF Spec
=============================================================================
