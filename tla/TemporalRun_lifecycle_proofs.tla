---------------------- MODULE TemporalRun_lifecycle_proofs ----------------------
(***************************************************************************)
(* TemporalRun implements RunLifecycle when no attempt outlives its        *)
(* timeout: each step of the engine, of an attempt or of a client is one   *)
(* step of the abstract run, or leaves it unchanged.                       *)
(***************************************************************************)
EXTENDS TemporalRun_endings_proofs

-----------------------------------------------------------------------------
(* No case is scheduled before the list of cases has been fetched.         *)
Unplanned ==
  wf \in {"none", "mark_run_started", "fetch_run_cases"}
    => \A c \in Cases : sched[c] = "none"

LEMMA UnplannedStep ==
  ASSUME TypeOK, LaunchInv, GatherInv, Unplanned, [Next]_vars
  PROVE  Unplanned'
<1>1. CASE ApiStep /\ UNCHANGED <<execution, engine>>
  BY <1>1 DEF Unplanned, engine, gather
<1>2. CASE StartWorkflow \/ GatherCompletes
  BY <1>2 DEF StartWorkflow, GatherCompletes, Await, LaunchInv, Unplanned, gather
<1>3. CASE StartWorkflowFails \/ UNCHANGED vars
  BY <1>3 DEF StartWorkflowFails, vars, engine, gather, Unplanned
<1>4. CASE ActivityStep
  BY <1>4 DEF ActivityStep, MarkRunStarted, FetchRunCases, FinalizeRun, MarkRunFailed,
              ActivityCompletes, ActivityFails, Call, Await, Activities, gather, Unplanned
<1>5. CASE \E c \in Cases : ScheduleCase(c) \/ CaseStep(c)
  <2>1. wf' = wf /\ wf = "gather"
    BY <1>5 DEF ScheduleCase, CaseStep, CaseCompletes, CaseFails, CaseOverruns,
                GatherInv, Settled
  <2>2. QED
    BY <2>1 DEF Unplanned
<1>6. CASE \E a \in Attempts : RunCaseForRun(a)
  BY <1>6, RunCaseMovesOne DEF Unplanned, gather
<1>7. QED
  BY <1>1, <1>2, <1>3, <1>4, <1>5, <1>6 DEF Next

-----------------------------------------------------------------------------
(* The variables of the abstract run, and what leaves them alone.          *)

LEMMA Stutter ==
  ASSUME UNCHANGED <<wf, sched, run>>,
         \/ launch' = launch
         \/ wf # "none"
         \/ launch # "new" /\ launch' # "new"
  PROVE  UNCHANGED Lifecycle!job
BY DEF Lifecycle!job, Phase, InFlight

(* A write of the state is Shows of that state, or finds no row.           *)
LEMMA WriteShows ==
  ASSUME StoreTypeOK, UNCHANGED <<wf, launch, sched>>, NEW s \in RunStates,
         \/ UpdateRunState(s)
         \/ \E agg, verdict, averaged : UpdateRunAggregates(agg, verdict, s, averaged)
  PROVE  Lifecycle!Shows(s) \/ UNCHANGED Lifecycle!job
<1>1. CASE RunExists
  <2>1. run'.state = s /\ run.state # "none"
    BY <1>1 DEF UpdateRunState, UpdateRunAggregates, RunExists, StoreTypeOK, RunRows
  <2>2. QED
    BY <2>1 DEF Lifecycle!Shows, Phase, InFlight
<1>2. CASE ~RunExists
  <2>1. run' = run
    BY <1>2 DEF UpdateRunState, UpdateRunAggregates
  <2>2. UNCHANGED <<wf, sched, run>> /\ launch' = launch
    BY <2>1
  <2>3. QED
    BY <2>2, Stutter
<1>3. QED
  BY <1>1, <1>2

LEMMA LifecycleApiStep ==
  ASSUME TypeOK, LaunchInv, ApiStep, UNCHANGED <<execution, engine>>
  PROVE  Lifecycle!Next \/ UNCHANGED Lifecycle!job
<1>0. /\ UNCHANGED <<wf, sched>> /\ StoreTypeOK /\ "cancelled" \in RunStates
      /\ {c \in Cases : sched'[c] = "waiting"} = {c \in Cases : sched[c] = "waiting"}
  BY DEF engine, gather, TypeOK, RunStates
<1>1. CASE StartRun
  <2>1. wf = "none" /\ launch = "new" /\ launch' = "creating"
    BY <1>1 DEF StartRun, LaunchInv
  <2>2. run'.state = "pending"
    BY <1>1 DEF StartRun, CreateRun, NewRun
  <2>3. Lifecycle!Create
    BY <1>0, <2>1, <2>2 DEF Lifecycle!Create, Phase, InFlight
  <2>4. QED
    BY <2>3 DEF Lifecycle!Next
<1>2. CASE StartRunFails \/ \E c \in Cases : StartRunCreatesCase(c)
  BY <1>0, <1>2, Stutter DEF StartRunFails, StartRunCreatesCase, CreateCase, db
<1>3. CASE \E r \in Cancels : CancelWrites(r)
  <2>1. Lifecycle!Cancel \/ UNCHANGED Lifecycle!job
    BY <1>0, <1>3, WriteShows DEF CancelWrites, Lifecycle!Cancel
  <2>2. QED
    BY <2>1 DEF Lifecycle!Next
<1>4. CASE \E r \in Deletes : DeleteWrites(r)
  <2>1. run' = NoRun /\ launch' = launch
    BY <1>4 DEF DeleteWrites, DeleteRun
  <2>2. CASE RunExists
    <3>1. Lifecycle!Delete
      BY <1>0, <2>1, <2>2 DEF Lifecycle!Delete, Lifecycle!Shows, Phase, InFlight, RunExists,
                              NoRun, NewRun
    <3>2. QED
      BY <3>1 DEF Lifecycle!Next
  <2>3. CASE ~RunExists
    BY <1>0, <2>1, <2>3 DEF Lifecycle!job, Phase, InFlight, RunExists, NoRun, NewRun
  <2>4. QED
    BY <2>2, <2>3
<1>5. CASE \/ \E r \in Cancels : CancelChecks(r)
           \/ \E r \in Deletes : DeleteChecks(r)
  <2>1. UNCHANGED run /\ launch' = launch
    BY <1>5 DEF CancelChecks, DeleteChecks, db
  <2>2. QED
    BY <1>0, <2>1, Stutter
<1>6. QED
  BY <1>1, <1>2, <1>3, <1>4, <1>5 DEF ApiStep

-----------------------------------------------------------------------------
(* The activities.                                                         *)

LEMMA PhaseMoves ==
  ASSUME UNCHANGED <<sched, run>>
  PROVE  /\ UNCHANGED InFlight
         /\ {c \in Cases : sched'[c] = "waiting"} = {c \in Cases : sched[c] = "waiting"}
         /\ {c \in Cases : sched'[c] \in {"ok", "failed"}}
              = {c \in Cases : sched[c] \in {"ok", "failed"}}
         /\ run'.state = run.state
BY DEF InFlight

LEMMA LifecycleFetch ==
  ASSUME TypeOK, LaunchInv, CasesCreated, Unplanned, FetchRunCases
  PROVE  Lifecycle!Next
<1>1. /\ wf = "fetch_run_cases" /\ wf' = "gather" /\ UNCHANGED run
      /\ sched' = [c \in Cases |-> IF CaseExists(c) THEN "waiting" ELSE "none"]
  BY DEF FetchRunCases, db
<1>2. \A c \in Cases : sched[c] = "none"
  BY <1>1 DEF Unplanned
<1>3. run.state = "none" \/ CaseRowsOf = Cases
  BY <1>1 DEF CasesCreated, LaunchInv, RunExists, CaseRowsOf
<1>4. {c \in Cases : sched'[c] = "waiting"} = CaseRowsOf
  BY <1>1 DEF CaseRowsOf
<1>5. UNCHANGED InFlight
  BY <1>1, <1>2 DEF InFlight
<1>6. {c \in Cases : sched'[c] \in {"ok", "failed"}}
        = {c \in Cases : sched[c] \in {"ok", "failed"}}
  BY <1>1, <1>2
<1>7. Phase = "starting" /\ Phase' = "executing"
  BY <1>1 DEF Phase
<1>8. PICK J \in SUBSET Cases : J = CaseRowsOf
  BY DEF CaseRowsOf
<1>9. Lifecycle!Plan(J)
  BY <1>1, <1>3, <1>4, <1>5, <1>6, <1>7, <1>8 DEF Lifecycle!Plan
<1>10. QED
  BY <1>9 DEF Lifecycle!Next

LEMMA LifecycleActivityStep ==
  ASSUME TypeOK, LaunchInv, CasesCreated, Unplanned, FinishedRunIsTerminal', Overruns = {},
         ActivityStep
  PROVE  Lifecycle!Next \/ UNCHANGED Lifecycle!job
<1>0. StoreTypeOK /\ {"running", "completed", "failed"} \subseteq RunStates
  BY DEF TypeOK, RunStates
<1>1. CASE MarkRunStarted
  <2>1. UNCHANGED <<wf, launch, sched>> /\ Phase = "starting"
    BY <1>1 DEF MarkRunStarted, Call, api, gather, Phase
  <2>2. CASE UpdateRunState("running")
    <3>1. Lifecycle!Shows("running") \/ UNCHANGED Lifecycle!job
      BY <1>0, <2>1, <2>2, WriteShows
    <3>2. QED
      BY <2>1, <3>1 DEF Lifecycle!ShowProgress, Lifecycle!Next
  <2>3. CASE UNCHANGED run
    BY <2>1, <2>3, Stutter
  <2>4. QED
    BY <1>1, <2>2, <2>3 DEF MarkRunStarted, CreateRunEvent
<1>2. CASE FetchRunCases
  BY <1>2, LifecycleFetch
<1>3. CASE FinalizeRun
  <2>1. UNCHANGED <<wf, launch, sched>> /\ Phase = "closing"
    BY <1>3 DEF FinalizeRun, Call, api, gather, Phase
  <2>2. CASE UpdateRunAggregates(tally, FinalVerdict(tally), "completed", scored)
    <3>1. Lifecycle!Shows("completed") \/ UNCHANGED Lifecycle!job
      BY <1>0, <2>1, <2>2, WriteShows
    <3>2. QED
      BY <2>1, <3>1 DEF Lifecycle!ShowCompleted, Lifecycle!Next
  <2>3. CASE UNCHANGED run
    BY <2>1, <2>3, Stutter
  <2>4. QED
    BY <1>3, <2>2, <2>3 DEF FinalizeRun, CreateRunEvent, db
<1>4. CASE MarkRunFailed
  <2>1. UNCHANGED <<wf, launch, sched>> /\ Phase = "failing"
    BY <1>4 DEF MarkRunFailed, Call, api, gather, Phase
  <2>2. CASE UpdateRunAggregates(tally, "failed", "failed", NoAverages)
    <3>1. Lifecycle!Shows("failed") \/ UNCHANGED Lifecycle!job
      BY <1>0, <2>1, <2>2, WriteShows
    <3>2. QED
      BY <2>1, <3>1 DEF Lifecycle!ShowFailed, Lifecycle!Next
  <2>3. CASE UNCHANGED run
    BY <2>1, <2>3, Stutter
  <2>4. QED
    BY <1>4, <2>2, <2>3 DEF MarkRunFailed, CreateRunEvent, db
<1>5. CASE ActivityCompletes
  <2>1. UNCHANGED <<run, launch, sched>>
    BY <1>5 DEF ActivityCompletes, db, api, gather
  <2>2. CASE wf = "mark_run_started"
    <3>1. Phase = "starting" /\ Phase' = "starting"
      BY <1>5, <2>2 DEF ActivityCompletes, Await, Phase
    <3>2. QED
      BY <2>1, <3>1, PhaseMoves DEF Lifecycle!job
  <2>3. CASE wf \in {"finalize_run", "mark_run_failed"}
    <3>1. Phase \in {"closing", "failing"} /\ Phase' = "over" /\ wf' \in {"done", "failed"}
      BY <1>5, <2>3 DEF ActivityCompletes, Await, Phase
    <3>2. run.state \in TerminalRunStates \cup {"none"}
      BY <2>1, <3>1 DEF FinishedRunIsTerminal, RunExists
    <3>3. Lifecycle!Return
      BY <2>1, <3>1, <3>2, PhaseMoves
         DEF Lifecycle!Return, Lifecycle!Over, Lifecycle!Gone, TerminalRunStates
    <3>4. QED
      BY <3>3 DEF Lifecycle!Next
  <2>4. QED
    BY <1>5, <2>2, <2>3 DEF ActivityCompletes
<1>6. CASE ActivityFails
  <2>1. UNCHANGED <<run, launch, sched>> /\ wf \in Activities
    BY <1>6 DEF ActivityFails, db, api, gather
  <2>2. CASE wf' = wf
    BY <2>1, <2>2, Stutter
  <2>3. CASE wf # "mark_run_failed" /\ wf' = "mark_run_failed"
    <3>1. Phase \in {"starting", "closing"} /\ Phase' = "failing"
      BY <2>1, <2>3 DEF Phase, Activities
    <3>2. Lifecycle!Fail
      BY <2>1, <3>1, PhaseMoves DEF Lifecycle!Fail
    <3>3. QED
      BY <3>2 DEF Lifecycle!Next
  <2>4. CASE wf = "mark_run_failed" /\ wf' = "aborted"
    <3>1. Phase = "failing" /\ Phase' = "abandoned"
      BY <2>4 DEF Phase
    <3>2. Lifecycle!GiveUp
      BY <2>1, <3>1, PhaseMoves DEF Lifecycle!GiveUp
    <3>3. QED
      BY <3>2 DEF Lifecycle!Next
  <2>5. QED
    BY <1>6, <2>2, <2>3, <2>4 DEF ActivityFails, Await
<1>7. QED
  BY <1>1, <1>2, <1>3, <1>4, <1>5, <1>6 DEF ActivityStep

-----------------------------------------------------------------------------
(* The gather and the cases.                                               *)

LEMMA LifecycleTake ==
  ASSUME TypeOK, GatherInv, NEW c \in Cases, ScheduleCase(c)
  PROVE  Lifecycle!Next
<1>1. /\ wf = "gather" /\ UNCHANGED <<wf, run>> /\ permits > 0
      /\ sched[c] = "waiting" /\ sched' = [sched EXCEPT ![c] = "running"]
  BY DEF ScheduleCase, db
<1>2. sched \in [Cases -> CaseStates] /\ permits \in Nat
  BY DEF TypeOK
<1>3. {d \in Cases : sched'[d] = "waiting"} = {d \in Cases : sched[d] = "waiting"} \ {c}
  BY <1>1, <1>2
<1>4. InFlight' = InFlight \cup {c}
  BY <1>1, <1>2 DEF InFlight
<1>5. {d \in Cases : sched'[d] \in {"ok", "failed"}}
        = {d \in Cases : sched[d] \in {"ok", "failed"}}
  BY <1>1, <1>2
<1>6. Cardinality(InFlight) < Slots
  <2>1. permits + Cardinality(InFlight) = Slots
    BY <1>1 DEF GatherInv
  <2>2. QED
    BY <1>1, <1>2, <2>1, InFlightFinite, TemporalAssumption DEF Slots
<1>7. Phase = "executing" /\ Phase' = "executing"
  BY <1>1 DEF Phase
<1>8. Lifecycle!Cardinality(InFlight) < Slots
  BY <1>6 DEF Cardinality, Lifecycle!Cardinality
<1>9. Lifecycle!Take(c)
  BY <1>1, <1>3, <1>4, <1>5, <1>7, <1>8 DEF Lifecycle!Take
<1>10. QED
  BY <1>9 DEF Lifecycle!Next

LEMMA LifecycleSettle ==
  ASSUME TypeOK, GatherInv, NEW c \in Cases, sched[c] = "running",
         NEW result \in {"ok", "failed"}, Settle(c, result), UNCHANGED <<run, wf, launch>>
  PROVE  Lifecycle!Next
<1>1. sched \in [Cases -> CaseStates] /\ sched' = [sched EXCEPT ![c] = result]
  BY DEF TypeOK, Settle
<1>2. {d \in Cases : sched'[d] = "waiting"} = {d \in Cases : sched[d] = "waiting"}
  BY <1>1
<1>3. InFlight' = InFlight \ {c} /\ c \in InFlight
  BY <1>1 DEF InFlight
<1>4. {d \in Cases : sched'[d] \in {"ok", "failed"}}
        = {d \in Cases : sched[d] \in {"ok", "failed"}} \cup {c}
  BY <1>1
<1>5. Phase' = Phase
  BY DEF Phase
<1>6. Lifecycle!Settle(c)
  BY <1>2, <1>3, <1>4, <1>5 DEF Lifecycle!Settle
<1>7. QED
  BY <1>6 DEF Lifecycle!Next

LEMMA LifecycleCaseStep ==
  ASSUME TypeOK, GatherInv, Overruns = {}, NEW c \in Cases, CaseStep(c)
  PROVE  Lifecycle!Next \/ UNCHANGED Lifecycle!job
<1>1. UNCHANGED <<run, wf, launch>> /\ sched[c] = "running"
  BY DEF CaseStep, CaseCompletes, CaseFails, CaseOverruns, db, api
<1>2. CASE CaseCompletes(c)
  BY <1>1, <1>2, LifecycleSettle DEF CaseCompletes
<1>3. CASE CaseFails(c)
  <2>1. CASE UNCHANGED sched
    BY <1>1, <2>1, Stutter
  <2>2. CASE Settle(c, "failed")
    BY <1>1, <2>2, LifecycleSettle
  <2>3. QED
    BY <1>3, <2>1, <2>2 DEF CaseFails, RetryOrGiveUp
<1>4. QED
  BY <1>2, <1>3 DEF CaseStep, CaseOverruns

LEMMA LifecycleRunCase ==
  ASSUME TypeOK, GatherInv, NoZombies, Overruns = {}, NEW a \in Attempts, RunCaseForRun(a)
  PROVE  Lifecycle!Next \/ UNCHANGED Lifecycle!job
<1>0. wf = "gather" /\ StoreTypeOK /\ "running" \in RunStates
  BY QuietOutsideGather DEF TypeOK, RunStates
<1>1. UNCHANGED <<wf, sched>>
  BY RunCaseMovesOne DEF gather
<1>2. CASE RefreshProgress(a)
  <2>1. launch' = launch /\ UpdateRunAggregates(seen[a], "pending", "running", NoAverages)
    BY <1>2 DEF RefreshProgress, api
  <2>2. Lifecycle!Shows("running") \/ UNCHANGED Lifecycle!job
    BY <1>0, <1>1, <2>1, WriteShows
  <2>3. Phase = "executing"
    BY <1>0 DEF Phase
  <2>4. QED
    BY <2>2, <2>3 DEF Lifecycle!ShowProgress, Lifecycle!Next
<1>3. CASE ~RefreshProgress(a)
  <2>1. UNCHANGED run
    BY <1>3 DEF RunCaseForRun, SetupCase, SetupRaises, ExecuteAndScoreCase, RecordCaseError,
                TallyCases, MarkCaseRunning, AgentFails, WriteCaseResult, ClearMetrics,
                InsertMetric, EmitCaseEvent, ExecutionRaises, UpdateCaseResult,
                DeleteMetricsByCase, CreateMetricResult, CreateCaseEvent, db
  <2>2. QED
    BY <1>0, <1>1, <2>1, Stutter
<1>4. QED
  BY <1>2, <1>3

-----------------------------------------------------------------------------
LEMMA LifecycleInit == Init => Lifecycle!Init
BY DEF Init, InitStore, InitApi, NoRun, NewRun, Lifecycle!Init, Phase, InFlight

LEMMA LifecycleStep ==
  ASSUME TypeOK, LaunchInv, GatherInv, NoZombies, CasesCreated, Unplanned,
         FinishedRunIsTerminal', Overruns = {}, [Next]_vars
  PROVE  [Lifecycle!Next]_Lifecycle!job
<1>1. CASE ApiStep /\ UNCHANGED <<execution, engine>>
  BY <1>1, LifecycleApiStep
<1>2. CASE StartWorkflow
  <2>1. wf = "none" /\ UNCHANGED <<run, sched>> /\ Phase = "accepted" /\ Phase' = "starting"
    BY <1>2 DEF StartWorkflow, Await, LaunchInv, Phase, db, gather
  <2>2. Lifecycle!Submit
    BY <2>1, PhaseMoves DEF Lifecycle!Submit
  <2>3. QED
    BY <2>2 DEF Lifecycle!Next
<1>3. CASE StartWorkflowFails
  BY <1>3, Stutter DEF StartWorkflowFails, engine, gather, db
<1>4. CASE ActivityStep
  BY <1>4, LifecycleActivityStep
<1>5. CASE \E c \in Cases : ScheduleCase(c)
  BY <1>5, LifecycleTake
<1>6. CASE \E c \in Cases : CaseStep(c)
  BY <1>6, LifecycleCaseStep
<1>7. CASE GatherCompletes
  <2>1. /\ UNCHANGED <<run, sched>> /\ Phase = "executing" /\ Phase' = "closing"
        /\ \A c \in Cases : sched[c] \in {"none", "ok", "failed"}
    BY <1>7 DEF GatherCompletes, Await, Phase, db, gather
  <2>2. {c \in Cases : sched[c] = "waiting"} = {} /\ InFlight = {}
    BY <2>1 DEF InFlight
  <2>3. Lifecycle!Close
    BY <2>1, <2>2, PhaseMoves DEF Lifecycle!Close
  <2>4. QED
    BY <2>3 DEF Lifecycle!Next
<1>8. CASE \E a \in Attempts : RunCaseForRun(a)
  BY <1>8, LifecycleRunCase
<1>9. CASE UNCHANGED vars
  BY <1>9, Stutter DEF vars, db, api, engine, gather
<1>10. QED
  BY <1>1, <1>2, <1>3, <1>4, <1>5, <1>6, <1>7, <1>8, <1>9 DEF Next

(* Whatever the number of cases, of slots, of attempts and of requests,    *)
(* the Temporal engine does to a run only what RunLifecycle promises.      *)
THEOREM LifecycleImplemented == ASSUME Overruns = {} PROVE Spec => ImplementsLifecycle
<1>1. Init => Unplanned
  BY DEF Init, Unplanned
<1>2. TypeOK /\ LaunchInv /\ GatherInv /\ Unplanned /\ [Next]_vars => Unplanned'
  BY UnplannedStep
<1>3. TypeOK /\ LaunchInv /\ GatherInv /\ NoZombies /\ CasesCreated /\ Unplanned
        /\ FinishedRunIsTerminal' /\ [Next]_vars => [Lifecycle!Next]_Lifecycle!job
  BY LifecycleStep
<1>4. QED
  BY <1>1, <1>2, <1>3, LifecycleInit, GatherInvariant, NoZombiesInvariant, CasesInvariant,
     FinishedRunIsTerminalHolds, PTL
     DEF Spec, ImplementsLifecycle, Lifecycle!Spec
=============================================================================
