------------------------------ MODULE TemporalRun ------------------------------
(***************************************************************************)
(* One run executed by the Temporal engine (workers/workflow.py): the      *)
(* workflow RunWorkflow, the activities it schedules, the attempts the     *)
(* Temporal server makes at each activity, and the API process on the same *)
(* rows.                                                                   *)
(*                                                                         *)
(* An attempt that raises, whose worker dies, or that exceeds its          *)
(* start_to_close_timeout is followed by another one until maximum_attempts*)
(* is reached; the activity then fails in the workflow.  No activity       *)
(* heartbeats, so nothing stops an attempt that is slow rather than dead:  *)
(* an attempt at a case of Overruns goes on after its timeout.  The        *)
(* other activities only make a few database calls within their five       *)
(* minutes and are assumed not to outlive them.                            *)
(***************************************************************************)
EXTENDS CaseExecution

CONSTANTS MaxConcurrency,   \* RunInput.max_concurrency
          ShortAttempts,    \* maximum_attempts of all activities but the case one
          Overruns          \* the cases whose attempts may outlive their timeout

ASSUME TemporalAssumption ==
  /\ MaxConcurrency \in Int
  /\ ShortAttempts \in Nat \ {0}
  /\ Overruns \subseteq Cases

VARIABLES
  wf,           \* where RunWorkflow.run is
  step,         \* next call of the activity it awaits ("end": all calls made)
  tries,        \* attempt number of that activity
  tally,        \* the CaseAggregates that activity has computed
  scored,       \* the metric rows that activity has read
  sched,        \* what the workflow knows of each case
  attempt,      \* attempt number of each scheduled case
  permits,      \* free slots of the asyncio.Semaphore
  seen          \* the CaseAggregates each attempt at a case has computed

activity == <<step, tries, tally, scored>>
gather   == <<sched, attempt, permits>>
engine   == <<wf, activity, gather, seen>>
vars     == <<db, api, execution, engine>>

Activities == {"mark_run_started", "fetch_run_cases", "finalize_run", "mark_run_failed"}
WfStates   == Activities \cup {"none", "gather", "done", "failed", "aborted"}
CaseStates == {"none", "waiting", "running", "ok", "failed"}
Steps      == {"none", "state", "cases", "metrics", "write", "event", "end"}

FirstStep(w) ==
  CASE w = "mark_run_started"                  -> "state"
    [] w \in Activities \ {"mark_run_started"} -> "cases"
    [] OTHER                                   -> "none"

Slots == IF MaxConcurrency > 1 THEN MaxConcurrency ELSE 1      \* max(1, ...)

-----------------------------------------------------------------------------
(* The workflow awaits an activity: a first attempt is scheduled.          *)
Await(w) ==
  /\ wf' = w
  /\ step' = FirstStep(w)
  /\ tries' = 1
  /\ tally' = NoAggregates
  /\ scored' = NoAverages

(* Mutation: the workflow is started while the cases are being created.    *)
StartWorkflowEarly ==
  /\ launch \in {"creating", "created"}
  /\ launch' = "submitted"
  /\ Await("mark_run_started")
  /\ UNCHANGED <<db, request, execution, gather, seen>>

(* launch_run hands the run to Temporal once start_run has returned.       *)
StartWorkflow ==
  /\ launch = "created"
  /\ launch' = "submitted"
  /\ Await("mark_run_started")
  /\ UNCHANGED <<db, request, execution, gather, seen>>

(* start_workflow raises before the server took the workflow: the client   *)
(* gets an error, the committed run stays as it is.                        *)
StartWorkflowFails ==
  /\ launch = "created"
  /\ launch' = "failed"
  /\ UNCHANGED <<db, request, execution, engine>>

-----------------------------------------------------------------------------
(* Calls of the activities other than the case one, in the order they are  *)
(* made.  Each advances the current attempt by one store call.             *)

Call(w, from, to) ==
  /\ wf = w
  /\ step = from
  /\ step' = to
  /\ UNCHANGED <<api, execution, wf, tries, gather, seen>>

MarkRunStarted ==
  \/ /\ Call("mark_run_started", "state", "event")
     /\ UpdateRunState("running")
     /\ UNCHANGED <<tally, scored>>
  \/ /\ Call("mark_run_started", "event", "end")
     /\ CreateRunEvent("run_started")
     /\ UNCHANGED <<tally, scored>>

(* The list of case ids is the result of the activity: reading it and      *)
(* handing it to the workflow are one step.                                *)
FetchRunCases ==
  /\ wf = "fetch_run_cases"
  /\ step = "cases"
  /\ wf' = "gather"
  /\ step' = "none"
  /\ tries' = 0
  /\ sched' = [c \in Cases |-> IF CaseExists(c) THEN "waiting" ELSE "none"]
  /\ permits' = Slots
  /\ UNCHANGED <<db, api, execution, tally, scored, attempt, seen>>

(* get_run returns None for a deleted run and run.total_cases raises, so   *)
(* the second step needs the row.                                          *)
FinalizeRun ==
  \/ /\ Call("finalize_run", "cases", "metrics")
     /\ tally' = SummarizeCases(cases)
     /\ UNCHANGED <<db, scored>>
  \/ /\ Call("finalize_run", "metrics", "write")
     /\ RunExists
     /\ scored' = metrics
     /\ UNCHANGED <<db, tally>>
  \/ /\ Call("finalize_run", "write", "event")
     /\ UpdateRunAggregates(tally, FinalVerdict(tally), "completed", scored)
     /\ UNCHANGED <<tally, scored>>
  \/ /\ Call("finalize_run", "event", "end")
     /\ CreateRunEvent("run_completed")
     /\ UNCHANGED <<tally, scored>>

(* Mutation: the counters of a failed run are reset, as runner.py does.    *)
MarkRunFailedResetting ==
  \/ /\ Call("mark_run_failed", "cases", "write")
     /\ tally' = NoAggregates
     /\ UNCHANGED <<db, scored>>
  \/ /\ Call("mark_run_failed", "write", "event")
     /\ UpdateRunAggregates(tally, "failed", "failed", NoAverages)
     /\ UNCHANGED <<tally, scored>>
  \/ /\ Call("mark_run_failed", "event", "end")
     /\ CreateRunEvent("run_failed")
     /\ UNCHANGED <<tally, scored>>

MarkRunFailed ==
  \/ /\ Call("mark_run_failed", "cases", "write")
     /\ tally' = SummarizeCases(cases)
     /\ UNCHANGED <<db, scored>>
  \/ /\ Call("mark_run_failed", "write", "event")
     /\ UpdateRunAggregates(tally, "failed", "failed", NoAverages)
     /\ UNCHANGED <<tally, scored>>
  \/ /\ Call("mark_run_failed", "event", "end")
     /\ CreateRunEvent("run_failed")
     /\ UNCHANGED <<tally, scored>>

(* The activity has made all its calls and its completion reaches the      *)
(* workflow, which goes on.                                                *)
ActivityCompletes ==
  /\ wf \in Activities
  /\ step = "end"
  /\ \/ wf = "mark_run_started" /\ Await("fetch_run_cases")
     \/ wf = "finalize_run"     /\ Await("done")
     \/ wf = "mark_run_failed"  /\ Await("failed")
  /\ UNCHANGED <<db, api, execution, gather, seen>>

(* Mutation: one attempt too many.                                         *)
ActivityFailsOnceMore ==
  /\ wf \in Activities
  /\ \/ /\ tries <= ShortAttempts
        /\ step' = FirstStep(wf)
        /\ tries' = tries + 1
        /\ tally' = NoAggregates
        /\ scored' = NoAverages
        /\ UNCHANGED wf
     \/ /\ tries > ShortAttempts
        /\ Await(IF wf = "mark_run_failed" THEN "aborted" ELSE "mark_run_failed")
  /\ UNCHANGED <<db, api, execution, gather, seen>>

(* Mutation: no except clause, the workflow just fails.                    *)
ActivityFailsUnhandled ==
  /\ wf \in Activities
  /\ \/ /\ tries < ShortAttempts
        /\ step' = FirstStep(wf)
        /\ tries' = tries + 1
        /\ tally' = NoAggregates
        /\ scored' = NoAverages
        /\ UNCHANGED wf
     \/ /\ tries = ShortAttempts
        /\ Await("failed")
  /\ UNCHANGED <<db, api, execution, gather, seen>>

(* The attempt raises, its worker dies, or its completion is lost and it   *)
(* times out, at any point of the activity.  Another attempt starts over;  *)
(* after the last one the workflow's except clause runs mark_run_failed,   *)
(* and nothing handles a failure of that.                                  *)
ActivityFails ==
  /\ wf \in Activities
  /\ \/ /\ tries < ShortAttempts
        /\ step' = FirstStep(wf)
        /\ tries' = tries + 1
        /\ tally' = NoAggregates
        /\ scored' = NoAverages
        /\ UNCHANGED wf
     \/ /\ tries = ShortAttempts
        /\ Await(IF wf = "mark_run_failed" THEN "aborted" ELSE "mark_run_failed")
  /\ UNCHANGED <<db, api, execution, gather, seen>>

-----------------------------------------------------------------------------
(* The gather: one coroutine per fetched case, each holding a slot of the  *)
(* semaphore for as long as its activity is not settled, retries included. *)

Current(c) == <<c, attempt[c]>>

ScheduleCase(c) ==
  /\ wf = "gather"
  /\ sched[c] = "waiting"
  /\ permits > 0
  /\ permits' = permits - 1
  /\ sched' = [sched EXCEPT ![c] = "running"]
  /\ attempt' = [attempt EXCEPT ![c] = 1]
  /\ Goto(<<c, 1>>, "setup")
  /\ UNCHANGED <<db, api, todo, wf, activity, seen>>

(* Mutation: the slot is never given back.                                 *)
SettleWithoutRelease(c, result) ==
  /\ sched' = [sched EXCEPT ![c] = result]
  /\ UNCHANGED permits

(* The coroutine of c leaves `async with limiter`.                         *)
Settle(c, result) ==
  /\ sched' = [sched EXCEPT ![c] = result]
  /\ permits' = permits + 1

(* Mutation: the activity returns before its refresh of the run.           *)
CaseCompletesBeforeRefresh(c) ==
  /\ sched[c] = "running"
  /\ pc[Current(c)] \in {"aggregate", "done"}
  /\ Settle(c, "ok")
  /\ UNCHANGED <<db, api, execution, wf, activity, attempt, seen>>

CaseCompletes(c) ==
  /\ sched[c] = "running"
  /\ pc[Current(c)] = "done"
  /\ Settle(c, "ok")
  /\ UNCHANGED <<db, api, execution, wf, activity, attempt, seen>>

(* Mutation: a retried case gives its slot back.                           *)
RetryReleasingSlot(c, left) ==
  \/ /\ attempt[c] < CaseAttempts
     /\ attempt' = [attempt EXCEPT ![c] = @ + 1]
     /\ pc' = [pc EXCEPT ![Current(c)] = left, ![<<c, attempt[c] + 1>>] = "setup"]
     /\ permits' = permits + 1
     /\ UNCHANGED sched
  \/ /\ attempt[c] = CaseAttempts
     /\ Goto(Current(c), left)
     /\ Settle(c, "failed")
     /\ UNCHANGED attempt

(* The attempt in progress is over for the server, and left at step `left`.*)
RetryOrGiveUp(c, left) ==
  \/ /\ attempt[c] < CaseAttempts
     /\ attempt' = [attempt EXCEPT ![c] = @ + 1]
     /\ pc' = [pc EXCEPT ![Current(c)] = left, ![<<c, attempt[c] + 1>>] = "setup"]
     /\ UNCHANGED <<sched, permits>>
  \/ /\ attempt[c] = CaseAttempts
     /\ Goto(Current(c), left)
     /\ Settle(c, "failed")
     /\ UNCHANGED attempt

(* A call outside the try block raises, or the worker dies at any point.   *)
CaseFails(c) ==
  /\ sched[c] = "running"
  /\ RetryOrGiveUp(c, "dead")
  /\ todo' = [todo EXCEPT ![Current(c)] = 0]
  /\ seen' = [seen EXCEPT ![Current(c)] = NoAggregates]
  /\ UNCHANGED <<db, api, wf, activity>>

(* start_to_close_timeout: the attempt is slow, and goes on.               *)
CaseOverruns(c) ==
  /\ c \in Overruns
  /\ sched[c] = "running"
  /\ RetryOrGiveUp(c, pc[Current(c)])
  /\ UNCHANGED <<db, api, todo, wf, activity, seen>>

(* Mutation: the gather only waits for the cases not yet scheduled.        *)
GatherCompletesEarly ==
  /\ wf = "gather"
  /\ \A c \in Cases : sched[c] # "waiting"
  /\ Await("finalize_run")
  /\ UNCHANGED <<db, api, execution, gather, seen>>

GatherCompletes ==
  /\ wf = "gather"
  /\ \A c \in Cases : sched[c] \in {"none", "ok", "failed"}
  /\ Await("finalize_run")
  /\ UNCHANGED <<db, api, execution, gather, seen>>

-----------------------------------------------------------------------------
(* run_case_for_run around execute_and_score_case.                         *)

(* Read the run and the case, prepare the execution on the control plane.  *)
SetupCase(a) ==
  /\ pc[a] = "setup"
  /\ Goto(a, IF RunExists /\ CaseExists(a[1]) THEN "start" ELSE "raised")
  /\ UNCHANGED <<db, api, todo, engine>>

SetupRaises(a) ==
  /\ pc[a] = "setup"
  /\ Goto(a, "raised")
  /\ UNCHANGED <<db, api, todo, engine>>

(* Mutation: the error of a case is written without its event.             *)
RecordCaseErrorSilently(a) ==
  /\ pc[a] = "raised"
  /\ UpdateCaseResult(a[1], ErrorRow)
  /\ Goto(a, "scored")
  /\ UNCHANGED <<api, todo, engine>>

(* The except clause turns whatever raised into an error of the case.      *)
RecordCaseError(a) ==
  \/ /\ pc[a] = "raised"
     /\ UpdateCaseResult(a[1], ErrorRow)
     /\ Goto(a, "event_raised")
     /\ UNCHANGED <<api, todo, engine>>
  \/ /\ pc[a] = "event_raised"
     /\ CreateCaseEvent(a[1], "case_error")
     /\ Goto(a, "scored")
     /\ UNCHANGED <<api, todo, engine>>

(* Refresh the counters of the run: read all its cases, ...                *)
TallyCases(a) ==
  /\ pc[a] = "scored"
  /\ seen' = [seen EXCEPT ![a] = SummarizeCases(cases)]
  /\ Goto(a, "aggregate")
  /\ UNCHANGED <<db, api, todo, wf, activity, gather>>

(* ... then write what was read, and that the run is running.              *)
RefreshProgress(a) ==
  /\ pc[a] = "aggregate"
  /\ UpdateRunAggregates(seen[a], "pending", "running", NoAverages)
  /\ Goto(a, "done")
  /\ seen' = [seen EXCEPT ![a] = NoAggregates]
  /\ UNCHANGED <<api, todo, wf, activity, gather>>

RunCaseForRun(a) ==
  \/ SetupCase(a)
  \/ SetupRaises(a)
  \/ ExecuteAndScoreCase(a) /\ UNCHANGED engine
  \/ RecordCaseError(a)
  \/ TallyCases(a)
  \/ RefreshProgress(a)

-----------------------------------------------------------------------------
Init ==
  /\ InitStore
  /\ InitApi
  /\ InitExecution
  /\ wf = "none"
  /\ step = "none"
  /\ tries = 0
  /\ tally = NoAggregates
  /\ scored = NoAverages
  /\ sched = [c \in Cases |-> "none"]
  /\ attempt = [c \in Cases |-> 0]
  /\ permits = 0
  /\ seen = [a \in Attempts |-> NoAggregates]

ActivityStep ==
  \/ MarkRunStarted
  \/ FetchRunCases
  \/ FinalizeRun
  \/ MarkRunFailed
  \/ ActivityCompletes
  \/ ActivityFails

CaseStep(c) ==
  \/ CaseCompletes(c)
  \/ CaseFails(c)
  \/ CaseOverruns(c)

Next ==
  \/ ApiStep /\ UNCHANGED <<execution, engine>>
  \/ StartWorkflow
  \/ StartWorkflowFails
  \/ ActivityStep
  \/ \E c \in Cases : ScheduleCase(c)
  \/ \E c \in Cases : CaseStep(c)
  \/ GatherCompletes
  \/ \E a \in Attempts : RunCaseForRun(a)

Spec == Init /\ [][Next]_vars

(* The Temporal server keeps the workflow and every scheduled activity     *)
(* going as long as a worker is up: an attempt advances, or the server     *)
(* times it out and tries again or gives up.  The API process owes         *)
(* nothing, and neither does an attempt the server no longer waits for.    *)
Fairness ==
  /\ WF_vars(ActivityStep)
  /\ WF_vars(GatherCompletes)
  /\ WF_vars(\E c \in Cases : ScheduleCase(c))
  /\ \A c \in Cases :
       WF_vars(CaseStep(c) \/ (sched[c] = "running" /\ RunCaseForRun(Current(c))))

FairSpec == Spec /\ Fairness

-----------------------------------------------------------------------------
(* Properties.                                                             *)

TypeOK ==
  /\ StoreTypeOK
  /\ ApiTypeOK
  /\ ExecutionTypeOK
  /\ wf \in WfStates
  /\ step \in Steps
  /\ tries \in 0..ShortAttempts
  /\ tally \in CaseAggregates
  /\ scored \in [Cases -> Nat]
  /\ sched \in [Cases -> CaseStates]
  /\ attempt \in [Cases -> 0..CaseAttempts]
  /\ permits \in Nat
  /\ seen \in [Attempts -> CaseAggregates]

InFlight == {c \in Cases : sched[c] = "running"}
Settled  == \A c \in Cases : sched[c] \notin {"waiting", "running"}

(* The workflow never has more cases in flight than the run allows: the    *)
(* semaphore of RunWorkflow.run is given back exactly once per case,       *)
(* however often the case was retried and however it ended.                *)
Pacing == Cardinality(InFlight) <= Slots

(* A run is never shown as ended, nor stamped completed_at, while the      *)
(* workflow still waits for one of its cases: only finalize_run and        *)
(* mark_run_failed write an ending, and neither overlaps the gather.       *)
NoEarlyEnding ==
  (run.completed_at \/ run.state \in {"completed", "failed"}) => Settled

(* A workflow that finished has scheduled every case of the run: it never  *)
(* starts on a run whose cases start_run is still creating.                *)
NoCaseIsLeftOut ==
  wf = "done" /\ RunExists => \A c \in Cases : sched[c] \in {"ok", "failed"}

(* Terminal-state guarantee of the workflow: once it is over, its row says *)
(* so, unless mark_run_failed itself ran out of attempts ("aborted").  An  *)
(* attempt that outlives its timeout can break it.                         *)
FinishedRunIsTerminal ==
  Overruns = {} /\ wf \in {"done", "failed"} /\ RunExists
     => run.state \in TerminalRunStates

(* The figures a finished run keeps are those of its case and metric rows  *)
(* as they remain: no retry, lost completion or late refresh leaves        *)
(* counters, averages or a verdict computed from an older state.           *)
FinalFiguresAreTrue ==
  Overruns = {} /\ RunExists =>
    /\ wf = "done" => /\ run.agg = SummarizeCases(cases)
                      /\ run.verdict = FinalVerdict(SummarizeCases(cases))
                      /\ run.averaged = metrics
    /\ wf = "failed" => /\ run.agg = SummarizeCases(cases)
                        /\ run.verdict = "failed"

(* Re-scoring a case is idempotent: however its attempts were interrupted, *)
(* it never has more metric rows than one scoring produces.                *)
MetricsNotDuplicated ==
  \A c \in Cases \ Overruns : metrics[c] <= MaxMetrics

(* Every way out of run_case_for_run leaves a result: a case the workflow  *)
(* knows to be executed is completed or in error, and the event that says  *)
(* so has been recorded.                                                   *)
ReportedCasesAreRecorded ==
  RunExists =>
    \A c \in Cases \ Overruns : sched[c] = "ok" =>
      \/ cases[c].status = "completed" /\ "case_completed" \in caseEvents[c]
      \/ cases[c].status = "error" /\ "case_error" \in caseEvents[c]

(* A run the worker has ended is never shown as in progress again: no      *)
(* progress refresh or restart of the run lands after its ending.          *)
EndedStaysEnded ==
  [][Overruns = {} /\ run.state \in {"completed", "failed"}
        => run'.state \notin {"pending", "running"}]_vars

(* The phase of the workflow that RunLifecycle speaks of.                  *)
Phase ==
  CASE wf = "none" /\ launch = "new"                  -> "new"
    [] wf = "none" /\ launch # "new"                  -> "accepted"
    [] wf \in {"mark_run_started", "fetch_run_cases"} -> "starting"
    [] wf = "gather"                                  -> "executing"
    [] wf = "finalize_run"                            -> "closing"
    [] wf = "mark_run_failed"                         -> "failing"
    [] wf \in {"done", "failed"}                      -> "over"
    [] wf = "aborted"                                 -> "abandoned"

Lifecycle ==
  INSTANCE RunLifecycle
    WITH Jobs     <- Cases,
         Width    <- Slots,
         phase    <- Phase,
         shown    <- run.state,
         waiting  <- {c \in Cases : sched[c] = "waiting"},
         inflight <- InFlight,
         settled  <- {c \in Cases : sched[c] \in {"ok", "failed"}}

(* Through all of its retries the engine shows a client no more than       *)
(* RunLifecycle promises: all cases of the run and each once, no more than *)
(* Slots of them in flight, progress before the ending, an ending after    *)
(* the last case and before the workflow returns.                          *)
ImplementsLifecycle == Lifecycle!Spec

(* A workflow that has been started ends, whatever its attempts do.        *)
WorkflowEnds == wf # "none" ~> wf \in {"done", "failed", "aborted"}

(* Once started, a run ends for good in a terminal state, unless it was    *)
(* deleted or mark_run_failed ran out of attempts.                         *)
RunSettles ==
  wf # "none" ~> []( \/ ~RunExists
                     \/ run.state \in TerminalRunStates
                     \/ wf = "aborted")
-----------------------------------------------------------------------------
(* What the repository says and the code does not keep.                    *)

(* runs/service.py:289, of the terminal states: "A run in one of these     *)
(* states never changes again."                                            *)
TerminalNeverChanges ==
  [][run.state \in TerminalRunStates => run'.state \in {run.state, "none"}]_vars

(* workers/activities.py:259-260: "scoring a case must be repeatable: drop *)
(* any rows a previous attempt left behind", so the metric rows of a case  *)
(* are those of the attempt whose result it shows, and a case in error,    *)
(* which scored nothing, has none.                                         *)
ErrorCasesHaveNoMetrics ==
  \A c \in Cases : sched[c] = "ok" /\ cases[c].status = "error" => metrics[c] = 0
=============================================================================
