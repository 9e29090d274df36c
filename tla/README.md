# fred-agent-evaluator: TLA+ models, checks and proofs

fred-agent-evaluator runs a stored *evaluation* (a versioned list of cases)
against an agent: an API process creates a *run* with one row per case, an
execution engine calls the agent for each case, scores the answer and writes the
result, and the API shows the run while it progresses. There are two engines: a
Temporal workflow and a polling runner. Everything they agree on is in SQL rows.

Paths below are relative to
`src/apps/fred-evaluation-backend/fred_evaluation_backend/` unless they start
with `src/`.

Contents: [1 inventory](#1-inventory), [2 modules](#2-modules),
[3 runs](#3-runs), [4 findings](#4-findings), [5 proofs](#5-proofs),
[6 what is not modelled](#6-what-is-not-modelled), [7 plan](#7-plan).

## 1 Inventory

### Components

| component | state it keeps | operations | modelled |
|---|---|---|---|
| run store (`runs/store.py`, `runs/models.py`) | rows of `evaluation_run`, `evaluation_case`, `evaluation_metric_result`, `evaluation_event` | one transaction per method | `RunStore`; the numbers of events in `EventStream` |
| run API (`runs/service.py`, `runs/api.py`) | none between requests; a handler is a coroutine between two awaits | start, cancel, delete, analyse, list, read, report, stream | `RunApi` (against the engines), `EvaluationApi` (every route) |
| case execution (`workers/activities.py`) | the locals of one attempt | mark running, call agent, score, write result, replace metrics, emit event | `CaseExecution` |
| Temporal engine (`workers/workflow.py`, `main_worker.py`) | workflow history, semaphore, activity attempts | `RunWorkflow.run`, five activities | `TemporalRun`; abstractly `RunLifecycle` |
| polling engine (`workers/runner.py`) | `_running`, tasks, semaphores, all in one process | `tick`, `_run_run`, `_execute_run`, `_run_case` | `MemoryRunner`; abstractly `PolledLifecycle` |
| evaluation catalogue (`evaluations/`) | rows of `evaluation` | create with a version, list, read, delete with its runs | `EvaluationCatalog` (rows), `EvaluationApi` (routes); abstractly `TeamCatalogue` |
| event stream and task view (`runs/api.py`, `tasks/`) | cursor or last snapshot of each client | stream events, stream task snapshots, list tasks | `EventStream`, `EvaluationApi` (lists) |
| LLM analysis (`runs/api.py`, `execution/analysis_client.py`) | `analysis_json` of a run | read, ask the model, write | `EventStream` |
| scoring library (`src/libs/fred-deepeval-cli`) | none | outcome of a trace, structural checks, choice of metrics, verdicts | `CaseScoring` |
| access and error mapping (`runs/access.py`, `execution/evaluator_errors.py`, `hosted/entitlement.py`) | none | resolve the team of a row, map an upstream failure to a status and a code | `AccessGate` |
| hosted API (`hosted/api.py`) | none | the same services behind a team in the path | `EvaluationApi` |
| control plane and agent clients (`execution/`) | none | HTTP calls | as calls and their ways to fail |
| command line, data sets (`src/libs/fred-deepeval-cli`) | none | score one case, or a list of questions | the data set workflow, as a caller of `CaseScoring` |
| frontend (`src/apps/fred-evaluation-frontend`) | page state | poll a run, forms | no |
| configuration, telemetry, migrations, model factory | none at run time | | no |

### How they interact

```
client --HTTP--> API process --rows--> database <--rows-- worker process
                     |                                       ^
                     +-- start_workflow --> Temporal server --+   (Temporal engine)
                                            (the polling engine lists pending runs)
worker --HTTP--> control plane (prepare), agent runtime (evaluate)
```

* `start_run` commits the run row, then every case row in a transaction of its
  own; `launch_run` then hands the run to Temporal. With the polling engine
  nothing is handed over: the committed row is the message.
* `cancel_run` and `delete_run` read the row, decide, and write in a second
  transaction. No engine is told; it finds out by the rows it reads, if it does.
* the engines write the run row *without* a condition on what it holds.
* clients follow a run through its row, its events, or the task view of the row;
  each stream is a loop that polls the database.
* `create_evaluation` decides a version in one transaction and stores it in
  another; `delete_evaluation` lists the runs, then deletes one after the other,
  then the row.
* every route asks the Control Plane who the caller is to a team, and acts later.

### What is hard here

* **Unconditional writes of one row by several processes**: the API, one
  coroutine per case and the workflow's own activities all write
  `operational_state` and the counters, each from what it read a transaction
  earlier.
* **At-least-once execution**: Temporal repeats an activity that failed, whose
  worker died, whose completion was lost, or that was merely slow. Everything an
  activity does must bear being done again from any point of the first attempt.
* **Failing half-way**: there is no transaction around a run, a case or the
  ending of a run; each store call may raise, and its `except` clause too.
* **Restart**: the polling engine keeps everything in memory.
* **A semaphore under retries**: it paces the run and, if a slot were lost, would
  stop it.
* **Numbers taken without a lock**: the `seq` of an event is `max + 1` of what is
  committed, so two concurrent events share one, or commit in the other order,
  under a client whose cursor is a `seq`.
* **Check, await, act** in every handler: the row a gate looked at may be gone,
  running, or cancelled when the handler writes.

`PROJECT.json` lists 39 hazards, each at its line, with the properties that cover
it. One has none: two transactions that write the same row may each win some of
its columns (`runs/store.py:480`), see the abstractions of `RunStore`.

### What makes each component correct

* store: a deleted run leaves nothing and gets nothing; re-scoring replaces.
* API: a request that arrives while an engine works does not corrupt the run.
* engines: all cases of the run are executed, at most `max_concurrency` at a
  time; each ends in a recorded result; the run ends, once, after its cases, and
  keeps true figures; no run is left behind in `running`.
* catalogue: a version is never assigned that was already there; a deleted
  evaluation stays deleted, with its runs.
* event stream: no event twice, none missed that need not be, and an end.
* analysis: about the figures the run shows.
* scoring: a SQL error never passes; each metric asked for is reported; a case fails for a cause; no run
  passes on a minority of its cases.
* access: whatever the route, a caller reaches rows of a team that is his, or runs
  he created; a refusal leaves no trace.

## 2 Modules

```
RunStore <- RunApi <- CaseExecution <-+- TemporalRun  <-+- MCTemporalRun
 (rows)    (API)     (one attempt)    |   (INSTANCE     +- TemporalRun_proofs
                                      |  RunLifecycle)
                                      +- MemoryRunner <-+- MCMemoryRunner
                                      |   (INSTANCE     +- MemoryRunner_proofs
                                      |  PolledLifecycle)
                                      +- CaseExecution_proofs (lemmas for both)

TemporalRun_proofs <- TemporalRun_endings_proofs <- TemporalRun_lifecycle_proofs

EventStream <-+- MCEventStream        AccessGate ---------+- EvaluationApi   <-+- MCEvaluationApi
              +- EventStream_proofs   EvaluationCatalog --+  (INSTANCE         +- EvaluationApi_proofs
                                                              TeamCatalogue)

CaseScoring <-+- MCCaseScoring
              +- CaseScoring_proofs
```

`<-` is EXTENDS: a module adds the variables of its component and writes the
rows through the operators of `RunStore`. Each engine module is a closed system:
the API process, the engine and the failures of both. `EventStream`,
`EvaluationApi` and `CaseScoring` look at the same program from another side, with
the engine reduced to what that side sees of it; a section each says to what.

### RunStore

`run`, `cases`, `metrics`, `runEvents`, `caseEvents` are the tables as seen from
one run; a row that does not exist has state (or status) `"none"`. Each operator
is one method and one transaction. Modelled conversions: `SummarizeCases` is
`summarize_cases`, `FinalVerdict` the verdict `finalize_run` and
`_execute_run` compute (`insufficient >= total / 2` as `2 * insufficient >=
total`).

Abstractions, and why they are sound for the properties:

* A transaction is one step. Every method of the store opens a session, reads
  at most the row it writes and commits; SQLAlchemy's UPDATE sets the columns
  that changed, so two transactions that write the same row at once leave each
  column at one of the two written values. The columns of a run are written by
  one method with the same set of columns (`update_run_aggregates`) or by
  `update_run_state` (state and `started_at`), and the model serialises them. A
  mixture of two refreshes column by column is not in the model.
* Timestamps are "set" or "not set".
* `metric_averages_json` is the number of metric rows of each case it was
  computed from: what can go wrong is averaging other rows than those that
  remain, not the division.
* An event is its kind. Its `seq` and its duplicates belong to the event stream.
* `total_cases` is the number of cases: the API refuses an evaluation without
  cases, so it is not 0 (`CasesAssumption`).

### RunApi

`launch` is where `start_run`/`launch_run` is, `request[r]` where each cancel or
delete request is. `CancelChecks`/`CancelWrites` and `DeleteChecks`/
`DeleteWrites` are the two halves of a handler around its await. Nothing obliges
a handler to go on: it may stop for good between two steps, which is a crash of
the API process.

### CaseExecution

`execute_and_score_case` and its inner function, one action per store call, in
the order of the code; `pc[<<c, k>>]` is the next call of the k-th execution of
case c. Calling the agent and scoring touch nothing shared, so they are in the
step that writes their result; what they return is a free choice in `Results`
and `0..MaxMetrics`. `ExecutionRaises` stands for any call of the body raising.

### TemporalRun

| code | model |
|---|---|
| `RunWorkflow.run`, which await it is at | `wf` |
| a `workflow.execute_activity` call and its `RetryPolicy` | `Await`, `ActivityFails`, `ActivityCompletes`, `tries` |
| `mark_run_started`, `fetch_run_cases`, `finalize_run`, `mark_run_failed` | actions of the same names; `step` is the next store call, `tally`, `scored` the locals |
| `asyncio.gather` over `run_limited_case`, `Semaphore(max(1, n))` | `sched`, `permits`, `ScheduleCase`, `Settle`, `GatherCompletes` |
| the attempts at `run_case_for_run` | `attempt[c]`, `RetryOrGiveUp`, `pc[<<c, k>>]` |
| `run_case_for_run` around the execution | `SetupCase`, `RecordCaseError`, `TallyCases`, `RefreshProgress` |
| a slow attempt, after `start_to_close_timeout` | `CaseOverruns`: the server moves on, the attempt keeps its `pc` and goes on |

`CaseFails` and `ActivityFails` cover at once a raised exception, a worker that
died and a completion that was lost, at any point of the attempt. The cases of
`Overruns` are those whose attempts may outlive their `start_to_close_timeout` of two hours. The short
activities make a few database calls within five minutes and are assumed not to
outlive them.

### MemoryRunner

| code | model |
|---|---|
| `tick`: query, then `create_task` for what is not in `_running` | `ListPendingRuns`, `CreateTask`, `tick`, `running` |
| `_run_run`, `_execute_run` | `task[k]`, `MarkStarted`, `PrepareFails`, `ListCases`, `GatherReturns`, `Finalize` |
| `except` and `finally` of `_run_run` | `TaskRaises`, `HandleException`, `TaskEnds` |
| `_run_case`, `Semaphore(max(1, n))` | `AcquireSlot`, `CaseReturns`, `CaseErrorWritten`, `permits[k]` |
| the process dies and is restarted | `Crash` |

The k-th task of the run executes case c as attempt `<<c, k>>`. `ListCases`
stands for the preparation that succeeded and the query of the cases, between
which nothing is written.

### RunLifecycle

The abstract run: phases (new, accepted, starting, executing, closing, failing,
over, abandoned), the cases waiting, in flight and settled, and the state shown to
clients, which is written apart from the phase. It says what may be shown in which
phase (progress while starting or executing, completed only while closing, failed
only while failing), that cases are taken at most `Width` at a time and each once,
that nothing closes before all are settled, and that a workflow returns only with
an ending shown or with its row gone. `TemporalRun` implements it under

| `RunLifecycle` | `TemporalRun` |
|---|---|
| `phase` | `Phase`, from where `wf` and the launch are |
| `shown` | `run.state` |
| `waiting`, `inflight`, `settled` | the cases whose `sched` is waiting; running; ok or failed |
| `Jobs`, `Width` | `Cases`, `Slots` |

The store calls of an attempt, its retries, the events and the figures stutter.

### PolledLifecycle

The same run as the polling engine executes it. It differs where the engines do. A
run is offered by being shown as pending, so a look (`See`) and the claim that follows
(`Claim`) are two steps, and the claim does not look again: what was executed in
between is executed once more. Nobody claims a run while it is executed (`PassOver`).
An execution begins with whatever cases there are rows of, takes them at most `Width` at a time,
and closes when none waits and none is in flight. It leaves an ending or no row behind
(`Leave`), unless it gives up while it is failing (`GiveUp`, `Abandon`) or the process
dies (`Crash`). `MemoryRunner` implements it under

| `PolledLifecycle` | `MemoryRunner` |
|---|---|
| `offered`, `shown` | a run was created; `run.state` |
| `seen` | the tick holds the run, which it has read as pending |
| `phase` | `Phase`: the `PhaseOf` the one task that is not over, "idle" without one |
| `waiting`, `inflight` | of the task in its gather, the cases whose coroutine is `"waiting"`; between its first call and its last |
| `Jobs`, `Width` | `Cases`, `Slots` |

A task is not in the abstract state: that a single phase can stand for all of them is
part of what is shown.

### EventStream

| code | model |
|---|---|
| an activity of `RunWorkflow`, in the order of `run` | `Due`, `Schedule`, `at[a]`, `tries[a]`, `AttemptFails`, `ActivityCompletes` |
| its writes of the run row and of a result | `RunActivityWrites`, `CaseActivityWrites` |
| `create_run_event`: `select max(seq) + 1`, insert | `TakeNumber`, `CommitEvent`, two steps |
| `stream_run_events`: a query, the yields, a look at the row | `OpenStream`, `TellEvents`, `CheckState` |
| `stream_task_events` | `OpenTaskStream`, `TellSnapshot` |
| `write_run_analysis` between its awaits | `AnalysisReads`, `AnalysisFails`, `AnalysisWrites` |
| `cancel_run`, `delete_run`, as they land | `CancelLands`, `DeleteLands` |

An event is named by the activity and the attempt that recorded it, so a retried
activity records a second event. The transaction of `create_run_event` runs under
READ COMMITTED and takes no lock: other events may commit between its two steps.
`overtaken` is a history variable: the events that found a number as great as theirs
when they committed. The engine is reduced: no attempt outlives its timeout, the
tally of the cases and the write of the counters are one step (`TemporalRun` has
them apart), metric rows and verdicts are left out. Cancel and delete requests land
whenever a row is there, which is more than their checks let through. A missing
model client answers 503 in `AnalysisReads` whenever a request comes; the code fixes
this at start-up.

### AccessGate, EvaluationCatalog, EvaluationApi

`AccessGate` has the answers (a status and a code), what each way of failing of a
Control Plane call becomes (`MapControlPlaneError`), and the three gates that ask
it: `ResolveTeamMembership`, `RequireEntitled`, `ResolveManagedInstance`. That the
Control Plane knows the members of a team, and refuses a caller who is not of the
team of an instance or of the applications he lists, is an assumption on the
outside. `EvaluationCatalog` has the rows of evaluations and of runs, and the store
methods the API decides on; a version is what `int(v.lstrip("v"))` sees of it.

`EvaluationApi` composes them. A route is the sequence of its steps between two
awaits (`Routes[surface][op]`, for the surfaces `v1`, `tasks` and `hosted`), and a
request a coroutine that goes through them:

| step | action | code |
|---|---|---|
| | `Arrive`, `Unauthenticated` | `get_current_user` and the route's parameters |
| `entitled` | `IsEntitled` | `hosted/entitlement.py` |
| `evaluation`, `run` | `LoadEvaluation`, `LoadRun` | `runs/access.py`, `_require_team_*` of `hosted/api.py` |
| `member` | `IsMemberOfTeam` | `require_team_member` |
| `version`, `insert` | `ResolveVersion`, `InsertEvaluation` | `create_evaluation` |
| `list_runs`, `cascade` | `ListRunsToDelete`, `DeleteListedRun`, `DeleteEvaluationRow` | `delete_evaluation` |
| `prepare`, `insert_run`, `insert_cases`, `submit` | `PrepareTarget`, `InsertRun`, `InsertCases`, `StartWorkflow` | `launch_run`, `start_run` |
| `check_cancel`, `cancel`, `check_delete`, `delete` | `CheckCancel`, `CancelRun`, `CheckDelete`, `EraseRun` | `cancel_run`, `delete_run` |
| `list`, `mine`, `read_*`, `fetch` | `ListTeam`, `ListMine`, `ReadEvaluation`, `ReadRun`, `FetchFromControlPlane` | the routes that only read |

`RequestFails` is a step whose database or Temporal call raises: nothing undoes
what was committed before. Routes that read the same rows through the same gates are
one operation. The worker is `WorkerStarts` and `WorkerEnds`: what `TemporalRun` shows
of a submitted run. `history` is for the properties only: which teams' rows a
request touched, whether it changed anything, what it saw. The cases of a run are
inserted in one step here (`RunApi` has them one by one), and a report's team name,
which is best-effort, fails nothing.

### TeamCatalogue

What the interface promises of the rows, without surfaces, routes, gates and awaits. A
request asks for one operation (`Ask`), or is not let in (`TurnAway`), and from then on
owes that operation's writes. It is refused before the first of them (`Refuse`), breaks
before any of them (`Break`), or is answered after the last. Each write has as its guard
what must be true of the rows at that very moment: the row is of a team of the caller
(`Own`), a run is stored under an evaluation that is there and with its team
(`InsertRun`), an evaluation goes when it has no runs left (`DeleteEvaluation`), after a
look that saw none of them running (`ListRuns`). What it does not promise is as telling:
a cancel writes whatever the run has become since it was looked at (`Cancel`), a run may
be deleted while it is submitted (`Submit`, `Delete`), and one of the evaluation's runs
may start between the look and its delete (`DeleteOne`). `EvaluationApi` implements it
under

| `TeamCatalogue` | `EvaluationApi` |
|---|---|
| `evaluations`, `runs` | the same |
| `asked[r]` | operation, caller and target of `req[r]` |
| `owed[r]` | the writes among the steps `req[r].todo` has left |
| `status[r]` | the status of the answer, 0 without one |
| `TeamsOf`, `Executes` | `IsMember`, the Control Plane's assumed answer; `TemporalConfigured` |

Every gate and every check before a write stutters; that they stand in front of all
writes, on every route, and that what they found is still true when the row is written,
is what the refinement shows. Own rows are stated of writes only; what a caller reads is
`OnlyOwnTeamIsReached`.

### CaseScoring

The pure rules of the library as operators (`ClassifyOutcome`, `ResolveProfile`,
`BuildStructuralChecks`, `MetricsOfProfile`, `CaseVerdict`, `RunVerdict`), and the
steps that use them, for both callers: the worker (selected metrics, verdicts) and
the data set workflow (metrics by profile, `rag_ok`). The loop over the selection is
`SelectMetric`, a metric at a time: reported as skipped, or put in the queue that
`Measure` works off. What raises ends in two different ways. The worker fails the case
with the outcome `execution_error` and records no profile (`AgentFails`,
`ScoringRaises`). Of a question, an agent that cannot be asked gives a result without
checks and metrics, under the profile the question named, `auto` unless it named one
(`FetchFails`, `evaluator.py:61-70`); anything else, building the judge included, gives
the outcome `error` and the profile `unknown` (`QuestionRaises`,
`dataset_workflow.py:43-53`). A trace is what these rules tell
apart: its error flag, whether it has an output, a retrieval context and a search
step, the kinds and tools of its steps, its tags. A measured metric answers freely.
A structural check is passed, failed, or not applicable.

The `score` command and `scripts/run_rag_scenarios.py` without Temporal call
`evaluate_case_sync` too, but catch nothing: where the model has `QuestionRaises`, their
process ends. The command has no expected output and no `rag_ok`; its exit code is 1 for
the outcome `execution_error`. They are not callers of the model.

## 3 Runs

| run | expects | distinct states | question |
|---|---|---|---|
| `temporal_safety` | pass | 1.4 million | do retries, lost completions, worker deaths, a cancel and a delete leave a run that is complete, true and ended, and is that an implementation of `RunLifecycle`? |
| `temporal_overrun` | pass | 1.6 million | what still holds when an attempt outlives its timeout beside its own retry? |
| `temporal_live` | pass | 340 thousand | does the workflow end and settle its run? |
| `memory_safety` | pass | 2.6 million | the same questions of the polling engine, with a crash and a cancel |
| `memory_live` | pass | 300 thousand | with a crash at any point, is a pending run picked up, does its task end, and is the engine an implementation of `PolledLifecycle`? |
| `stream_follow` | pass | 390 thousand | what does a client learn of a run, and does its stream end? |
| `api_safety` | pass | 1.1 million | which rows does a request reach, and what does it leave behind, beside any other request and the worker, and is that an implementation of `TeamCatalogue`? |
| `scoring_verdicts` | pass | 2 million | which verdict follows from which trace and scores? |
| `temporal_terminal`, `temporal_rescoring`, `memory_partial`, `analysis_once` | violation | | one statement of the repository each, see section 4 |

### What the passing properties say

* `NoEarlyEnding` (Temporal, overruns included): a run never reads as ended, and never
  carries `completed_at`, while one of its cases is in flight. Of the polling engine the
  same is part of `PolledLifecycle`, and a theorem of its own.
* `NoCaseIsLeftOut`: a workflow that is done has executed every case the run has.
* `FinishedRunIsTerminal`: no finished workflow leaves its run in progress.
* `FinalFiguresAreTrue`, `CompletedFiguresAreTrue`: the counters, averages and
  verdict kept are those of the rows that remain.
* `MetricsNotDuplicated`: retrying a half-scored case does not add metric rows.
* `ReportedCasesAreRecorded`, `CompletedRunHasResults`: however a case ended, its
  row has a result (and, with Temporal, its event).
* `EndedStaysEnded`: no late refresh makes an ended run look running again.
* `Pacing`, `OneExecution`: `max_concurrency` is respected through retries,
  overruns and stale ticks, and the polling engine never executes a run twice at
  once.
* `OrphanedOnlyByFault`: a run is left in `running` only by a crash or by an
  `except` clause that could not write either. Nothing picks such a run up
  again: the poll lists pending runs only.
* `WorkflowEnds`, `RunSettles`, `PendingIsPickedUp`, `TasksEnd`: liveness.
* `ImplementsLifecycle`, `ImplementsPolledLifecycle`: every step of `TemporalRun` is
  one of `RunLifecycle`, and every step of `MemoryRunner` one of `PolledLifecycle`, or
  shows nothing.
* `ImplementsCatalogue`: every step of `EvaluationApi` is one of `TeamCatalogue`, or
  shows nothing. A gate left out of one route of one surface, a refusal after a write, a
  write out of order or a check that is no longer true when it is acted on breaks it.
* `ToldOnce`, `OnlyOvertakenIsMissed`, `OnlyCasesAreOvertaken`: a stream repeats no
  event, and misses one only if another event had reached its number before it was
  committed, which happens to events of cases alone. So a client that sees fewer
  case events than cases has lost them to the shared numbers, not to the stream; the
  start and the endings are never lost that way.
* `StreamsEnd`, `TaskStreamsEnd`: streams of a run that stays terminal end; the task
  stream also ends when its run is deleted, which the event stream does not.
* `TaskStreamTellsFinalCounters`, `AnalysisIsOfThisRun`: what was told or analysed on
  "completed" is what the run keeps showing.
* `OnlyOwnTeamIsReached`: the gates of three surfaces stand in different places and
  no route misses one. `RefusalChangesNothing`: no 4xx, 502 or 503 after a write.
* `VersionsUniqueUnlessRaced`: two evaluations share (team, name, version) only if
  neither was there when the other's version was decided.
* `DeletedIsGone`, `DeleteFailsOnlyByRace`: after a 204 nothing comes back, whatever
  `start_run` had read before; the cascade breaks on the foreign key only if a run
  was created after its listing.
* `AcceptedRunIsSubmitted`: a run without a workflow belongs to a 500, never a 202.
* `SqlErrorIsNeverPassed`: `classify_outcome` and the checks of the sql profile each
  read the errors of a trace, and the verdict reads the checks alone. A SQL case whose
  outcome is `execution_error` or `degraded` fails all the same, for both callers. A
  question whose agent could not be asked is the exception: see section 4.
* `EveryMetricIsReported`, `FailedHasACause`, `PassedRunHasMajority`: the verdict
  rules, compared with what they mean rather than with how they are written.

Three properties are stated under `Overruns = {}`. With an attempt that outlives
its timeout they do not hold: it writes its result and refreshes the run after
`finalize_run`, and the run reads `running` for ever. The code excludes this only
by the timeouts being longer than the calls they cover; the models say so
instead of hiding it, and `temporal_overrun` checks what holds regardless.

### Bounds, and why they are enough

| bound | value | why |
|---|---|---|
| `Cases` | 2 | a race over counters, semaphore or gather needs two; a third repeats one of them |
| `CaseAttempts` | 2 (code: 2) | as in the code; for the polling engine, two tasks: one to be overtaken and one to overtake |
| `ShortAttempts` | 2 (code: 3) | a first attempt, a repeated one, and giving up |
| `MaxConcurrency` | 1 and 2 | 1 makes a case wait for a slot, 2 lets two run at once |
| `MaxMetrics` | 1 (0 where rows of metrics play no part) | one row is enough to be duplicated or to be left over |
| `Cancels`, `Deletes` | one each in `temporal_safety`, a cancel in `memory_safety`, a delete in `temporal_live` | a handler between its check and its write, at any moment |
| `MaxCrashes` | 1 | the second crash finds what the first one did: an empty `_running` |
| `Cancels`, `Deletes` (`memory_live`) | none | with a cancel its liveness check does not end in time; `memory_safety` has one, and the refinement is proved for any number |
| `Results` | one result | the figures depend on which rows are read when; an error of a case is the second kind of result, so tallies differ |
| `Attempts`, `MaxFailures` (`EventStream`) | 2, 2 | both cases, or one activity twice, fail and are repeated |
| `MaxClients` | 1 (2 for `analysis_once`) | streams only read, so they cannot disturb each other; an analysis only writes its own column |
| `Requests` | 2 | every race of the API is between two requests, or a request and the worker |
| evaluations, runs, teams, users (`EvaluationApi`) | 2, 1, 2, 2 | an own and a foreign one of each; the seeded run was created by a user who has left its team |
| `Declared` | `v2`, a label | the version the server would assign next, and one that is no number |
| `MaxFailures` (`EvaluationApi`) | 1 | one call failing, at any step of any request |
| `TraceSteps`, `Tags` | 7 steps, 5 sets of tags | one step for each condition of the checks and its near miss |
| `Selectable`, `MaxSelected`, `MaxCustom` | 2 metrics, 2, 1 | one with and one without an expected output, the same one twice, a custom one |
| `Total` | 4 | an exact half, above and below it |

`SYMMETRY` over the cases is used in the two engine safety runs, and over the
requests in `api_safety` (nothing distinguishes them in any definition, and no
liveness is checked there).
`CHECK_DEADLOCK FALSE`: a run that ended stops, and that is the end of the system.

### Fairness

* `TemporalRun`: weak fairness of the workflow's own steps and, per case, of "the
  current attempt advances, or the server times it out and tries again or gives
  up". This is what a Temporal server with a worker provides: every activity has
  a `start_to_close_timeout` and a finite `maximum_attempts`. An attempt may fail
  every time; fairness does not promise success. Attempts the server no longer
  waits for are owed nothing.
* `MemoryRunner`: weak fairness of the tick (`run_forever` loops), of each task
  and of each case coroutine: one event loop runs them all as long as the process
  lives, and a process that died is restarted.
* `EventStream`: weak fairness of the two generators, which poll again after each
  sleep as long as they are read. None of the engine: what ends the streams is the
  row, however it came to be terminal.
* API handlers: none.

## 4 Findings

Four statements in the repository that the code does not keep. Each has a run
that checks this one property, and TLC shows the behaviour.

1. `TerminalNeverChanges` - `runs/service.py:289` says a run in a terminal state
   "never changes again". `mark_run_started` and every refresh write `running`
   without reading, so a cancelled run goes back to running and is completed.
2. `ErrorCasesHaveNoMetrics` - `workers/activities.py:259-260` says scoring drops
   "any rows a previous attempt left behind". Only the success path does: a retry
   that ends in error keeps the metric rows of the attempt before, and
   `finalize_run` averages them.
3. `CompletedRunIsComplete` - `src/docs/ARCHITECTURE.md:79-82` has the worker
   detect a run after its cases were copied. The poll can see the run between its
   own commit and those of its cases, and complete it with some of them.
4. `AnalysisWrittenOnce` - `runs/api.py:163` says the analysis is written "(once)".
   Two requests that both found none write one after the other, and the second
   replaces the text the first has answered.

Observed while modelling, without a run of their own:

* `workers/workflow.py:19-21` says `completed_cases` "genuinely increments as cases
  finish". Two cases that finish together may write their tallies in the opposite
  order of their reads, so it may go back for a moment; `FinalFiguresAreTrue` is
  what holds in the end.
* In the polling engine a refused preparation counts an execution error for every
  case and leaves every case row pending (`workers/runner.py:96-117`), where
  `src/docs/DEVELOPER_CONTRACT.md:205-206` has it surface "as that case's execution
  error".
* `_resolve_version` speaks of `v<n>` versions; `int(v.lstrip("v"))` also counts a
  declared plain `7`, so the next assigned version is `v8`. This is how
  `VersionsUniqueUnlessRaced` comes to hold for declared versions too.
* The delete route of the catalogue declares `EvaluatorErrorResponse` for 404 and 409
  (`evaluations/api.py:117-118`); the service raises plain texts. The model has them
  as `Refused(404)` and `Refused(409)`.
* The personal alias is refused on the hosted surface only.
* `docs/sql-evaluation.md:89-98` of the library has `sql_no_execution_error_ok` also look
  at results whose text starts with `Error:`. `structural_checks.py:74-82` reads
  `is_error`, `node_error` and the trace's error only; such a text is
  only kept from counting as a successful result (`HasSuccessfulToolResult`).
* A question whose agent cannot be asked has no checks, so `rag_ok` is
  `all([])`, which is true (`dataset_workflow.py:55`), beside the outcome
  `execution_error`. A question for which the judge cannot be built is not `rag_ok`.
* Only the checks of the sql profile read the errors of a trace. Under another profile
  the worker passes a case whose outcome is `execution_error` if its checks and metrics
  pass (`workers/activities.py:209-217`).

## 5 Proofs

Proved for every set of cases, every number of attempts, every concurrency, every
number of metrics, every set of overrunning cases and any requests:

| theorem | module | what it says |
|---|---|---|
| `TypeCorrect` | `TemporalRun_proofs` | `TypeOK`; in particular no attempt number exceeds its `maximum_attempts` |
| `PacingHolds` | `TemporalRun_proofs` | `Pacing`, overruns included |
| `NoEarlyEndingHolds` | `TemporalRun_proofs` | `NoEarlyEnding`, overruns included |
| `NoCaseIsLeftOutHolds` | `TemporalRun_endings_proofs` | `NoCaseIsLeftOut`, overruns included |
| `FinishedRunIsTerminalHolds` | `TemporalRun_endings_proofs` | `FinishedRunIsTerminal` |
| `FinalFiguresAreTrueHolds` | `TemporalRun_endings_proofs` | `FinalFiguresAreTrue` |
| `EndedStaysEndedHolds` | `TemporalRun_endings_proofs` | the action property `EndedStaysEnded` |
| `MetricsNotDuplicatedHolds` | `TemporalRun_endings_proofs` | `MetricsNotDuplicated` |
| `ReportedCasesAreRecordedHolds` | `TemporalRun_endings_proofs` | `ReportedCasesAreRecorded` |
| `LifecycleImplemented` | `TemporalRun_lifecycle_proofs` | `ImplementsLifecycle`, the refinement, for `Overruns = {}` |
| `MemoryTypeCorrect` | `MemoryRunner_proofs` | `TypeOK` |
| `OneExecutionHolds` | `MemoryRunner_proofs` | `OneExecution` |
| `MemoryNoEarlyEndingHolds` | `MemoryRunner_proofs` | `NoEarlyEnding` of the polling engine; its run checks it within `ImplementsPolledLifecycle` |
| `CompletedFiguresAreTrueHolds` | `MemoryRunner_proofs` | `CompletedFiguresAreTrue` |
| `OrphanedOnlyByFaultHolds` | `MemoryRunner_proofs` | `OrphanedOnlyByFault` |
| `CompletedRunHasResultsHolds` | `MemoryRunner_proofs` | `CompletedRunHasResults` |
| `PolledLifecycleImplemented` | `MemoryRunner_proofs` | `ImplementsPolledLifecycle`, the refinement, crashes included |
| `StreamTypeCorrect` | `EventStream_proofs` | `TypeOK` |
| `ToldOnceHolds`, `OnlyOvertakenIsMissedHolds`, `OnlyCasesAreOvertakenHolds` | `EventStream_proofs` | the properties of the event stream |
| `TaskStreamTellsFinalCountersHolds` | `EventStream_proofs` | `TaskStreamTellsFinalCounters` |
| `AnalysisIsOfThisRunHolds` | `EventStream_proofs` | `AnalysisIsOfThisRun` |
| `ApiTypeCorrect` | `EvaluationApi_proofs` | `TypeOK` |
| `OnlyOwnTeamIsReachedHolds` | `EvaluationApi_proofs` | `OnlyOwnTeamIsReached` |
| `RefusalChangesNothingHolds` | `EvaluationApi_proofs` | `RefusalChangesNothing` |
| `VersionsUniqueUnlessRacedHolds` | `EvaluationApi_proofs` | `VersionsUniqueUnlessRaced` |
| `DeletedIsGoneHolds`, `DeleteFailsOnlyByRaceHolds` | `EvaluationApi_proofs` | `DeletedIsGone` and the action property `DeleteFailsOnlyByRace` |
| `AcceptedRunIsSubmittedHolds` | `EvaluationApi_proofs` | `AcceptedRunIsSubmitted` |
| `CatalogueImplemented` | `EvaluationApi_proofs` | `ImplementsCatalogue`, the refinement, for any requests, teams and failures |
| `SqlErrorIsNeverPassedHolds` | `CaseScoring_proofs` | `SqlErrorIsNeverPassed`, whatever profile a question names |
| `EveryMetricIsReportedHolds` | `CaseScoring_proofs` | `EveryMetricIsReported`, for selections with repetitions too |
| `FailedHasACauseHolds`, `PassedRunHasMajorityHolds` | `CaseScoring_proofs` | the rules of the verdicts |

These are all the properties the passing runs check but the liveness ones. The assumptions are the named
`ASSUME`s of the modules: cases are a finite, non-empty set, attempts are positive, what
scoring may conclude is a result; ids are finitely many and those a request may create
are not in the seed; the seeded rows are rows, and a seeded run belongs to a seeded
evaluation of its team. The last is what the foreign key and `start_run` keep, and
`OwnerInv` shows that the API keeps it.

None of the properties is inductive: each says what is true at the end of
something, and the invariants say how the steps before lead there.

* `LaunchInv`: the workflow exists only once it was submitted; hence it starts
  once, and no row of the run is created while it works.
* `RunningAttempts`: a case in flight has an attempt number in `1..CaseAttempts`.
* `GatherInv`: in the gather, free slots plus cases in flight are all the slots
  (`SettleConserves` is the step where a slot could be lost or given back twice);
  outside it, every case is settled. `Pacing` follows.
* `EndingInv`: the row says "ended" only from `finalize_run` or `mark_run_failed`
  on. With `GatherInv`, `NoEarlyEnding` follows.
* `CasesCreated`, `CasesScheduled`: once `start_run` returned, an existing run has
  all its cases, hence the list of cases the workflow fetches is complete. They
  rest on `RowsRemain`: no engine step makes a run appear or a case disappear.
* `NoZombies`: for a case outside `Overruns`, only the current attempt of a case
  in flight makes store calls. This is the lemma the timeouts buy; with
  `GatherInv` it gives `QuietOutsideGather`: without overruns nothing writes a
  case while the workflow ends the run.
* `ResultInv`: what `finalize_run` and `mark_run_failed` have read is still what
  the rows hold when they write it, and remains so afterwards.
* `MetricsInv`: while an attempt inserts, the rows of its case and those it still
  has to insert do not exceed one scoring (it cleared them, and it is alone).
* `RecordInv`: for each step of an attempt, how far the record of its case is.

The refinement needs no invariant beyond these: each action of `TemporalRun` is
shown to be the action of `RunLifecycle` its phase names, or a stutter
(`LifecycleApiStep`, `LifecycleActivityStep`, `LifecycleCaseStep`,
`LifecycleRunCase`). `QuietOutsideGather` is what excludes a refresh that shows
progress after the gather, hence `Overruns = {}`.

For the polling engine, over the same lemmas on `CaseExecution`:

* `TaskInv`: a task that goes on is in `_running`, and all tasks before one that was
  created are over. `PcInv`: a case coroutine that goes on belongs to a task in its
  gather. `SlotInv`: in a gather, free slots and held slots are all the slots.
  `OneExecution` follows from the three.
* `NewInv`, `BusyInv`: nothing happens before `start_run`, and no task that is before
  its last write shows an ending. `NoEarlyEnding` follows.
* `FiguresInv`: what the ending has read is still what the rows hold.
* `OrphanInv`: a task that leaves in order leaves a run that does not read running.
* `RecordInv`: how far the row of a case is, for each position of its coroutine.

The refinement of `PolledLifecycle` adds two things:

* `ClaimInv`: `_running` holds the run only while a task executes it, so nobody passes
  over a run that is idle; a task past its last write leaves an ending, or no row.
* `PhaseMoves`: what a step of one task does to `Phase`, given that the others are over
  (`OnlyOneActive`, from `TaskInv`). Each action is then the abstract one of its phase,
  or a stutter (`LifecycleTick`, `LifecycleRunTask`, `LifecycleRunCase`,
  `LifecycleCrash`). The guard `Cardinality(inflight) < Width` is `SlotInv`, read through
  a bijection between the cases in flight and the coroutines that hold a slot
  (`InFlightCounted`).

For the event stream:

* `MaxInv`: the log has a greatest number, so `NextSeq` is one more than it; it has
  one because it grows an event at a time, which spares an induction on its size.
* `OrderInv`: which activities are at work together: the cases with each other only.
  With `LastInv` (nothing is committed between the two steps of the start and of the
  endings) `OnlyCasesAreOvertaken` follows.
* `FreshInv`, `UniqueInv`, `GoneInv`: an attempt records one event, and a deleted run
  has none.
* `CursorInv`: all that was told is at or below the cursor, and whatever is at or
  below it was told or was overtaken. `ToldOnce` and `OnlyOvertakenIsMissed` follow.
* `CountInv`: whoever saw the run completed saw the count of its results, which stays.

For the API, whose routes are concrete sequences, the invariants speak of what is left
of a route:

* `RoutesAreGated`, table by table: every route has its steps in an order in which no
  read or write stands before a gate (`Ordered`, `Gated`), and every gate it needs.
  `PathInv`: so has what is left of it (`TailFacts`).
* `BirthInv`: a row is stored once. The ids in `Born` have been stored or never will be,
  because the request that stores them is past that step; so what was deleted does
  not return (`DeletedIsGone`), and a row that was stored keeps its owner (`BornRowKept`).
* `OwnerInv`: a run is of the team of its evaluation, which is there, and the team a
  request has learnt from a row is still that of the row. `GateInv`: a request whose
  gates are behind it was told that its caller is of that team. `OnlyOwnTeamIsReached`
  follows: what was checked is still true when the row is touched.
* `StageInv`, `ChangedInv`: who has changed a row has only steps left that cannot refuse.
  `RefusalChangesNothing` follows.
* `ListedInv`: the runs a delete saw and has not deleted are in its list. What is left
  to break the foreign key was not seen (`RaceStep`).
* `AcceptedInv`: for each step of `start_run`, how far the run is.
* `VersionInv`: no row a request saw when it decided its version has the version it is
  going to store. It rests on `LatestVersion`, the bound of the numbers of a name, which
  is where the ids have to be finite.

The refinement of `TeamCatalogue` adds two things to these:

* `OwedInv`: what a route has left holds all the writes of its operation, or it is amid
  them, with nothing but writes left; and who is past preparing a target was told that
  its caller is of the team. `OwedAfter` shows that a step that is no write leaves all of
  them; a refusal, which only steps before the writes can answer, is then `Refuse`.
* For each writing step, a lemma of its own (`InsertRefines`, `InsertRunRefines`, ...,
  `DeleteEvaluationRefines`). The row it writes is of a team of the caller by `GateInv`
  and `OwnerInv`, although it was another await that asked. `DeleteEvaluation` may
  find no run left only because the foreign key would stop it otherwise.

For the scoring, the invariants follow the two loops of `score_trace`:

* `LocalsOK`: the types of what one case has computed so far, stage by stage. The
  profile is one of the supported ones, or `auto`, `unknown` or none for what was not
  scored.
* `ReportInv`: each metric occurs in the results, the queue and the rest of the
  selection together as often as it was asked for. `Count` is a cardinality of
  positions; `CountAppend` and `CountTail` say what moving one element does to it, by a bijection
  of positions, which spares an induction on sequences.
* `SqlInv`: from its trace on, a SQL case with an error has a failed check
  (`ErrorFailsACheck`, the one place where the two readings of a trace meet), and nothing
  until the verdict touches it.
* `TallyInv`: the tally counts each case once; `PassedRunHasMajority` is
  `RunVerdict` over it. `FailedHasACause` needs that an error is a result
  (`ErrorsCounted`).

Model-checked only: all liveness properties (`WorkflowEnds`, `RunSettles`,
`PendingIsPickedUp`, `TasksEnd`, `StreamsEnd`, `TaskStreamsEnd`), since temporal
induction under fairness is out of this prover's reach.

## 6 What is not modelled

* Agent answers, scores and the analysis's text: free choices.
* Several runs at once in one engine: no operation of an engine or of the API on one
  run reads or writes the rows of another, except deleting an evaluation, which
  `EvaluationApi` has with several runs. The worker's own limits across runs (task
  queue slots) only delay.
* Temporal's own replay: the workflow code is deterministic, and its history is
  taken to be durable.
* Attempts that outlive their timeout in `EventStream` (`temporal_overrun` has them).
* The content of lists, reports and summaries, their pagination and sorting; the
  telemetry routes, which only ask the tracing backend for a link.
* Tokens and the building of requests (`execution/outbound_auth.py`,
  `control_plane_client.py`): the models start from who the caller is and which ways
  a call can fail.
* The `score` command and the scenario script around the library: arguments, display,
  exit codes.
* The frontend: state of one page in one browser. Its only race, an answer to a load
  that was replaced, is dropped by the cleanup of the effect (`useLoad.ts`); the rest
  is rendering, translations and forms.
* Migrations, configuration, telemetry, model factory: start-up or offline code.

## 7 Plan

Done, in this order: `RunStore`, `RunApi`, `CaseExecution`, `TemporalRun`,
`MemoryRunner`; `RunLifecycle` and the refinement; `EventStream`;
`EvaluationCatalog`, `AccessGate` and `EvaluationApi`; `CaseScoring`; the safety
proofs of the two engines, of the event stream and of the API; `PolledLifecycle` and
its refinement; the proofs about `CaseScoring`; `TeamCatalogue` and its refinement.

What would come next: overrunning attempts in `EventStream`, and a mixture of two
concurrent writes of one row in `RunStore` (`runs/store.py:480`).
