------------------------------ MODULE MemoryRunner ------------------------------
(***************************************************************************)
(* One run executed by the polling engine (workers/runner.py): RunRunner,  *)
(* its tick, the asyncio task it creates for a pending run, the coroutine  *)
(* of each case, and the API process on the same rows.                     *)
(*                                                                         *)
(* Everything the runner knows is in its process: a crash loses it, and    *)
(* the process comes back with an empty _running set.  Any call of the     *)
(* store or of the control plane may raise.                                *)
(*                                                                         *)
(* The k-th task created for the run executes case c as attempt <<c, k>>,  *)
(* so CaseAttempts bounds the tasks; MaxCrashes bounds the crashes.        *)
(***************************************************************************)
EXTENDS CaseExecution

CONSTANTS MaxConcurrency,   \* snapshot.execution["max_concurrency"]
          MaxCrashes        \* bound on the crashes of the worker process

ASSUME RunnerAssumption == MaxConcurrency \in Int /\ MaxCrashes \in Nat

VARIABLES
  tick,         \* "listed": the query of the tick has returned the run
  running,      \* is run_id in self._running?
  task,         \* where each task is in _run_run / _execute_run
  tally,        \* the counters each task has computed from the case rows
  scored,       \* the metric rows each task has read
  permits,      \* free slots of each task's asyncio.Semaphore
  crashes       \* crashes so far

runner == <<tick, running, task, tally, scored, permits, crashes>>
vars   == <<db, api, execution, runner>>

Tasks       == 1..CaseAttempts
ActiveSteps == {"state", "event_started", "prepare", "unprepared", "gather", "tally",
                "metrics", "write", "event_completed", "except", "unwritten", "finally"}
EndedSteps  == {"none", "done", "lost", "killed"}

Slots == IF MaxConcurrency > 1 THEN MaxConcurrency ELSE 1      \* max(1, ...)

Active(k)   == task[k] \in ActiveSteps
MoveTask(k, to) == task' = [task EXCEPT ![k] = to]

-----------------------------------------------------------------------------
(* The tick queries the pending runs, and acts on the answer later: the    *)
(* row it got may have changed since.                                      *)
ListPendingRuns ==
  /\ tick = "idle"
  /\ run.state = "pending"
  /\ tick' = "listed"
  /\ UNCHANGED <<db, api, execution, running, task, tally, scored, permits, crashes>>

(* Mutation: the tick does not look at _running.                           *)
CreateTaskUnconditionally ==
  /\ tick = "listed"
  /\ tick' = "idle"
  /\ \E k \in Tasks :
       /\ task[k] = "none"
       /\ \A j \in Tasks : j < k => task[j] # "none"
       /\ MoveTask(k, "state")
       /\ running' = TRUE
  /\ UNCHANGED <<db, api, execution, tally, scored, permits, crashes>>

CreateTask ==
  /\ tick = "listed"
  /\ tick' = "idle"
  /\ \/ running /\ UNCHANGED <<task, running>>
     \/ /\ ~running
        /\ \E k \in Tasks :
             /\ task[k] = "none"
             /\ \A j \in Tasks : j < k => task[j] # "none"
             /\ MoveTask(k, "state")
        /\ running' = TRUE
  /\ UNCHANGED <<db, api, execution, tally, scored, permits, crashes>>

Tick == ListPendingRuns \/ CreateTask

-----------------------------------------------------------------------------
(* _run_run and _execute_run.                                              *)

MarkStarted(k) ==
  \/ /\ task[k] = "state"
     /\ UpdateRunState("running")
     /\ MoveTask(k, "event_started")
     /\ UNCHANGED <<api, execution, tick, running, tally, scored, permits, crashes>>
  \/ /\ task[k] = "event_started"
     /\ CreateRunEvent("run_started")
     /\ MoveTask(k, "prepare")
     /\ UNCHANGED <<api, execution, tick, running, tally, scored, permits, crashes>>

(* Mutation: a refused run is left without an ending.                      *)
PrepareFailsUnwritten(k) ==
  /\ task[k] = "prepare"
  /\ MoveTask(k, "finally")
  /\ UNCHANGED <<db, api, execution, tick, running, tally, scored, permits, crashes>>

(* The control plane refuses: the whole run is in error, each case counted *)
(* as an execution error, and no case row is written.                      *)
PrepareFails(k) ==
  \/ /\ task[k] = "prepare"
     /\ MoveTask(k, "unprepared")
     /\ UNCHANGED <<db, api, execution, tick, running, tally, scored, permits, crashes>>
  \/ /\ task[k] = "unprepared"
     /\ UpdateRunAggregates([NoAggregates EXCEPT !.execution_errors = TotalCases],
                            "failed", "error", NoAverages)
     /\ MoveTask(k, "finally")
     /\ UNCHANGED <<api, execution, tick, running, tally, scored, permits, crashes>>

(* The case rows are read once; a coroutine per row then waits for a slot. *)
ListCases(k) ==
  /\ task[k] = "prepare"
  /\ pc' = [a \in Attempts |-> IF a[2] = k /\ CaseExists(a[1]) THEN "setup" ELSE pc[a]]
  /\ permits' = [permits EXCEPT ![k] = Slots]
  /\ MoveTask(k, "gather")
  /\ UNCHANGED <<db, api, todo, tick, running, tally, scored, crashes>>

(* Mutation: the gather does not wait for a case that raised.              *)
GatherReturnsOnRaise(k) ==
  /\ task[k] = "gather"
  /\ \A c \in Cases : pc[<<c, k>>] \in {"idle", "done", "dead", "raised"}
  /\ MoveTask(k, "tally")
  /\ UNCHANGED <<db, api, execution, tick, running, tally, scored, permits, crashes>>

GatherReturns(k) ==
  /\ task[k] = "gather"
  /\ \A c \in Cases : pc[<<c, k>>] \in {"idle", "done", "dead"}
  /\ MoveTask(k, "tally")
  /\ UNCHANGED <<db, api, execution, tick, running, tally, scored, permits, crashes>>

Finalize(k) ==
  /\ \/ /\ task[k] = "tally"
        /\ tally' = [tally EXCEPT ![k] = SummarizeCases(cases)]
        /\ MoveTask(k, "metrics")
        /\ UNCHANGED <<db, scored>>
     \/ /\ task[k] = "metrics"
        /\ scored' = [scored EXCEPT ![k] = metrics]
        /\ MoveTask(k, "write")
        /\ UNCHANGED <<db, tally>>
     \/ /\ task[k] = "write"
        /\ UpdateRunAggregates(tally[k], FinalVerdict(tally[k]), "completed", scored[k])
        /\ MoveTask(k, "event_completed")
        /\ UNCHANGED <<tally, scored>>
     \/ /\ task[k] = "event_completed"
        /\ CreateRunEvent("run_completed")
        /\ MoveTask(k, "finally")
        /\ UNCHANGED <<tally, scored>>
  /\ UNCHANGED <<api, execution, tick, running, permits, crashes>>

(* A store call of the task raises; the gather itself never does.          *)
TaskRaises(k) ==
  /\ task[k] \in ActiveSteps \ {"gather", "except", "unwritten", "finally"}
  /\ MoveTask(k, "except")
  /\ UNCHANGED <<db, api, execution, tick, running, tally, scored, permits, crashes>>

(* Mutation: the except clause forgets to write the state.                 *)
HandleExceptionSilently(k) ==
  /\ task[k] = "except"
  /\ MoveTask(k, "finally")
  /\ UNCHANGED <<db, api, execution, tick, running, tally, scored, permits, crashes>>

(* The except clause zeroes the counters, whatever was written before, or  *)
(* raises in its turn and leaves the row as it is.                         *)
HandleException(k) ==
  \/ /\ task[k] = "except"
     /\ UpdateRunAggregates(NoAggregates, "failed", "error", NoAverages)
     /\ MoveTask(k, "finally")
     /\ UNCHANGED <<api, execution, tick, running, tally, scored, permits, crashes>>
  \/ /\ task[k] = "except"
     /\ MoveTask(k, "unwritten")
     /\ UNCHANGED <<db, api, execution, tick, running, tally, scored, permits, crashes>>

(* The locals of the tasks K are gone.                                     *)
Forget(K) ==
  /\ tally' = [k \in Tasks |-> IF k \in K THEN NoAggregates ELSE tally[k]]
  /\ scored' = [k \in Tasks |-> IF k \in K THEN NoAverages ELSE scored[k]]
  /\ permits' = [k \in Tasks |-> IF k \in K THEN 0 ELSE permits[k]]

(* Mutation: the run is never discarded from _running.                     *)
TaskEndsKeepingRun(k) ==
  /\ task[k] \in {"finally", "unwritten"}
  /\ MoveTask(k, IF task[k] = "finally" THEN "done" ELSE "lost")
  /\ Forget({k})
  /\ UNCHANGED <<db, api, execution, tick, running, crashes>>

(* finally: discard the run from _running.                                 *)
TaskEnds(k) ==
  /\ task[k] \in {"finally", "unwritten"}
  /\ MoveTask(k, IF task[k] = "finally" THEN "done" ELSE "lost")
  /\ running' = FALSE
  /\ Forget({k})
  /\ UNCHANGED <<db, api, execution, tick, crashes>>

RunTask(k) ==
  \/ MarkStarted(k)
  \/ PrepareFails(k)
  \/ ListCases(k)
  \/ GatherReturns(k)
  \/ Finalize(k)
  \/ TaskRaises(k)
  \/ HandleException(k)
  \/ TaskEnds(k)

-----------------------------------------------------------------------------
(* _run_case: one coroutine per case, holding a slot while it executes.    *)

(* Mutation: off by one.                                                   *)
AcquireSlotOneTooMany(a) ==
  /\ pc[a] = "setup"
  /\ permits[a[2]] >= 0
  /\ permits' = [permits EXCEPT ![a[2]] = @ - 1]
  /\ Goto(a, "start")
  /\ UNCHANGED <<db, api, todo, tick, running, task, tally, scored, crashes>>

AcquireSlot(a) ==
  /\ pc[a] = "setup"
  /\ permits[a[2]] > 0
  /\ permits' = [permits EXCEPT ![a[2]] = @ - 1]
  /\ Goto(a, "start")
  /\ UNCHANGED <<db, api, todo, tick, running, task, tally, scored, crashes>>

(* Mutation: a coroutine that leaves keeps its slot.                       *)
LeaveKeepingSlot(a, how) ==
  /\ Goto(a, how)
  /\ UNCHANGED <<api, todo, tick, running, task, tally, scored, permits, crashes>>

(* Leave `async with limiter`.                                             *)
Leave(a, how) ==
  /\ Goto(a, how)
  /\ permits' = [permits EXCEPT ![a[2]] = @ + 1]
  /\ UNCHANGED <<api, todo, tick, running, task, tally, scored, crashes>>

CaseReturns(a) ==
  /\ pc[a] = "scored"
  /\ Leave(a, "done")
  /\ UNCHANGED db

(* Mutation: the error of a case is logged and not written.                *)
CaseErrorOnlyLogged(a) ==
  /\ pc[a] = "raised"
  /\ Leave(a, "done")
  /\ UNCHANGED db

(* The except clause writes the error of the case, with no event; when     *)
(* that raises too, the gather only logs it ("dead").                      *)
CaseErrorWritten(a) ==
  \/ /\ pc[a] = "raised"
     /\ UpdateCaseResult(a[1], ErrorRow)
     /\ Leave(a, "done")
  \/ /\ pc[a] = "raised"
     /\ Leave(a, "dead")
     /\ UNCHANGED db

RunCase(a) ==
  \/ AcquireSlot(a)
  \/ ExecuteAndScoreCase(a) /\ UNCHANGED runner
  \/ CaseReturns(a)
  \/ CaseErrorWritten(a)

-----------------------------------------------------------------------------
(* The worker process dies and starts again: no row is touched.            *)
Crash ==
  /\ crashes < MaxCrashes
  /\ crashes' = crashes + 1
  /\ tick' = "idle"
  /\ running' = FALSE
  /\ task' = [k \in Tasks |-> IF Active(k) THEN "killed" ELSE task[k]]
  /\ pc' = [a \in Attempts |-> IF pc[a] \in {"idle", "done"} THEN pc[a] ELSE "dead"]
  /\ todo' = [a \in Attempts |-> 0]
  /\ Forget(Tasks)
  /\ UNCHANGED <<db, api>>

Init ==
  /\ InitStore
  /\ InitApi
  /\ InitExecution
  /\ tick = "idle"
  /\ running = FALSE
  /\ task = [k \in Tasks |-> "none"]
  /\ tally = [k \in Tasks |-> NoAggregates]
  /\ scored = [k \in Tasks |-> NoAverages]
  /\ permits = [k \in Tasks |-> 0]
  /\ crashes = 0

Next ==
  \/ ApiStep /\ UNCHANGED <<execution, runner>>
  \/ Tick
  \/ \E k \in Tasks : RunTask(k)
  \/ \E a \in Attempts : RunCase(a)
  \/ Crash

Spec == Init /\ [][Next]_vars

(* run_forever and the event loop go on as long as the process lives; it   *)
(* is restarted when it dies.  Nothing is assumed of the API process.      *)
Fairness ==
  /\ WF_vars(Tick)
  /\ \A k \in Tasks : WF_vars(RunTask(k))
  /\ \A a \in Attempts : WF_vars(RunCase(a))

FairSpec == Spec /\ Fairness

-----------------------------------------------------------------------------
(* Properties.                                                             *)

TypeOK ==
  /\ StoreTypeOK
  /\ ApiTypeOK
  /\ ExecutionTypeOK
  /\ tick \in {"idle", "listed"}
  /\ running \in BOOLEAN
  /\ task \in [Tasks -> ActiveSteps \cup EndedSteps]
  /\ tally \in [Tasks -> CaseAggregates]
  /\ scored \in [Tasks -> [Cases -> Nat]]
  /\ permits \in [Tasks -> 0..Slots]
  /\ crashes \in 0..MaxCrashes

InFlight == {a \in Attempts : pc[a] \in InnerSteps \cup {"scored", "raised"}}

(* The run is executed by one task at a time, and by no more coroutines    *)
(* than its snapshot allows, however late a tick acts on a query that      *)
(* still saw the run pending.                                              *)
OneExecution ==
  /\ \A j, k \in Tasks : Active(j) /\ Active(k) => j = k
  /\ Cardinality(InFlight) <= Slots

(* A run that reads completed or error has none of its cases in flight.    *)
NoEarlyEnding == run.state \in {"completed", "error"} => InFlight = {}

(* The figures of a completed run are those of its rows as they remain,    *)
(* crashes, cancellations and second executions included.                  *)
CompletedFiguresAreTrue ==
  run.state = "completed" =>
    /\ run.agg = SummarizeCases(cases)
    /\ run.verdict = FinalVerdict(SummarizeCases(cases))
    /\ run.averaged = metrics

(* A completed run has a result for each of the cases it executed, except  *)
(* those whose error could not be written either.                          *)
CompletedRunHasResults ==
  run.state = "completed" =>
    \A c \in Cases, k \in Tasks :
      pc[<<c, k>>] = "done" /\ (\A j \in Tasks : j > k => pc[<<c, j>>] # "dead")
        => cases[c].status \in {"completed", "error"}

(* Only a crash, or an except clause that could not write, leaves a run    *)
(* "running" that nobody executes: nothing else picks it up again.         *)
OrphanedOnlyByFault ==
  run.state = "running" =>
    \/ \E k \in Tasks : Active(k) \/ task[k] = "lost"
    \/ crashes > 0

(* A pending run is eventually picked up, unless every execution the model *)
(* allows has been used.                                                   *)
PendingIsPickedUp ==
  run.state = "pending" ~> \/ run.state # "pending"
                           \/ \A k \in Tasks : task[k] # "none"

(* A task that has been created ends: no case waits forever for a slot.    *)
TasksEnd == \A k \in Tasks : Active(k) ~> ~Active(k)

(* The phase of the execution that PolledLifecycle speaks of.              *)
PhaseOf(step) ==
  CASE step \in {"state", "event_started", "prepare"} -> "starting"
    [] step = "gather"                                -> "executing"
    [] step \in {"tally", "metrics", "write"}         -> "closing"
    [] step = "event_completed"                       -> "closed"
    [] step \in {"unprepared", "except"}              -> "failing"
    [] step = "finally"                               -> "leaving"
    [] step = "unwritten"                             -> "lost"

Phase == IF \E k \in Tasks : Active(k)
         THEN PhaseOf(task[CHOOSE k \in Tasks : Active(k)]) ELSE "idle"

CasesAt(steps) == {c \in Cases : \E k \in Tasks : pc[<<c, k>>] \in steps}

Lifecycle ==
  INSTANCE PolledLifecycle
    WITH Jobs     <- Cases,
         Width    <- Slots,
         offered  <- launch # "new",
         shown    <- run.state,
         seen     <- tick = "listed",
         phase    <- Phase,
         waiting  <- CasesAt({"setup"}),
         inflight <- CasesAt(InnerSteps \cup {"scored", "raised"})

(* Through its tasks, coroutines, failing calls and crashes the engine     *)
(* shows a client no more than PolledLifecycle promises: one execution at  *)
(* a time, at most Slots cases of it in flight, an ending only after the   *)
(* last of them, and after an orderly execution an ending.                 *)
ImplementsPolledLifecycle == Lifecycle!Spec
-----------------------------------------------------------------------------
(* What the repository says and the code does not keep.                    *)

(* docs/ARCHITECTURE.md: the API copies the cases, persists the run and    *)
(* answers (step 1) before the worker detects the run (step 2), so the run *)
(* that completes has executed all of its cases.                           *)
CompletedRunIsComplete ==
  run.state = "completed" => CaseRowsOf = Cases /\ \A c \in Cases : cases[c].status # "pending"
=============================================================================
