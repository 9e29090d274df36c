------------------------------- MODULE RunStore -------------------------------
(***************************************************************************)
(* The SQL tables of one evaluation run and the methods of RunStore that   *)
(* write them (runs/store.py, runs/models.py).                             *)
(*                                                                         *)
(* Every method opens a session of its own, so every operator below is one *)
(* transaction: the processes of the modules that EXTEND this one (the API *)
(* process, the Temporal worker, the polling worker) interleave between    *)
(* transactions, never inside one.  A foreign key makes a child insert     *)
(* fail once its parent row is gone: those operators are then disabled and *)
(* the caller can only take its error path.                                *)
(*                                                                         *)
(* Abstractions: timestamps are "set or not"; metric_averages_json is the  *)
(* multiset of metric rows it averages; an event is remembered by its kind *)
(* (seq is left to the event stream); texts, traces and scores are absent. *)
(***************************************************************************)
EXTENDS Integers, FiniteSets

CONSTANT Cases              \* the case rows start_run creates for the run

ASSUME CasesAssumption == IsFiniteSet(Cases) /\ Cases # {}

VARIABLES
  run,          \* the evaluation_run row
  cases,        \* the evaluation_case rows
  metrics,      \* number of evaluation_metric_result rows of each case
  runEvents,    \* kinds of the evaluation_event rows without a case
  caseEvents    \* kinds of the evaluation_event rows of each case

db == <<run, cases, metrics, runEvents, caseEvents>>

-----------------------------------------------------------------------------
(* Columns.  "none" stands for a row that is not in its table.             *)

RunStates     == {"pending", "running", "completed", "failed", "cancelled", "error"}
RunVerdicts   == {"pending", "passed", "failed", "inconclusive"}
CaseStatuses  == {"pending", "running", "completed", "error"}
CaseOutcomes  == {"null", "unknown", "success", "degraded", "hitl_blocked", "execution_error"}
CaseVerdicts  == {"pending", "inconclusive", "passed", "failed", "insufficient"}

CaseAggregates == [completed : Nat, passed : Nat, failed : Nat, insufficient : Nat,
                   execution_errors : Nat, scoring_errors : Nat]
RunRows  == [state : RunStates \cup {"none"}, verdict : RunVerdicts,
             agg : CaseAggregates, averaged : [Cases -> Nat],
             started_at : BOOLEAN, completed_at : BOOLEAN]
CaseRows == [status : CaseStatuses \cup {"none"}, outcome : CaseOutcomes,
             verdict : CaseVerdicts, scoring_errors : BOOLEAN]

(* TERMINAL_RUN_STATES of runs/service.py ("succeeded" is a legacy         *)
(* spelling no code writes).                                               *)
TerminalRunStates == {"completed", "failed", "cancelled", "error"}

NoAggregates == [completed |-> 0, passed |-> 0, failed |-> 0, insufficient |-> 0,
                 execution_errors |-> 0, scoring_errors |-> 0]
NoAverages   == [c \in Cases |-> 0]

NewRun(s) == [state |-> s, verdict |-> "pending", agg |-> NoAggregates,
              averaged |-> NoAverages, started_at |-> FALSE, completed_at |-> FALSE]
NewCase(s) == [status |-> s, outcome |-> "null", verdict |-> "pending",
               scoring_errors |-> FALSE]
NoRun  == NewRun("none")
NoCase == NewCase("none")

RunExists     == run.state # "none"
CaseExists(c) == cases[c].status # "none"
CaseRowsOf    == {c \in Cases : CaseExists(c)}        \* list_cases_by_run

-----------------------------------------------------------------------------
(* summarize_cases of workers/workflow.py, and the verdict finalize_run    *)
(* derives from its tally.                                                 *)

SummarizeCases(cs) ==
  [completed        |-> Cardinality({c \in Cases : cs[c].status \in {"completed", "error"}}),
   passed           |-> Cardinality({c \in Cases : cs[c].verdict = "passed"}),
   failed           |-> Cardinality({c \in Cases : cs[c].verdict = "failed"}),
   insufficient     |-> Cardinality({c \in Cases : cs[c].verdict = "insufficient"}),
   execution_errors |-> Cardinality({c \in Cases : cs[c].outcome = "execution_error"}),
   scoring_errors   |-> Cardinality({c \in Cases : cs[c].scoring_errors})]

TotalCases == Cardinality(Cases)                      \* total_cases, never 0

FinalVerdict(agg) ==
  IF agg.failed > 0 THEN "failed"
  ELSE IF 2 * agg.insufficient >= TotalCases THEN "inconclusive"
  ELSE "passed"

-----------------------------------------------------------------------------
(* Writes.  Updates of a row that no longer exists change nothing.         *)

CreateRun ==
  /\ run' = NewRun("pending")
  /\ UNCHANGED <<cases, metrics, runEvents, caseEvents>>

CreateCase(c) ==
  /\ RunExists
  /\ cases' = [cases EXCEPT ![c] = NewCase("pending")]
  /\ UNCHANGED <<run, metrics, runEvents, caseEvents>>

UpdateRunState(s) ==
  /\ run' = IF RunExists
            THEN [run EXCEPT !.state = s,
                             !.started_at = run.started_at \/ s = "running"]
            ELSE run
  /\ UNCHANGED <<cases, metrics, runEvents, caseEvents>>

UpdateRunAggregates(agg, verdict, s, averaged) ==
  /\ run' = IF RunExists
            THEN [run EXCEPT !.agg = agg, !.verdict = verdict, !.state = s,
                             !.averaged = averaged,
                             !.completed_at = run.completed_at
                                                \/ s \in {"completed", "failed"}]
            ELSE run
  /\ UNCHANGED <<cases, metrics, runEvents, caseEvents>>

UpdateCaseResult(c, row) ==
  /\ cases' = IF CaseExists(c) THEN [cases EXCEPT ![c] = row] ELSE cases
  /\ UNCHANGED <<run, metrics, runEvents, caseEvents>>

(* Mutation: the rows of a previous attempt are not cleared.               *)
KeepMetricsByCase(c) == UNCHANGED db

DeleteMetricsByCase(c) ==
  /\ metrics' = [metrics EXCEPT ![c] = 0]
  /\ UNCHANGED <<run, cases, runEvents, caseEvents>>

CreateMetricResult(c) ==
  /\ CaseExists(c)
  /\ metrics' = [metrics EXCEPT ![c] = @ + 1]
  /\ UNCHANGED <<run, cases, runEvents, caseEvents>>

CreateRunEvent(kind) ==
  /\ RunExists
  /\ runEvents' = runEvents \cup {kind}
  /\ UNCHANGED <<run, cases, metrics, caseEvents>>

CreateCaseEvent(c, kind) ==
  /\ RunExists
  /\ caseEvents' = [caseEvents EXCEPT ![c] = @ \cup {kind}]
  /\ UNCHANGED <<run, cases, metrics, runEvents>>

(* One transaction deletes the metrics, events and cases, then the run.    *)
DeleteRun ==
  /\ run' = NoRun
  /\ cases' = [c \in Cases |-> NoCase]
  /\ metrics' = [c \in Cases |-> 0]
  /\ runEvents' = {}
  /\ caseEvents' = [c \in Cases |-> {}]

-----------------------------------------------------------------------------
InitStore ==
  /\ run = NoRun
  /\ cases = [c \in Cases |-> NoCase]
  /\ metrics = [c \in Cases |-> 0]
  /\ runEvents = {}
  /\ caseEvents = [c \in Cases |-> {}]

StoreTypeOK ==
  /\ run \in RunRows
  /\ cases \in [Cases -> CaseRows]
  /\ metrics \in [Cases -> Nat]
  /\ runEvents \in SUBSET {"run_started", "run_completed", "run_failed"}
  /\ caseEvents \in [Cases -> SUBSET {"case_completed", "case_error"}]
=============================================================================
