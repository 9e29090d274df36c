----------------------------- MODULE CaseExecution -----------------------------
(***************************************************************************)
(* execute_and_score_case (workers/activities.py): one attempt at one      *)
(* case, as both execution engines run it.  An attempt <<c, k>> is the k-th*)
(* execution of case c; pc[<<c, k>>] is the store call it makes next.      *)
(*                                                                         *)
(* Calling the agent and scoring its trace touch no shared state: they are *)
(* part of the step that writes their result, and what they return is a    *)
(* free choice among Results and 0..MaxMetrics metric rows.                *)
(***************************************************************************)
EXTENDS RunApi

CONSTANTS CaseAttempts,     \* how often the engine may execute one case
          Results,          \* what scoring a trace may conclude (a CaseRow part)
          MaxMetrics        \* bound on the metrics scored per case

CaseResults == [outcome : CaseOutcomes \ {"null"},
                verdict : {"passed", "failed", "insufficient"},
                scoring_errors : BOOLEAN]

ASSUME ExecutionAssumption ==
  /\ CaseAttempts \in Nat \ {0}
  /\ MaxMetrics \in Nat
  /\ Results \subseteq CaseResults
  /\ \A r \in Results : r.scoring_errors => r.verdict = "failed"

VARIABLES
  pc,           \* next store call of each attempt
  todo          \* metric rows an attempt still has to insert

execution == <<pc, todo>>

Attempts == Cases \X (1..CaseAttempts)

(* "scored" and "raised" are how the call returns to the engine; the steps *)
(* after them are the engine's.                                            *)
InnerSteps  == {"start", "agent", "clear", "insert", "event_completed", "event_error"}
EngineSteps == {"idle", "setup", "scored", "raised", "event_raised", "aggregate", "done", "dead"}

Goto(a, step) == pc' = [pc EXCEPT ![a] = step]

ErrorRow == [status |-> "error", outcome |-> "execution_error",
             verdict |-> "failed", scoring_errors |-> FALSE]

RunningRow == [status |-> "running", outcome |-> "unknown",
               verdict |-> "inconclusive", scoring_errors |-> FALSE]

CompletedRow(r) == [status |-> "completed", outcome |-> r.outcome,
                    verdict |-> r.verdict, scoring_errors |-> r.scoring_errors]

-----------------------------------------------------------------------------
(* The first write resets the row, whatever a previous attempt left there. *)
MarkCaseRunning(a) ==
  /\ pc[a] = "start"
  /\ UpdateCaseResult(a[1], RunningRow)
  /\ Goto(a, "agent")
  /\ UNCHANGED <<todo, api>>

(* agent_client.evaluate or the scoring raises: the case ends in error,    *)
(* and the metric rows of a previous attempt stay.                         *)
AgentFails(a) ==
  /\ pc[a] = "agent"
  /\ UpdateCaseResult(a[1], ErrorRow)
  /\ Goto(a, "event_error")
  /\ UNCHANGED <<todo, api>>

(* The case is "completed" before its metric rows are replaced.            *)
WriteCaseResult(a) ==
  /\ pc[a] = "agent"
  /\ \E r \in Results : UpdateCaseResult(a[1], CompletedRow(r))
  /\ \E n \in 0..MaxMetrics : todo' = [todo EXCEPT ![a] = n]
  /\ Goto(a, "clear")
  /\ UNCHANGED api

ClearMetrics(a) ==
  /\ pc[a] = "clear"
  /\ DeleteMetricsByCase(a[1])
  /\ Goto(a, IF todo[a] = 0 THEN "event_completed" ELSE "insert")
  /\ UNCHANGED <<todo, api>>

InsertMetric(a) ==
  /\ pc[a] = "insert"
  /\ CreateMetricResult(a[1])
  /\ todo' = [todo EXCEPT ![a] = @ - 1]
  /\ Goto(a, IF todo[a] = 1 THEN "event_completed" ELSE "insert")
  /\ UNCHANGED api

EmitCaseEvent(a) ==
  /\ \/ /\ pc[a] = "event_completed"
        /\ CreateCaseEvent(a[1], "case_completed")
     \/ /\ pc[a] = "event_error"
        /\ CreateCaseEvent(a[1], "case_error")
  /\ Goto(a, "scored")
  /\ UNCHANGED <<todo, api>>

(* Any call of the body may raise; the metrics it had scored are lost.     *)
ExecutionRaises(a) ==
  /\ pc[a] \in InnerSteps
  /\ Goto(a, "raised")
  /\ todo' = [todo EXCEPT ![a] = 0]
  /\ UNCHANGED <<db, api>>

ExecuteAndScoreCase(a) ==
  \/ MarkCaseRunning(a)
  \/ AgentFails(a)
  \/ WriteCaseResult(a)
  \/ ClearMetrics(a)
  \/ InsertMetric(a)
  \/ EmitCaseEvent(a)
  \/ ExecutionRaises(a)

-----------------------------------------------------------------------------
InitExecution ==
  /\ pc = [a \in Attempts |-> "idle"]
  /\ todo = [a \in Attempts |-> 0]

ExecutionTypeOK ==
  /\ pc \in [Attempts -> InnerSteps \cup EngineSteps]
  /\ todo \in [Attempts -> 0..MaxMetrics]
  /\ \A a \in Attempts : pc[a] = "insert" => todo[a] > 0
=============================================================================
