----------------------------- MODULE CaseScoring -----------------------------
(***************************************************************************)
(* From the trace of an agent to the verdict of a run: the scoring library *)
(* (fred_deepeval_cli/core), the verdict the worker derives from it        *)
(* (workers/activities.py) and the verdict of the whole run (finalize_run).*)
(* The same library scores the questions of a data set                     *)
(* (dataset_workflow.py), where the profile chooses the metrics and rag_ok *)
(* is all there is of a verdict.                                           *)
(*                                                                         *)
(* Cases are scored one after the other here: scoring shares no state, and *)
(* CaseExecution and TemporalRun have how attempts interleave.  What the   *)
(* agent did and what the judge answers are free choices.                  *)
(***************************************************************************)
EXTENDS Naturals, Sequences, FiniteSets

CONSTANTS TraceSteps,       \* the steps a trace may contain
          Tags,             \* sets of agent_tags
          Selectable,       \* metric ids a run may select
          MaxSelected,      \* bound on a selection
          MaxCustom,        \* bound on the custom criteria of a run
          Total             \* total_cases of the run

BuiltinMetricIds == {"answer_relevancy", "faithfulness", "contextual_relevancy",
                     "contextual_precision", "contextual_recall"}
RequiresExpectedOutput == {"contextual_precision", "contextual_recall"}
SqlDataTools == {"read_query", "list_tabular_documents",
                 "get_tabular_documents_schemas", "search_tabular_values"}
SupportedProfiles == {"rag", "sql", "workflow", "default"}
Explicit == SupportedProfiles \cup {"auto"}    \* profiles a question may name
Custom == "GEval"

ASSUME ScoringAssumption ==
  /\ TraceSteps \subseteq [kind : STRING, tool : STRING, quality : {"ok", "error_text", "is_error"}]
  /\ Tags \subseteq SUBSET STRING
  /\ Selectable \subseteq BuiltinMetricIds
  /\ MaxSelected \in Nat \ {0} /\ MaxCustom \in Nat /\ Total \in Nat \ {0}

Traces == [error : BOOLEAN, output : BOOLEAN, steps : SUBSET TraceSteps, tags : Tags,
           context : BOOLEAN, searched : BOOLEAN]

-----------------------------------------------------------------------------
(* The first thing that applies names the outcome.                         *)
ClassifyOutcome(trace) ==
  LET kinds == {s.kind : s \in trace.steps}
  IN IF trace.error THEN "execution_error"
     ELSE IF "awaiting_human" \in kinds THEN "hitl_blocked"
     ELSE IF "node_error" \in kinds THEN "degraded"
     ELSE IF trace.output THEN "success" ELSE "unknown"

ResolveProfile(trace, explicit) ==
  IF explicit \in SupportedProfiles THEN explicit
  ELSE IF "rag" \in trace.tags THEN "rag"
  ELSE IF "sql" \in trace.tags THEN "sql"
  ELSE IF "workflow" \in trace.tags THEN "workflow" ELSE "default"

(* A check is passed, failed, or not applicable (None).                    *)
Check(holds) == IF holds THEN "passed" ELSE "failed"

Steps(trace, kind)       == {s \in trace.steps : s.kind = kind}
HasToolCall(trace, tool) == \E s \in Steps(trace, "tool_call") : s.tool = tool
HasSuccessfulToolResult(trace, tool) ==
  \E s \in Steps(trace, "tool_result") : s.tool = tool /\ s.quality = "ok"

SqlQueryExecuted(trace) ==
  IF Steps(trace, "tool_call") = {} THEN "skipped"
  ELSE Check(\E tool \in SqlDataTools :
               HasToolCall(trace, tool) /\ HasSuccessfulToolResult(trace, tool))

(* Mutant of SqlNoExecutionError: a failed node is no error.               *)
SqlNoToolError(trace) ==
  Check(~trace.error /\ \A s \in trace.steps : s.quality # "is_error")

SqlNoExecutionError(trace) ==
  Check(~trace.error /\ \A s \in trace.steps : s.kind # "node_error" /\ s.quality # "is_error")

(* In the order of the code; no other profile has a check.                 *)
BuildStructuralChecks(trace, profile) ==
  CASE profile = "rag" -> <<Check(trace.searched), Check(trace.context)>>
    [] profile = "sql" -> <<SqlQueryExecuted(trace), SqlNoExecutionError(trace)>>
    [] OTHER           -> <<>>

-----------------------------------------------------------------------------
(* score_trace: which metrics are measured, and which reported as skipped. *)
(* Without a selection the profile decides, and nothing is skipped.        *)
NeedsReference(metric, expected) == metric \in RequiresExpectedOutput /\ ~expected

MetricsOfProfile(profile, context, expected) ==
  IF profile # "rag" \/ ~context THEN <<"answer_relevancy">>
  ELSE <<"answer_relevancy", "faithfulness", "contextual_relevancy">>
         \o (IF expected THEN <<"contextual_precision", "contextual_recall">> ELSE <<>>)

(* The custom criteria come last, each a GEval of its own name.            *)
CustomMetrics(n) == [i \in 1..n |-> Custom]

(* What became of a metric, after the order of results: skipped ones first.*)
Result(metric, verdict) == [metric |-> metric, verdict |-> verdict]

-----------------------------------------------------------------------------
(* The worker's verdict of a case.                                         *)
All(seq, ok) == \A i \in DOMAIN seq : seq[i] \in ok
Verdicts(results) == [i \in DOMAIN results |-> results[i].verdict]

(* Mutant of CaseVerdict: a check that does not apply counts as failed.    *)
CaseVerdictOfChecks(checks, results, errors) ==
  IF All(checks, {"passed"}) /\ errors = 0
  THEN IF All(Verdicts(results), {"passed"}) THEN "passed" ELSE "insufficient"
  ELSE "failed"

CaseVerdict(checks, results, errors) ==
  LET structuralOk == All(checks, {"passed", "skipped"})
      metricsOk    == All(Verdicts(results), {"passed"})
      insufficientOnly == ~metricsOk /\ All(Verdicts(results), {"passed", "insufficient", "skipped"})
  IN IF ~structuralOk \/ errors # 0 THEN "failed"
     ELSE IF metricsOk THEN "passed"
     ELSE IF insufficientOnly THEN "insufficient" ELSE "failed"

(* rag_ok of a question: a check that does not apply is not truthy, and of *)
(* no checks all are.                                                      *)
RagOk(checks) == All(checks, {"passed"})

(* The run: insufficient >= total / 2, the total counting every case of    *)
(* the run, executed or not (`or 1` for none).                             *)
RunVerdictAboveHalf(failed, insufficient, total) ==  \* mutant of RunVerdict
  IF failed > 0 THEN "failed"
  ELSE IF 2 * insufficient > total THEN "inconclusive" ELSE "passed"

RunVerdict(failed, insufficient, total) ==
  IF failed > 0 THEN "failed"
  ELSE IF 2 * insufficient >= (IF total = 0 THEN 1 ELSE total) THEN "inconclusive"
  ELSE "passed"

-----------------------------------------------------------------------------
VARIABLES
  caller,       \* who uses the library: the worker or the data set workflow
  stage,        \* where the scoring of the current case is
  case,         \* what is known of it
  tally,        \* the verdicts of the cases before it, and those left out
  verdict       \* of the case (of a question: rag_ok), then of the run

vars == <<caller, stage, case, tally, verdict>>

NoCase == [outcome |-> "unknown", profile |-> "none", context |-> FALSE, checks |-> <<>>,
           selected |-> <<>>, expected |-> FALSE, todo |-> <<>>, queue |-> <<>>,
           results |-> <<>>, raised |-> FALSE]
Kinds == {"passed", "failed", "insufficient", "left_out"}
Cases == tally["passed"] + tally["failed"] + tally["insufficient"] + tally["left_out"]
Errors == Cardinality({i \in DOMAIN case.results : case.results[i].verdict = "error"})

Selections == UNION {[1..n -> Selectable] : n \in 1..MaxSelected}

(* A trace has come back, from the agent of the worker or from fetch_trace.*)
(* The worker leaves the profile to be resolved, a question may name one.  *)
ReadTrace ==
  /\ stage = "next" /\ Cases < Total
  /\ \E trace \in Traces,
        explicit \in IF caller = "worker" THEN {"auto"} ELSE Explicit :
       LET profile == ResolveProfile(trace, explicit)
       IN case' = [NoCase EXCEPT !.outcome = ClassifyOutcome(trace), !.profile = profile,
                                 !.context = trace.context,
                                 !.checks = BuildStructuralChecks(trace, profile)]
  /\ stage' = "traced"
  /\ UNCHANGED <<caller, tally, verdict>>

(* No trace: the worker fails the case, and gives it no profile.           *)
AgentFails ==
  /\ caller = "worker" /\ stage = "next" /\ Cases < Total
  /\ case' = [NoCase EXCEPT !.outcome = "execution_error", !.raised = TRUE]
  /\ verdict' = "failed"
  /\ stage' = "decided"
  /\ UNCHANGED <<caller, tally>>

(* No trace: evaluate_case_sync returns the profile as it was named, auto  *)
(* included, without checks or metrics, and the question is rag_ok.        *)
FetchFails ==
  /\ caller = "dataset" /\ stage = "next" /\ Cases < Total
  /\ \E explicit \in Explicit :
       case' = [NoCase EXCEPT !.outcome = "execution_error", !.profile = explicit,
                              !.raised = TRUE]
  /\ verdict' = IF RagOk(<<>>) THEN "passed" ELSE "failed"
  /\ stage' = "decided"
  /\ UNCHANGED <<caller, tally>>

(* score_trace: what the worker asks for is gone through metric by metric, *)
(* a question for what can be measured.  Only the worker may have no judge.*)
ScoreTrace ==
  /\ stage = "traced"
  /\ \/ \E expected \in BOOLEAN :
          \/ /\ caller = "worker"
             /\ \E selected \in Selections, n \in 0..MaxCustom :
                  case' = [case EXCEPT !.selected = selected \o CustomMetrics(n),
                                       !.expected = expected,
                                       !.todo = selected \o CustomMetrics(n)]
          \/ /\ caller = "dataset"
             /\ LET metrics == MetricsOfProfile(case.profile, case.context, expected)
                IN case' = [case EXCEPT !.selected = metrics, !.expected = expected,
                                        !.queue = metrics]
     \/ caller = "worker" /\ UNCHANGED case
  /\ stage' = "scoring"
  /\ UNCHANGED <<caller, tally, verdict>>

(* Mutation: a selected metric is measured all the same.                   *)
SelectMetricAnyway ==
  /\ stage = "scoring" /\ case.todo # <<>>
  /\ case' = [case EXCEPT !.todo = Tail(@), !.queue = Append(@, Head(case.todo))]
  /\ UNCHANGED <<caller, stage, tally, verdict>>

(* metrics_to_run, or a skipped result without a judge.                    *)
SelectMetric ==
  /\ stage = "scoring" /\ case.todo # <<>>
  /\ LET metric == Head(case.todo)
     IN case' = IF NeedsReference(metric, case.expected)
                THEN [case EXCEPT !.todo = Tail(@), !.results = Append(@, Result(metric, "skipped"))]
                ELSE [case EXCEPT !.todo = Tail(@), !.queue = Append(@, metric)]
  /\ UNCHANGED <<caller, stage, tally, verdict>>

(* A metric that raises costs only itself.                                 *)
Measure ==
  /\ stage = "scoring" /\ case.todo = <<>> /\ case.queue # <<>>
  /\ \E v \in {"passed", "insufficient", "error"} :
       case' = [case EXCEPT !.queue = Tail(@),
                            !.results = Append(@, Result(Head(case.queue), v))]
  /\ UNCHANGED <<caller, stage, tally, verdict>>

(* The scoring raises as a whole (a criterion with an unknown parameter,   *)
(* no test case): the case fails with nothing to show.                     *)
ScoringRaises ==
  /\ caller = "worker" /\ stage = "traced"
  /\ case' = [NoCase EXCEPT !.outcome = "execution_error", !.raised = TRUE]
  /\ verdict' = "failed"
  /\ stage' = "decided"
  /\ UNCHANGED <<caller, tally>>

(* Of a question anything may raise: build_judge before there is a trace,  *)
(* the scoring after.  The activity answers in its place.                  *)
QuestionRaises ==
  /\ caller = "dataset"
  /\ \/ stage = "next" /\ Cases < Total
     \/ stage = "traced"
  /\ case' = [NoCase EXCEPT !.outcome = "error", !.profile = "unknown", !.raised = TRUE]
  /\ verdict' = "failed"
  /\ stage' = "decided"
  /\ UNCHANGED <<caller, tally>>

Decide ==
  /\ stage = "scoring" /\ case.todo = <<>> /\ case.queue = <<>>
  /\ verdict' = IF caller = "worker" THEN CaseVerdict(case.checks, case.results, Errors)
                ELSE IF RagOk(case.checks) THEN "passed" ELSE "failed"
  /\ stage' = "decided"
  /\ UNCHANGED <<caller, case, tally>>

NextCase ==
  /\ stage = "decided"
  /\ tally' = [tally EXCEPT ![verdict] = @ + 1]
  /\ case' = NoCase /\ verdict' = "pending" /\ stage' = "next"
  /\ UNCHANGED caller

(* A case whose attempts are exhausted has no verdict, see TemporalRun.    *)
LeaveOut ==
  /\ caller = "worker" /\ stage = "next" /\ Cases < Total
  /\ tally' = [tally EXCEPT !["left_out"] = @ + 1]
  /\ UNCHANGED <<caller, stage, case, verdict>>

FinalizeRun ==
  /\ caller = "worker" /\ stage = "next" /\ Cases = Total
  /\ verdict' = RunVerdict(tally["failed"], tally["insufficient"], Total)
  /\ stage' = "final"
  /\ UNCHANGED <<caller, case, tally>>

Init ==
  /\ caller \in {"worker", "dataset"}
  /\ stage = "next" /\ case = NoCase /\ verdict = "pending"
  /\ tally = [k \in Kinds |-> 0]

Next == \/ ReadTrace \/ AgentFails \/ FetchFails
        \/ ScoreTrace \/ SelectMetric \/ Measure \/ ScoringRaises \/ QuestionRaises
        \/ Decide \/ NextCase \/ LeaveOut \/ FinalizeRun

Spec == Init /\ [][Next]_vars

-----------------------------------------------------------------------------
(* classify_outcome and the checks of the sql profile read the errors of a *)
(* trace each for itself, and the verdict reads the checks alone: still, a *)
(* SQL case whose outcome speaks of an error of the trace or of a node is  *)
(* failed, by either caller, whatever the metrics say and whichever checks *)
(* do not apply.  Excepted is the question whose agent could not be asked: *)
(* it has nothing to judge, and is rag_ok.                                 *)
SqlErrorIsNeverPassed ==
  stage = "decided" /\ case.profile = "sql" /\ case.outcome \in {"execution_error", "degraded"}
  => \/ verdict = "failed"
     \/ caller = "dataset" /\ case.checks = <<>> /\ case.results = <<>>

(* Every metric that was asked for, as often as it was asked for, has one  *)
(* result once the case is scored; it is skipped exactly when it would be  *)
(* judged against an expected output the case does not have, on either     *)
(* path.                                                                   *)
Count(seq, metric) == Cardinality({i \in DOMAIN seq : seq[i] = metric})

EveryMetricIsReported ==
  stage = "decided" =>
    LET reported == [i \in DOMAIN case.results |-> case.results[i].metric]
    IN /\ \A m \in BuiltinMetricIds \cup {Custom} : Count(reported, m) = Count(case.selected, m)
       /\ \A i \in DOMAIN case.results :
            case.results[i].verdict = "skipped" <=> NeedsReference(reported[i], case.expected)

(* A case fails because the agent, a metric or the scoring failed or a     *)
(* check that applies did; a low or a missing score never fails it.        *)
FailedHasACause ==
  stage = "decided" /\ caller = "worker" =>
    (verdict = "failed" <=> \/ case.raised
                           \/ Errors > 0
                           \/ \E i \in DOMAIN case.checks : case.checks[i] = "failed")

(* When every case of a run was executed and none failed, the run passes   *)
(* if and only if more of its cases passed than were insufficient.         *)
PassedRunHasMajority ==
  /\ stage = "final" /\ tally["left_out"] = 0 /\ tally["failed"] = 0
  => (verdict = "passed" <=> tally["passed"] > tally["insufficient"])
=============================================================================
