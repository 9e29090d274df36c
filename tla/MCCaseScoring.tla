---------------------------- MODULE MCCaseScoring ----------------------------
(***************************************************************************)
(* Traces with the steps the outcome and the SQL checks tell apart: an     *)
(* error text is a result without being an error.                          *)
(***************************************************************************)
EXTENDS CaseScoring

Step(kind, tool, quality) == [kind |-> kind, tool |-> tool, quality |-> quality]

MCTraceSteps ==
  {Step("awaiting_human", "none", "ok"), Step("node_error", "none", "ok"),
   Step("tool_call", "read_query", "ok"), Step("tool_call", "other", "ok"),
   Step("tool_result", "read_query", "ok"), Step("tool_result", "other", "error_text"),
   Step("tool_result", "read_query", "is_error")}

MCTags == {{}, {"rag"}, {"sql"}, {"workflow"}, {"rag", "sql"}}
=============================================================================
