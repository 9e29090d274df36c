----------------------------- MODULE TeamCatalogue -----------------------------
(***************************************************************************)
(* What the HTTP interface promises of the rows of the teams, without      *)
(* surfaces, routes, gates and awaits.  EvaluationApi implements it.       *)
(*                                                                         *)
(* A request asks for one operation and owes the writes of it.  It is      *)
(* refused before the first of them, it breaks before any of them, or it   *)
(* is answered after the last; every row it stores, changes or removes is, *)
(* at that moment, of a team of the caller.  A run is stored only under an *)
(* evaluation of its team, and an evaluation goes only after its runs.     *)
(***************************************************************************)
EXTENDS Naturals

CONSTANTS Ids,              \* identifiers of evaluations and of runs
          Requests,         \* those a request stores its row under
          Users,
          TeamsOf,          \* the teams of each user
          NoRow,
          Executes          \* is there an engine to hand a run to?

VARIABLES
  evaluations, runs,        \* the rows
  asked,        \* what each request asks for
  owed,         \* the writes it still owes
  status        \* of its answer; 0: there is none yet

catalogue == <<evaluations, runs, asked, owed, status>>

Operations == {"create", "start", "cancelRun", "deleteRun", "deleteEvaluation",
               "list", "mine", "choices", "readEvaluation", "readRun"}

Owes(op) ==
  CASE op = "create"           -> {"insert"}
    [] op = "start"            -> {"insert_run", "insert_cases", "submit"}
    [] op = "cancelRun"        -> {"cancel"}
    [] op = "deleteRun"        -> {"delete"}
    [] op = "deleteEvaluation" -> {"list_runs", "cascade"}
    [] OTHER                   -> {}

Refusals == {401, 403, 404, 409, 422, 502, 503}

There(row) == row # NoRow
RunsOf(e)  == {x \in Ids : There(runs[x]) /\ runs[x].evaluation = e}

Init ==
  /\ \A x \in Ids : There(runs[x]) => /\ There(evaluations[runs[x].evaluation])
                                      /\ runs[x].team = evaluations[runs[x].evaluation].team
  /\ \A r \in Requests : /\ ~There(evaluations[r]) /\ ~There(runs[r])
                         /\ asked[r].op = "none" /\ owed[r] = {} /\ status[r] = 0

-----------------------------------------------------------------------------
(* From the request to its answer.                                         *)

Asks(r, ops) ==
  /\ asked[r].op = "none" /\ asked'[r].op \in ops
  /\ \A q \in Requests \ {r} : asked'[q] = asked[q]
  /\ UNCHANGED <<evaluations, runs>>

Ask(r) ==
  /\ Asks(r, Operations)
  /\ asked'[r].user \in Users
  /\ owed' = [owed EXCEPT ![r] = Owes(asked'[r].op)]
  /\ UNCHANGED status

(* Who is not authenticated has asked for nothing.                         *)
TurnAway(r) ==
  /\ Asks(r, {"refused"})
  /\ \E code \in {401, 403} : status' = [status EXCEPT ![r] = code]
  /\ UNCHANGED owed

(* One answer to what was asked, and nothing is owed any more.             *)
Answers(r, codes) ==
  /\ status[r] = 0 /\ status'[r] \in codes
  /\ asked[r].op \in Operations
  /\ \A q \in Requests \ {r} : status'[q] = status[q]
  /\ owed' = [owed EXCEPT ![r] = {}]
  /\ UNCHANGED asked

(* No refusal once a write was done.                                       *)
Refuse(r) ==
  /\ Answers(r, Refusals)
  /\ owed[r] = Owes(asked[r].op)
  /\ UNCHANGED <<evaluations, runs>>

Read(r) ==
  /\ Answers(r, {200})
  /\ Owes(asked[r].op) = {}
  /\ UNCHANGED <<evaluations, runs>>

(* What was written before a failure stays.                                *)
Break(r) == Answers(r, {500}) /\ UNCHANGED <<evaluations, runs>>

-----------------------------------------------------------------------------
(* The writes, in their order.                                             *)

Owing(r, op, writes) == status[r] = 0 /\ asked[r].op = op /\ owed[r] = writes

Wrote(r, write) == owed' = [owed EXCEPT ![r] = @ \ {write}] /\ UNCHANGED <<asked, status>>

(* A row a request may touch: of a team of its caller.                     *)
Own(r, row) == row.team \in TeamsOf[asked[r].user]

Insert(r) ==
  /\ Answers(r, {201})
  /\ Owing(r, "create", {"insert"})
  /\ ~There(evaluations[r])
  /\ \A e \in Ids \ {r} : evaluations'[e] = evaluations[e]
  /\ There(evaluations'[r]) /\ Own(r, evaluations'[r]) /\ evaluations'[r].by = asked[r].user
  /\ UNCHANGED runs

InsertRun(r) ==
  LET e == asked[r].target
  IN /\ Owing(r, "start", Owes("start"))
     /\ There(evaluations[e]) /\ Own(r, evaluations[e])
     /\ ~There(runs[r])
     /\ runs' = [runs EXCEPT ![r] =
                   [evaluation |-> e, team |-> evaluations[e].team, by |-> asked[r].user,
                    state |-> "pending", cases |-> FALSE, work |-> "none"]]
     /\ Wrote(r, "insert_run")
     /\ UNCHANGED evaluations

InsertCases(r) ==
  /\ Owing(r, "start", {"insert_cases", "submit"})
  /\ There(runs[r])
  /\ runs' = [runs EXCEPT ![r].cases = TRUE]
  /\ Wrote(r, "insert_cases")
  /\ UNCHANGED evaluations

(* The row may have been deleted by now.                                   *)
Submit(r) ==
  /\ Answers(r, {202})
  /\ Owing(r, "start", {"submit"})
  /\ runs' = IF Executes /\ There(runs[r]) THEN [runs EXCEPT ![r].work = "submitted"] ELSE runs
  /\ UNCHANGED evaluations

(* Whatever the state of the run has become.                               *)
Cancel(r) ==
  LET x == asked[r].target
  IN /\ Answers(r, {202})
     /\ Owing(r, "cancelRun", {"cancel"})
     /\ IF There(runs[x]) THEN Own(r, runs[x]) /\ runs' = [runs EXCEPT ![x].state = "cancelled"]
        ELSE UNCHANGED runs
     /\ UNCHANGED evaluations

Delete(r) ==
  LET x == asked[r].target
  IN /\ Answers(r, {204})
     /\ Owing(r, "deleteRun", {"delete"})
     /\ There(runs[x]) => Own(r, runs[x])
     /\ runs' = [runs EXCEPT ![x] = NoRow]
     /\ UNCHANGED evaluations

(* An evaluation is deleted only if none of its runs was seen running, and *)
(* after the last of them.                                                 *)
ListRuns(r) ==
  /\ Owing(r, "deleteEvaluation", Owes("deleteEvaluation"))
  /\ \A x \in RunsOf(asked[r].target) : runs[x].state # "running"
  /\ Wrote(r, "list_runs")
  /\ UNCHANGED <<evaluations, runs>>

DeleteOne(r) ==
  /\ Owing(r, "deleteEvaluation", {"cascade"})
  /\ \E x \in RunsOf(asked[r].target) : Own(r, runs[x]) /\ runs' = [runs EXCEPT ![x] = NoRow]
  /\ UNCHANGED <<evaluations, asked, owed, status>>

DeleteEvaluation(r) ==
  LET e == asked[r].target
  IN /\ Answers(r, {204})
     /\ Owing(r, "deleteEvaluation", {"cascade"})
     /\ RunsOf(e) = {}
     /\ There(evaluations[e]) => Own(r, evaluations[e])
     /\ evaluations' = [evaluations EXCEPT ![e] = NoRow]
     /\ UNCHANGED runs

-----------------------------------------------------------------------------
(* The engine takes up what was handed to it.                              *)
Executed(x, before, state, work) ==
  /\ There(runs[x]) /\ runs[x].work = before
  /\ runs' = [runs EXCEPT ![x].state = state, ![x].work = work]
  /\ UNCHANGED <<evaluations, asked, owed, status>>

Next ==
  \/ \E r \in Requests :
       \/ Ask(r) \/ TurnAway(r) \/ Refuse(r) \/ Read(r) \/ Break(r)
       \/ Insert(r) \/ InsertRun(r) \/ InsertCases(r) \/ Submit(r)
       \/ Cancel(r) \/ Delete(r)
       \/ ListRuns(r) \/ DeleteOne(r) \/ DeleteEvaluation(r)
  \/ \E x \in Ids : \/ Executed(x, "submitted", "running", "begun")
                    \/ Executed(x, "begun", "completed", "ended")

Spec == Init /\ [][Next]_catalogue
=============================================================================
