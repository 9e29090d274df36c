---------------------------- MODULE EvaluationApi ----------------------------
(***************************************************************************)
(* The HTTP interface: the routes of /evaluation/v1 (evaluations/api.py,   *)
(* runs/api.py), of its task view (tasks/api.py) and of the hosted         *)
(* application (hosted/api.py), with the service functions they call.      *)
(*                                                                         *)
(* A request is a coroutine.  Its route is the sequence of steps between   *)
(* two awaits, one action each, so requests interleave with each other and *)
(* with the worker at every await; nothing is held across two of them.     *)
(* How a run is executed, its events and its analysis are the subject of   *)
(* TemporalRun, MemoryRunner and EventStream.                              *)
(***************************************************************************)
EXTENDS AccessGate, EvaluationCatalog, Sequences, TLC

CONSTANTS Requests,         \* the requests, each made at most once
          Names,            \* names of evaluations
          Declared,         \* versions a document may declare
          TemporalConfigured, \* whether there is a Temporal client provider
          MaxFailures       \* bound on the calls that fail

Undeclared == Version("none", 0)     \* the document leaves it out

TerminalRunStates == {"completed", "succeeded", "failed", "cancelled", "error"}

VersionTexts   == [style : {"none", "v", "plain", "label"}, number : Nat]
EvaluationRows == [team : NamedTeams, name : Names, version : VersionTexts, by : Users]
RunRows ==
  [evaluation : Ids, team : NamedTeams, by : Users,
   state : TerminalRunStates \cup {"pending", "running"}, cases : BOOLEAN,
   work : {"none", "submitted", "begun", "ended"}]

ASSUME ApiAssumption ==
  /\ Requests \subseteq Ids /\ IsFiniteSet(Ids)
  /\ DOMAIN SeedEvaluations \cap Requests = {}
  /\ DOMAIN SeedRuns \cap Requests = {}
  /\ Declared \subseteq VersionTexts
  /\ "none" \notin NamedTeams \cup Ids
  /\ TemporalConfigured \in BOOLEAN
  /\ MaxFailures \in Nat

(* The rows there are at the start: a run belongs to the team of its       *)
(* evaluation, which is there.                                             *)
ASSUME SeedAssumption ==
  /\ SeedEvaluations \in [DOMAIN SeedEvaluations -> EvaluationRows]
  /\ SeedRuns \in [DOMAIN SeedRuns -> RunRows]
  /\ DOMAIN SeedEvaluations \cup DOMAIN SeedRuns \subseteq Ids
  /\ NoRow \notin EvaluationRows \cup RunRows
  /\ \A x \in DOMAIN SeedRuns :
       /\ SeedRuns[x].evaluation \in DOMAIN SeedEvaluations
       /\ SeedRuns[x].team = SeedEvaluations[SeedRuns[x].evaluation].team

VARIABLES
  req,          \* each request: what it asks and how far it has come
  history,      \* for the properties only: what each request reached and saw
  failures      \* calls that failed so far

vars == <<evaluations, runs, req, history, failures>>

NoAnswer == Answer(0, "none")
NoRequest ==
  [op |-> "none", surface |-> "v1", user |-> "none", team |-> "none", target |-> "none",
   name |-> "none", version |-> Undeclared, todo |-> <<>>, owner |-> "none",
   listed |-> {}, answer |-> NoAnswer]
NoHistory == [touched |-> {}, changed |-> FALSE, saw |-> {}, known |-> {}]

-----------------------------------------------------------------------------
(* The routes, as the steps each takes after the caller is authenticated.  *)
CatalogueRoutes ==
  [create           |-> <<"member", "version", "insert">>,
   list             |-> <<"member", "list">>,
   deleteEvaluation |-> <<"evaluation", "member", "list_runs", "cascade">>]

(* Mutant of RunRoutes: the workflow is started before the cases are there. *)
RunRoutesSubmittingEarly ==
  [start          |-> <<"evaluation", "prepare", "insert_run", "submit", "insert_cases">>,
   readEvaluation |-> <<"evaluation", "member", "read_evaluation">>,
   readRun        |-> <<"run", "member", "read_run">>,
   cancelRun      |-> <<"run", "member", "check_cancel", "cancel">>,
   deleteRun      |-> <<"run", "member", "check_delete", "delete">>]

RunRoutes ==
  [start          |-> <<"evaluation", "prepare", "insert_run", "insert_cases", "submit">>,
   readEvaluation |-> <<"evaluation", "member", "read_evaluation">>,
   readRun        |-> <<"run", "member", "read_run">>,
   cancelRun      |-> <<"run", "member", "check_cancel", "cancel">>,
   deleteRun      |-> <<"run", "member", "check_delete", "delete">>]

TaskRoutes ==
  [list      |-> <<"member", "list">>,
   mine      |-> <<"mine">>,
   readRun   |-> <<"run", "member", "read_run">>,
   cancelRun |-> <<"run", "member", "check_cancel", "cancel">>]

HostedCatalogueRoutes ==
  [create           |-> <<"entitled", "member", "version", "insert">>,
   list             |-> <<"entitled", "member", "list">>,
   readEvaluation   |-> <<"entitled", "evaluation", "read_evaluation">>,
   deleteEvaluation |-> <<"entitled", "evaluation", "evaluation", "member", "list_runs", "cascade">>,
   start            |-> <<"entitled", "evaluation", "prepare", "insert_run", "insert_cases", "submit">>]

HostedRunRoutes ==
  [readRun   |-> <<"entitled", "run", "read_run">>,
   cancelRun |-> <<"entitled", "run", "check_cancel", "cancel">>,
   deleteRun |-> <<"entitled", "run", "check_delete", "delete">>]

HostedTeamRoutes == [choices |-> <<"entitled", "fetch">>]

(* Two routers included in one application; no route is in both.           *)
Include(router, other) ==
  [op \in DOMAIN router \cup DOMAIN other |->
     IF op \in DOMAIN router THEN router[op] ELSE other[op]]

Routes ==
  [v1     |-> Include(CatalogueRoutes, RunRoutes),
   tasks  |-> TaskRoutes,
   hosted |-> Include(HostedTeamRoutes, Include(HostedCatalogueRoutes, HostedRunRoutes))]

Surfaces == DOMAIN Routes
TeamOps  == {"create", "list", "choices"}                \* name a team only
EvaluationOps == {"readEvaluation", "deleteEvaluation", "start"}
RunOps   == {"readRun", "cancelRun", "deleteRun"}

(* What a caller may name: a row that is there, or one that is not there   *)
(* (yet, or any more).                                                     *)
TargetsOf(op) ==
  CASE op \in EvaluationOps -> Requests \cup DOMAIN SeedEvaluations
    [] op \in RunOps        -> Requests \cup DOMAIN SeedRuns
    [] OTHER                -> {"none"}

(* The hosted routes name the team in the path; on v1 only those about a   *)
(* team, and start_run in its body, do.                                    *)
NamesATeam(op, surface) == surface = "hosted" \/ op \in TeamOps \cup {"start"}

-----------------------------------------------------------------------------
(* How a step of a request ends.                                           *)
At(r, step) == req[r].todo # <<>> /\ Head(req[r].todo) = step

Goes(r) == req' = [req EXCEPT ![r].todo = Tail(@)]

(* The locals of the coroutine go with it.                                 *)
Reply(r, answer) ==
  req' = [req EXCEPT ![r] = [NoRequest EXCEPT !.op = req[r].op, !.user = req[r].user,
                               !.target = req[r].target, !.answer = answer]]

Gate(r, answer) == IF answer = Admitted THEN Goes(r) ELSE Reply(r, answer)

Reaches(r, rows) ==
  history' = [history EXCEPT ![r].touched = @ \cup {[team |-> x.team, by |-> x.by] : x \in rows}]

Changes(r, rows) ==
  history' = [history EXCEPT ![r].changed = TRUE,
                ![r].touched = @ \cup {[team |-> x.team, by |-> x.by] : x \in rows}]

Rows == <<evaluations, runs>>
Fails == failures < MaxFailures /\ failures' = failures + 1

(* A call of the Control Plane: its verdict, or one of its failures.       *)
AsksControlPlane(r, verdict) ==
  \/ /\ Gate(r, verdict)
     /\ UNCHANGED failures
  \/ /\ Fails
     /\ \E f \in ControlPlaneFailures : Reply(r, MapControlPlaneError(f))

-----------------------------------------------------------------------------
(* The gates.                                                              *)
Arrive(r) ==
  /\ req[r] = NoRequest
  /\ \E surface \in Surfaces :
     \E op \in DOMAIN Routes[surface], user \in Users :
     \E target \in TargetsOf(op),
        team \in IF NamesATeam(op, surface) THEN NamedTeams ELSE {"none"},
        name \in IF op = "create" THEN Names ELSE {"none"},
        version \in IF op = "create" THEN Declared \cup {Undeclared} ELSE {Undeclared} :
       req' = [req EXCEPT ![r] =
                 [op |-> op, surface |-> surface, user |-> user, team |-> team, target |-> target,
                  name |-> name, version |-> version, todo |-> Routes[surface][op],
                  owner |-> "none", listed |-> {}, answer |-> NoAnswer]]
  /\ UNCHANGED <<Rows, history, failures>>

(* get_current_user refuses the caller, before the route.                  *)
Unauthenticated(r) ==
  /\ req[r] = NoRequest
  /\ Fails
  /\ \E status \in {401, 403} :
       req' = [req EXCEPT ![r] =
                 [NoRequest EXCEPT !.op = "refused",
                    !.answer = NormalizeUnstructuredAuthError(Refused(status))]]
  /\ UNCHANGED <<Rows, history>>

(* The alias is refused before the Control Plane is asked.                 *)
IsEntitled(r) ==
  /\ At(r, "entitled")
  /\ IF req[r].team = Personal
     THEN Reply(r, RequireEntitled(req[r].user, req[r].team)) /\ UNCHANGED failures
     ELSE AsksControlPlane(r, RequireEntitled(req[r].user, req[r].team))
  /\ UNCHANGED <<Rows, history>>

VisibleToAnyTeam(r, row) == row # NoRow        \* mutant of Visible

(* A row of another team than the one the request names is treated as one  *)
(* that does not exist.                                                    *)
Visible(r, row) ==
  /\ row # NoRow
  /\ NamesATeam(req[r].op, req[r].surface) => row.team = req[r].team

(* delete_evaluation raises a 404 with a plain text.                       *)
LoadEvaluation(r) ==
  /\ At(r, "evaluation")
  /\ LET row == evaluations[req[r].target]
         again == req[r].owner # "none" \/ req[r].surface = "v1"
     IN IF Visible(r, row) THEN req' = [req EXCEPT ![r].todo = Tail(@), ![r].owner = row.team]
        ELSE Reply(r, IF req[r].op = "deleteEvaluation" /\ again
                      THEN Refused(404) ELSE EvaluationNotFound)
  /\ UNCHANGED <<Rows, history, failures>>

LoadRun(r) ==
  /\ At(r, "run")
  /\ LET row == runs[req[r].target]
     IN IF Visible(r, row) THEN req' = [req EXCEPT ![r].todo = Tail(@), ![r].owner = row.team]
        ELSE Reply(r, IF req[r].surface = "hosted" THEN RunNotFound ELSE Refused(404))
  /\ UNCHANGED <<Rows, history, failures>>

(* The team asked about is that of the row, or the one named without one.  *)
TeamOfRequest(r) == IF req[r].owner = "none" THEN req[r].team ELSE req[r].owner

IsMemberOfTeam(r) ==
  /\ At(r, "member")
  /\ AsksControlPlane(r, ResolveTeamMembership(req[r].user, TeamOfRequest(r)))
  /\ UNCHANGED <<Rows, history>>

-----------------------------------------------------------------------------
(* create_evaluation: the version is decided in one step and stored in     *)
(* another.                                                                *)
ResolveVersion(r) ==
  /\ At(r, "version")
  /\ LET q == req[r]
     IN IF q.version = Undeclared
        THEN req' = [req EXCEPT ![r].todo = Tail(@),
                       ![r].version = Version("v", GetLatestVersionNumber(q.team, q.name) + 1)]
        ELSE Gate(r, IF VersionExists(q.team, q.name, q.version) THEN Refused(409) ELSE Admitted)
  /\ history' = [history EXCEPT ![r].saw = EvaluationIds]
  /\ UNCHANGED <<Rows, failures>>

InsertEvaluation(r) ==
  /\ At(r, "insert")
  /\ LET row == [team |-> req[r].team, name |-> req[r].name,
                 version |-> req[r].version, by |-> req[r].user]
     IN CreateEvaluation(r, row) /\ Changes(r, {row})
  /\ Reply(r, Success(201))
  /\ UNCHANGED <<runs, failures>>

(* list_evaluations and list_tasks of a team.                              *)
ListTeam(r) ==
  /\ At(r, "list")
  /\ Reaches(r, IF req[r].surface = "tasks"
                THEN {runs[x] : x \in RunsOfTeam(req[r].team)}
                ELSE {evaluations[e] : e \in EvaluationsOfTeam(req[r].team)})
  /\ Reply(r, Success(200))
  /\ UNCHANGED <<Rows, failures>>

(* list_tasks of the caller: no team is asked about.                       *)
ListMine(r) ==
  /\ At(r, "mine")
  /\ Reaches(r, {runs[x] : x \in RunsOfCreator(req[r].user)})
  /\ Reply(r, Success(200))
  /\ UNCHANGED <<Rows, failures>>

(* get_evaluation reads the row once more; list_runs and the summary read  *)
(* the runs of the evaluation, none if it is gone by now.                  *)
ReadEvaluation(r) ==
  /\ At(r, "read_evaluation")
  /\ \/ /\ req[r].surface = "hosted"
        /\ IF req[r].target \in EvaluationIds
           THEN Reaches(r, {evaluations[req[r].target]}) /\ Reply(r, Success(200))
           ELSE Reply(r, EvaluationNotFound) /\ UNCHANGED history
     \/ /\ Reaches(r, {runs[x] : x \in RunsOfEvaluation(req[r].target)})
        /\ Reply(r, Success(200))
  /\ UNCHANGED <<Rows, failures>>

-----------------------------------------------------------------------------
(* Mutant of ListRunsToDelete: only the runs not executed yet.             *)
ListPendingRunsToDelete(r) ==
  /\ At(r, "list_runs")
  /\ LET found == RunsOfEvaluation(req[r].target)
     IN /\ IF \E x \in found : runs[x].state = "running" THEN Reply(r, Refused(409))
           ELSE req' = [req EXCEPT ![r].todo = Tail(@),
                                    ![r].listed = {x \in found : runs[x].state = "pending"}]
        /\ history' = [history EXCEPT ![r].known = found]
  /\ UNCHANGED <<Rows, failures>>

(* Mutant of DeleteListedRun: the state is looked at run by run.           *)
DeleteListedRunUnlessRunning(r) ==
  /\ At(r, "cascade")
  /\ \E x \in req[r].listed :
       IF x \in RunIds /\ runs[x].state = "running"
       THEN Reply(r, Refused(409)) /\ UNCHANGED <<runs, history>>
       ELSE /\ DeleteRun(x)
            /\ IF x \in RunIds THEN Changes(r, {runs[x]}) ELSE UNCHANGED history
            /\ req' = [req EXCEPT ![r].listed = @ \ {x}]
  /\ UNCHANGED <<evaluations, failures>>

(* delete_evaluation: list the runs, refuse if one is running, then delete *)
(* run after run, each in a transaction of its own, and last the row.      *)
ListRunsToDelete(r) ==
  /\ At(r, "list_runs")
  /\ LET found == RunsOfEvaluation(req[r].target)
     IN /\ IF \E x \in found : runs[x].state = "running" THEN Reply(r, Refused(409))
           ELSE req' = [req EXCEPT ![r].todo = Tail(@), ![r].listed = found]
        /\ history' = [history EXCEPT ![r].known = found]
  /\ UNCHANGED <<Rows, failures>>

DeleteListedRun(r) ==
  /\ At(r, "cascade")
  /\ \E x \in req[r].listed :
       /\ DeleteRun(x)
       /\ IF x \in RunIds THEN Changes(r, {runs[x]}) ELSE UNCHANGED history
       /\ req' = [req EXCEPT ![r].listed = @ \ {x}]
  /\ UNCHANGED <<evaluations, failures>>

DeleteEvaluationRow(r) ==
  /\ At(r, "cascade")
  /\ req[r].listed = {}
  /\ LET e == req[r].target
     IN IF EvaluationCanBeDeleted(e)
        THEN /\ DeleteEvaluation(e)
             /\ IF e \in EvaluationIds THEN Changes(r, {evaluations[e]}) ELSE UNCHANGED history
             /\ Reply(r, Success(204))
        ELSE Reply(r, ServerError) /\ UNCHANGED <<evaluations, history>>
  /\ UNCHANGED <<runs, failures>>

-----------------------------------------------------------------------------
(* Mutant of PrepareTarget: the target as it was prepared for someone else. *)
PrepareTargetUnasked(r) ==
  /\ At(r, "prepare")
  /\ Goes(r)
  /\ UNCHANGED <<Rows, history, failures>>

(* launch_run: the target is prepared with the caller's identity, the run  *)
(* and then its cases are stored, and only then the workflow is started.   *)
PrepareTarget(r) ==
  /\ At(r, "prepare")
  /\ AsksControlPlane(r, ResolveManagedInstance(req[r].user, req[r].team))
  /\ UNCHANGED <<Rows, history>>

InsertRun(r) ==
  /\ At(r, "insert_run")
  /\ LET row == [evaluation |-> req[r].target, team |-> req[r].team, by |-> req[r].user,
                 state |-> "pending", cases |-> FALSE, work |-> "none"]
     IN IF RunCanBeCreated(req[r].target)
        THEN CreateRun(r, row) /\ Changes(r, {row}) /\ Goes(r)
        ELSE Reply(r, ServerError) /\ UNCHANGED <<runs, history>>
  /\ UNCHANGED <<evaluations, failures>>

InsertCases(r) ==
  /\ At(r, "insert_cases")
  /\ IF r \in RunIds THEN CreateCases(r) /\ Goes(r)
     ELSE Reply(r, ServerError) /\ UNCHANGED runs
  /\ UNCHANGED <<evaluations, history, failures>>

StartWorkflow(r) ==
  /\ At(r, "submit")
  /\ runs' = IF TemporalConfigured /\ r \in RunIds
             THEN [runs EXCEPT ![r].work = "submitted"] ELSE runs
  /\ Reply(r, Success(202))
  /\ UNCHANGED <<evaluations, history, failures>>

-----------------------------------------------------------------------------
(* get_run, list_run_cases, get_run_case and the report, which all read    *)
(* the rows once more: a run deleted since is a 404 or an empty list.  The *)
(* team name of the report is best-effort and fails nothing.               *)
ReadRun(r) ==
  /\ At(r, "read_run")
  /\ LET x == req[r].target
     IN IF x \in RunIds
        THEN Reaches(r, {runs[x]}) /\ Reply(r, Success(200))
        ELSE /\ \E answer \in {Refused(404), Success(200)} : Reply(r, answer)
             /\ UNCHANGED history
  /\ UNCHANGED <<Rows, failures>>

CheckCancel(r) ==
  /\ At(r, "check_cancel")
  /\ LET x == req[r].target
     IN Gate(r, IF x \notin RunIds THEN Refused(404)
                ELSE IF runs[x].state \in TerminalRunStates THEN Refused(409) ELSE Admitted)
  /\ UNCHANGED <<Rows, history, failures>>

CancelRun(r) ==
  /\ At(r, "cancel")
  /\ LET x == req[r].target
     IN /\ UpdateRunState(x, "cancelled")
        /\ IF x \in RunIds THEN Changes(r, {runs[x]}) ELSE UNCHANGED history
  /\ Reply(r, Success(202))
  /\ UNCHANGED <<evaluations, failures>>

CheckDelete(r) ==
  /\ At(r, "check_delete")
  /\ LET x == req[r].target
     IN Gate(r, IF x \notin RunIds THEN Refused(404)
                ELSE IF runs[x].state = "running" THEN Refused(409) ELSE Admitted)
  /\ UNCHANGED <<Rows, history, failures>>

EraseRun(r) ==
  /\ At(r, "delete")
  /\ LET x == req[r].target
     IN DeleteRun(x) /\ IF x \in RunIds THEN Changes(r, {runs[x]}) ELSE UNCHANGED history
  /\ Reply(r, Success(204))
  /\ UNCHANGED <<evaluations, failures>>

(* The agent instances and model profiles of the team; the metrics, which  *)
(* are a constant of the program, need no call.                            *)
FetchFromControlPlane(r) ==
  /\ At(r, "fetch")
  /\ \/ Reply(r, Success(200)) /\ UNCHANGED failures
     \/ /\ Fails
        /\ \E f \in ControlPlaneFailures : Reply(r, MapControlPlaneError(f))
  /\ UNCHANGED <<Rows, history>>

(* The database or the Temporal server fails a step: nothing undoes what   *)
(* the steps before it committed.                                          *)
RequestFails(r) ==
  /\ req[r].todo # <<>>
  /\ Fails
  /\ Reply(r, ServerError)
  /\ UNCHANGED <<Rows, history>>

-----------------------------------------------------------------------------
(* What the worker makes of a submitted run, see TemporalRun.              *)
WorkerStarts(x) ==
  /\ x \in RunIds /\ runs[x].work = "submitted"
  /\ runs' = [runs EXCEPT ![x].state = "running", ![x].work = "begun"]
  /\ UNCHANGED <<evaluations, req, history, failures>>

WorkerEnds(x) ==
  /\ x \in RunIds /\ runs[x].work = "begun"
  /\ runs' = [runs EXCEPT ![x].state = "completed", ![x].work = "ended"]
  /\ UNCHANGED <<evaluations, req, history, failures>>

Init ==
  /\ CatalogInit
  /\ req = [r \in Requests |-> NoRequest]
  /\ history = [r \in Requests |-> NoHistory]
  /\ failures = 0

Next ==
  \/ \E r \in Requests :
       \/ Arrive(r) \/ Unauthenticated(r) \/ RequestFails(r)
       \/ IsEntitled(r) \/ IsMemberOfTeam(r) \/ LoadEvaluation(r) \/ LoadRun(r)
       \/ ResolveVersion(r) \/ InsertEvaluation(r)
       \/ ListTeam(r) \/ ListMine(r) \/ ReadEvaluation(r) \/ ReadRun(r)
       \/ ListRunsToDelete(r) \/ DeleteListedRun(r) \/ DeleteEvaluationRow(r)
       \/ PrepareTarget(r) \/ InsertRun(r) \/ InsertCases(r) \/ StartWorkflow(r)
       \/ CheckCancel(r) \/ CancelRun(r) \/ CheckDelete(r) \/ EraseRun(r)
       \/ FetchFromControlPlane(r)
  \/ \E x \in Ids : WorkerStarts(x) \/ WorkerEnds(x)

Spec == Init /\ [][Next]_vars

-----------------------------------------------------------------------------
(* What of a request TeamCatalogue speaks of: what was asked, by whom and  *)
(* on which row, the writes its route has left, and the status it got.     *)
Writes == {"insert", "insert_run", "insert_cases", "submit", "cancel", "delete", "list_runs", "cascade"}

RangeOf(path) == {path[i] : i \in DOMAIN path}

Asking == [r \in Requests |-> [op |-> req[r].op, user |-> req[r].user, target |-> req[r].target]]
Owed   == [r \in Requests |-> RangeOf(req[r].todo) \cap Writes]
Status == [r \in Requests |-> req[r].answer.status]

Catalogue ==
  INSTANCE TeamCatalogue
    WITH TeamsOf  <- [user \in Users |-> {team \in NamedTeams : IsMember(user, team)}],
         Executes <- TemporalConfigured,
         asked    <- Asking,
         owed     <- Owed,
         status   <- Status

(* Behind three surfaces, with their gates in different places and every   *)
(* await between a gate and the row it is about, the interface shows what  *)
(* TeamCatalogue promises.                                                 *)
ImplementsCatalogue == Catalogue!Spec

-----------------------------------------------------------------------------
Answered(r) == req[r].answer # NoAnswer

(* Every 401 and 403 has a code, also those raised outside the evaluator,  *)
(* and no answer is outside the vocabulary of evaluator_errors.py.         *)
TypeOK ==
  /\ \A r \in Requests : Answered(r) => req[r].answer \in Answers
  /\ evaluations \in [Ids -> EvaluationRows \cup {NoRow}]
  /\ runs \in [Ids -> RunRows \cup {NoRow}]
  /\ failures \in 0..MaxFailures

(* Whatever the route, a caller reads or changes only rows of a team that  *)
(* is his, or runs he created himself: the gates of three surfaces are in  *)
(* different places, and the hosted run routes have none but the first.    *)
OnlyOwnTeamIsReached ==
  \A r \in Requests : \A row \in history[r].touched :
    IsMember(req[r].user, row.team) \/ row.by = req[r].user

(* A refusal leaves no trace: nothing was written before an answer that    *)
(* says the request was not permitted, not found, in conflict, or that the *)
(* Control Plane could not be asked.                                       *)
RefusalChangesNothing ==
  \A r \in Requests :
    req[r].answer.status \in (400..499) \cup {502, 503} => ~history[r].changed

(* Two evaluations share team, name and version only if neither was there  *)
(* when the version of the other was decided (_resolve_version).           *)
VersionsUniqueUnlessRaced ==
  \A e, f \in EvaluationIds :
    /\ e # f /\ f \in Requests
    /\ evaluations[e].team = evaluations[f].team
    /\ evaluations[e].name = evaluations[f].name
    /\ evaluations[e].version = evaluations[f].version
    => e \notin history[f].saw

(* Once a delete was answered 204, neither the evaluation nor a run of it  *)
(* comes back, though start_run may have read the row before.              *)
DeletedIsGone ==
  \A r \in Requests :
    /\ req[r].answer = Success(204)
    => IF req[r].op = "deleteEvaluation"
       THEN req[r].target \notin EvaluationIds /\ RunsOfEvaluation(req[r].target) = {}
       ELSE req[r].target \notin RunIds

(* The cascade reaches every run there was: when no call fails, the delete *)
(* breaks on the foreign key only if a run was created after the listing.  *)
DeleteFailsOnlyByRace ==
  [][\A r \in Requests :
       /\ req[r].op = "deleteEvaluation" /\ ~Answered(r)
       /\ req'[r].answer = ServerError /\ failures' = failures
       => RunsOfEvaluation(req[r].target) \ history[r].known # {}]_vars

(* A run that was accepted has its cases and its workflow; one that is     *)
(* left without a workflow belongs to a request answered with a 500.       *)
AcceptedRunIsSubmitted ==
  TemporalConfigured =>
    \A r \in Requests \cap RunIds :
      /\ Answered(r) =>
           IF runs[r].work = "none" THEN req[r].answer = ServerError
           ELSE req[r].answer = Success(202) /\ runs[r].cases
      /\ runs[r].state = "running" => runs[r].cases
=============================================================================
