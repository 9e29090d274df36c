-------------------------- MODULE EvaluationApi_proofs --------------------------
(***************************************************************************)
(* Proofs about EvaluationApi, for any teams, users, names, ids, declared  *)
(* versions, requests and failures: the row types, who is let near which   *)
(* row, what a refusal leaves, which versions collide, what stays deleted  *)
(* and what becomes of an accepted run.                                    *)
(*                                                                         *)
(* The routes are sequences of steps, so the invariants speak of what is   *)
(* left of one: the steps of a route stand in an order (Later), and the    *)
(* gates stand before the rest (Gated). A step is taken from a request     *)
(* (Passes) or ends it (Ends); each invariant is shown for either.         *)
(* The last part shows that the three surfaces implement TeamCatalogue.    *)
(***************************************************************************)
EXTENDS EvaluationApi, WellFoundedInduction, FiniteSetTheorems, TLAPS

-----------------------------------------------------------------------------
(* The routes.                                                             *)
Steps == {"entitled", "evaluation", "run", "member", "version", "insert", "list", "mine",
          "read_evaluation", "list_runs", "cascade", "prepare", "insert_run", "insert_cases",
          "submit", "read_run", "check_cancel", "cancel", "check_delete", "delete", "fetch"}
Gates == {"entitled", "evaluation", "run", "member"}

(* The steps any surface takes for an operation.                          *)
StepsOf(op) ==
  CASE op = "create"           -> {"entitled", "member", "version", "insert"}
    [] op = "list"             -> {"entitled", "member", "list"}
    [] op = "choices"          -> {"entitled", "fetch"}
    [] op = "mine"             -> {"mine"}
    [] op = "readEvaluation"   -> {"entitled", "evaluation", "member", "read_evaluation"}
    [] op = "deleteEvaluation" -> {"entitled", "evaluation", "member", "list_runs", "cascade"}
    [] op = "start"            -> {"entitled", "evaluation", "prepare", "insert_run",
                                   "insert_cases", "submit"}
    [] op = "readRun"          -> {"entitled", "run", "member", "read_run"}
    [] op = "cancelRun"        -> {"entitled", "run", "member", "check_cancel", "cancel"}
    [] op = "deleteRun"        -> {"entitled", "run", "member", "check_delete", "delete"}
    [] OTHER                   -> {}

(* The steps that may follow a step, on any route.                         *)
Later(step) ==
  CASE step = "entitled"     -> Steps \ {"entitled"}
    [] step \in {"evaluation", "run"} -> Steps \ {"entitled", "run"}
    [] step = "member"       -> Steps \ Gates
    [] step = "version"      -> {"insert"}
    [] step = "list_runs"    -> {"cascade"}
    [] step = "prepare"      -> {"insert_run", "insert_cases", "submit"}
    [] step = "insert_run"   -> {"insert_cases", "submit"}
    [] step = "insert_cases" -> {"submit"}
    [] step = "check_cancel" -> {"cancel"}
    [] step = "check_delete" -> {"delete"}
    [] OTHER                 -> {}

Ordered(path) == \A i, j \in DOMAIN path : i < j => path[j] \in Later(path[i])

Ops == {"create", "list", "choices", "mine"} \cup EvaluationOps \cup RunOps

(* The gates a route has to have in front, and the steps it may not miss.  *)
Gated(op, surface, path) ==
  /\ surface = "hosted" => "entitled" \in RangeOf(path)
  /\ surface # "hosted" => "entitled" \notin RangeOf(path)
  /\ surface # "hosted" /\ op \notin {"start", "mine"} => "member" \in RangeOf(path)
  /\ op \in EvaluationOps => "evaluation" \in RangeOf(path)
  /\ op \in RunOps => "run" \in RangeOf(path)
  /\ op = "create" => {"version", "insert"} \subseteq RangeOf(path)
  /\ op = "deleteEvaluation" => {"list_runs", "cascade"} \subseteq RangeOf(path)
  /\ op = "start" => {"prepare", "insert_run", "insert_cases", "submit"} \subseteq RangeOf(path)
  /\ op = "cancelRun" => "cancel" \in RangeOf(path)
  /\ op = "deleteRun" => "delete" \in RangeOf(path)

IsRoute(op, surface, path) ==
  /\ op \in Ops
  /\ path \in Seq(Steps)
  /\ RangeOf(path) \subseteq StepsOf(op)
  /\ Ordered(path)
  /\ Gated(op, surface, path)

(* Every route of every surface is one, table by table.                    *)
LEMMA CatalogueRoutesAreGated ==
  \A op \in DOMAIN CatalogueRoutes :
    IsRoute(op, "v1", CatalogueRoutes[op])
<1> USE DEF CatalogueRoutes, IsRoute, Ops, Steps, Gates, RangeOf, StepsOf, Ordered, Later, Gated,
            EvaluationOps, RunOps
<1>1. IsRoute("create", "v1", CatalogueRoutes["create"])
  BY SMTT(60)
<1>2. IsRoute("list", "v1", CatalogueRoutes["list"])
  BY SMTT(60)
<1>3. IsRoute("deleteEvaluation", "v1", CatalogueRoutes["deleteEvaluation"])
  BY SMTT(60)
<1> HIDE DEF IsRoute
<1>4. DOMAIN CatalogueRoutes = {"create", "list", "deleteEvaluation"}
  OBVIOUS
<1>5. QED
  BY <1>1, <1>2, <1>3, <1>4

LEMMA RunRoutesAreGated ==
  \A op \in DOMAIN RunRoutes :
    IsRoute(op, "v1", RunRoutes[op])
<1> USE DEF RunRoutes, IsRoute, Ops, Steps, Gates, RangeOf, StepsOf, Ordered, Later, Gated,
            EvaluationOps, RunOps
<1>1. IsRoute("start", "v1", RunRoutes["start"])
  BY SMTT(60)
<1>2. IsRoute("readEvaluation", "v1", RunRoutes["readEvaluation"])
  BY SMTT(60)
<1>3. IsRoute("readRun", "v1", RunRoutes["readRun"])
  BY SMTT(60)
<1>4. IsRoute("cancelRun", "v1", RunRoutes["cancelRun"])
  BY SMTT(60)
<1>5. IsRoute("deleteRun", "v1", RunRoutes["deleteRun"])
  BY SMTT(60)
<1> HIDE DEF IsRoute
<1>6. DOMAIN RunRoutes = {"start", "readEvaluation", "readRun", "cancelRun", "deleteRun"}
  OBVIOUS
<1>7. QED
  BY <1>1, <1>2, <1>3, <1>4, <1>5, <1>6

LEMMA TaskRoutesAreGated ==
  \A op \in DOMAIN TaskRoutes :
    IsRoute(op, "tasks", TaskRoutes[op])
<1> USE DEF TaskRoutes, IsRoute, Ops, Steps, Gates, RangeOf, StepsOf, Ordered, Later, Gated,
            EvaluationOps, RunOps
<1>1. IsRoute("list", "tasks", TaskRoutes["list"])
  BY SMTT(60)
<1>2. IsRoute("mine", "tasks", TaskRoutes["mine"])
  BY SMTT(60)
<1>3. IsRoute("readRun", "tasks", TaskRoutes["readRun"])
  BY SMTT(60)
<1>4. IsRoute("cancelRun", "tasks", TaskRoutes["cancelRun"])
  BY SMTT(60)
<1> HIDE DEF IsRoute
<1>5. DOMAIN TaskRoutes = {"list", "mine", "readRun", "cancelRun"}
  OBVIOUS
<1>6. QED
  BY <1>1, <1>2, <1>3, <1>4, <1>5

LEMMA HostedCatalogueRoutesAreGated ==
  \A op \in DOMAIN HostedCatalogueRoutes :
    IsRoute(op, "hosted", HostedCatalogueRoutes[op])
<1> USE DEF HostedCatalogueRoutes, IsRoute, Ops, Steps, Gates, RangeOf, StepsOf, Ordered, Later, Gated,
            EvaluationOps, RunOps
<1>1. IsRoute("create", "hosted", HostedCatalogueRoutes["create"])
  BY SMTT(60)
<1>2. IsRoute("list", "hosted", HostedCatalogueRoutes["list"])
  BY SMTT(60)
<1>3. IsRoute("readEvaluation", "hosted", HostedCatalogueRoutes["readEvaluation"])
  BY SMTT(60)
<1>4. IsRoute("deleteEvaluation", "hosted", HostedCatalogueRoutes["deleteEvaluation"])
  BY SMTT(60)
<1>5. IsRoute("start", "hosted", HostedCatalogueRoutes["start"])
  BY SMTT(60)
<1> HIDE DEF IsRoute
<1>6. DOMAIN HostedCatalogueRoutes = {"create", "list", "readEvaluation", "deleteEvaluation", "start"}
  OBVIOUS
<1>7. QED
  BY <1>1, <1>2, <1>3, <1>4, <1>5, <1>6

LEMMA HostedRunRoutesAreGated ==
  \A op \in DOMAIN HostedRunRoutes :
    IsRoute(op, "hosted", HostedRunRoutes[op])
<1> USE DEF HostedRunRoutes, IsRoute, Ops, Steps, Gates, RangeOf, StepsOf, Ordered, Later, Gated,
            EvaluationOps, RunOps
<1>1. IsRoute("readRun", "hosted", HostedRunRoutes["readRun"])
  BY SMTT(60)
<1>2. IsRoute("cancelRun", "hosted", HostedRunRoutes["cancelRun"])
  BY SMTT(60)
<1>3. IsRoute("deleteRun", "hosted", HostedRunRoutes["deleteRun"])
  BY SMTT(60)
<1> HIDE DEF IsRoute
<1>4. DOMAIN HostedRunRoutes = {"readRun", "cancelRun", "deleteRun"}
  OBVIOUS
<1>5. QED
  BY <1>1, <1>2, <1>3, <1>4

LEMMA HostedTeamRoutesAreGated ==
  \A op \in DOMAIN HostedTeamRoutes :
    IsRoute(op, "hosted", HostedTeamRoutes[op])
<1> USE DEF HostedTeamRoutes, IsRoute, Ops, Steps, Gates, RangeOf, StepsOf, Ordered, Later, Gated,
            EvaluationOps, RunOps
<1>1. IsRoute("choices", "hosted", HostedTeamRoutes["choices"])
  BY SMTT(60)
<1> HIDE DEF IsRoute
<1>2. DOMAIN HostedTeamRoutes = {"choices"}
  OBVIOUS
<1>3. QED
  BY <1>1, <1>2


LEMMA RoutesAreGated ==
  \A surface \in Surfaces : \A op \in DOMAIN Routes[surface] :
    IsRoute(op, surface, Routes[surface][op])
<1>1. Surfaces = {"v1", "tasks", "hosted"}
  BY DEF Surfaces, Routes
<1>2. /\ Routes["v1"] = Include(CatalogueRoutes, RunRoutes)
      /\ Routes["tasks"] = TaskRoutes
      /\ Routes["hosted"] = Include(HostedTeamRoutes, Include(HostedCatalogueRoutes, HostedRunRoutes))
  BY DEF Routes
<1>3. ASSUME NEW f, NEW g, NEW op \in DOMAIN Include(f, g)
      PROVE  \/ op \in DOMAIN f /\ Include(f, g)[op] = f[op]
             \/ op \in DOMAIN g /\ Include(f, g)[op] = g[op]
  BY DEF Include
<1>4. QED
  BY <1>1, <1>2, <1>3, CatalogueRoutesAreGated, RunRoutesAreGated, TaskRoutesAreGated,
     HostedCatalogueRoutesAreGated, HostedRunRoutesAreGated, HostedTeamRoutesAreGated

-----------------------------------------------------------------------------
(* TypeOK with the types of the locals of a request spelt out.             *)
RequestTypes ==
  [op : Ops \cup {"none", "refused"}, surface : {"v1", "tasks", "hosted"},
   user : Users \cup {"none"}, team : NamedTeams \cup {"none"},
   target : Ids \cup {"none"}, name : Names \cup {"none"}, version : VersionTexts,
   todo : Seq(Steps), owner : NamedTeams \cup {"none"}, listed : SUBSET Ids,
   answer : Answers \cup {NoAnswer}]
HistoryTypes ==
  [touched : SUBSET [team : NamedTeams, by : Users], changed : BOOLEAN,
   saw : SUBSET Ids, known : SUBSET Ids]

Types ==
  /\ evaluations \in [Ids -> EvaluationRows \cup {NoRow}]
  /\ runs \in [Ids -> RunRows \cup {NoRow}]
  /\ req \in [Requests -> RequestTypes]
  /\ history \in [Requests -> HistoryTypes]
  /\ failures \in 0..MaxFailures

(* A request with steps left has been asked properly, and has learnt the   *)
(* team of its row if the step that loads it is behind.                    *)
Asked(q) ==
  /\ q.op \in Ops /\ q.surface \in Surfaces /\ q.user \in Users /\ q.answer = NoAnswer
  /\ q.op \in EvaluationOps \cup RunOps => q.target \in Ids
  /\ NamesATeam(q.op, q.surface) => q.team \in NamedTeams
  /\ q.op = "create" => q.name \in Names
  /\ q.op \in EvaluationOps /\ "evaluation" \notin RangeOf(q.todo) => q.owner # "none"
  /\ q.op \in RunOps /\ "run" \notin RangeOf(q.todo) => q.owner # "none"
  /\ NamesATeam(q.op, q.surface) => q.owner \in {"none", q.team}
  /\ q.surface # "hosted" => "entitled" \notin RangeOf(q.todo)

(* What is left of a route is in order, and of the operation.              *)
PathInv ==
  \A r \in Requests :
    /\ Ordered(req[r].todo) /\ RangeOf(req[r].todo) \subseteq StepsOf(req[r].op)
    /\ req[r].todo # <<>> => Asked(req[r])
    /\ req[r] = NoRequest => history[r] = NoHistory

-----------------------------------------------------------------------------
(* What gates answer is an answer.                                         *)
LEMMA AnswersAreErrors ==
  /\ \A f \in ControlPlaneFailures : MapControlPlaneError(f) \in Answers
  /\ \A user, team : RequireEntitled(user, team) \in Answers \cup {Admitted}
  /\ \A user, team : ResolveTeamMembership(user, team) \in Answers \cup {Admitted}
  /\ \A user, team : ResolveManagedInstance(user, team) \in Answers \cup {Admitted}
  /\ {Success(200), Success(201), Success(202), Success(204), Refused(404), Refused(409), ServerError,
      EvaluationNotFound, RunNotFound} \subseteq Answers
  /\ \A status \in {401, 403} : NormalizeUnstructuredAuthError(Refused(status)) \in Answers
  /\ NoAnswer \notin Answers
<1>1. \A f \in ControlPlaneFailures : MapControlPlaneError(f) \in Answers
  BY DEF Answers
<1>2. [kind |-> "status", status |-> 403] \in ControlPlaneFailures
  BY DEF ControlPlaneFailures, UpstreamStatusMap
<1>3. MapControlPlaneError([kind |-> "status", status |-> 403]) = TargetForbidden
  BY DEF MapControlPlaneError, UpstreamStatusMap, TargetForbidden, Answer
<1>4. ApplicationNotGranted \in Answers
  BY DEF Answers
<1>5. \A user, team : RequireEntitled(user, team) \in Answers \cup {Admitted}
  BY <1>1, <1>2, <1>4 DEF RequireEntitled
<1>6. TargetForbidden \in Answers
  BY <1>1, <1>2, <1>3
<1>7. \A user, team : ResolveTeamMembership(user, team) \in Answers \cup {Admitted}
  BY <1>6 DEF ResolveTeamMembership
<1>8. \A user, team : ResolveManagedInstance(user, team) \in Answers \cup {Admitted}
  BY <1>1, <1>2 DEF ResolveManagedInstance
<1>9. {Success(200), Success(201), Success(202), Success(204), Refused(404), Refused(409), ServerError,
      EvaluationNotFound, RunNotFound} \subseteq Answers
  BY DEF Answers, ServerError
<1>10. \A status \in {401, 403} : NormalizeUnstructuredAuthError(Refused(status)) \in Answers
  BY DEF NormalizeUnstructuredAuthError, Refused, Answer, Answers
<1>11. NoAnswer \notin Answers
  <2>1. \A s, c : Answer(s, c).status = s
    BY DEF Answer
  <2>2. \A s \in DOMAIN UpstreamStatusMap : UpstreamStatusMap[s].status # 0
    BY <2>1 DEF UpstreamStatusMap
  <2>3. \A f \in ControlPlaneFailures : MapControlPlaneError(f).status # 0
    BY <2>1, <2>2 DEF MapControlPlaneError, Unavailable, InvalidResponse
  <2>4. \A s \in {200, 201, 202, 204} : Success(s).status # 0
    BY <2>1 DEF Success
  <2>5. \A s \in {404, 409, 500} : Refused(s).status # 0
    BY <2>1 DEF Refused
  <2>6. \A a \in {EvaluationNotFound, RunNotFound, ApplicationNotGranted} : a.status # 0
    BY <2>1 DEF EvaluationNotFound, RunNotFound, ApplicationNotGranted
  <2>7. /\ Answer(401, "authentication_required").status # 0
        /\ Answer(403, "access_forbidden").status # 0
    BY <2>1
  <2>8. \A a \in Answers : a.status # 0
    BY <2>3, <2>4, <2>5, <2>6, <2>7 DEF Answers
  <2>9. QED
    BY <2>1, <2>8 DEF NoAnswer
<1>12. QED
  BY <1>1, <1>5, <1>7, <1>8, <1>9, <1>10, <1>11

(* The rest of an ordered route is ordered.                                *)
LEMMA TailFacts ==
  ASSUME NEW path \in Seq(Steps), path # <<>>, Ordered(path)
  PROVE  /\ Tail(path) \in Seq(Steps) /\ Ordered(Tail(path)) /\ Head(path) \in RangeOf(path)
         /\ RangeOf(path) = {Head(path)} \cup RangeOf(Tail(path))
         /\ RangeOf(Tail(path)) \subseteq Later(Head(path))
<1>1. /\ Tail(path) \in Seq(Steps) /\ Len(path) \in Nat /\ Len(path) > 0
      /\ DOMAIN Tail(path) = 1..(Len(path) - 1) /\ DOMAIN path = 1..Len(path)
      /\ \A i \in DOMAIN Tail(path) : Tail(path)[i] = path[i + 1]
      /\ Head(path) = path[1]
  OBVIOUS
<1>2. Ordered(Tail(path))
  <2>1. ASSUME NEW i \in DOMAIN Tail(path), NEW j \in DOMAIN Tail(path), i < j
        PROVE  Tail(path)[j] \in Later(Tail(path)[i])
    <3>1. i + 1 \in DOMAIN path /\ j + 1 \in DOMAIN path /\ i + 1 < j + 1
      BY <1>1, <2>1
    <3>2. path[j + 1] \in Later(path[i + 1])
      BY <3>1 DEF Ordered
    <3>3. QED  BY <1>1, <3>2
  <2>2. QED  BY <2>1 DEF Ordered
<1>3. \A i \in DOMAIN path : i # 1 => i - 1 \in DOMAIN Tail(path) /\ Tail(path)[i - 1] = path[i]
  BY <1>1
<1>4. RangeOf(path) = {Head(path)} \cup RangeOf(Tail(path))
  <2>1. ASSUME NEW i \in DOMAIN path PROVE path[i] \in {Head(path)} \cup RangeOf(Tail(path))
    BY <1>1, <1>3 DEF RangeOf
  <2>2. ASSUME NEW i \in DOMAIN Tail(path) PROVE Tail(path)[i] \in RangeOf(path)
    <3>1. i + 1 \in DOMAIN path
      BY <1>1
    <3>2. QED  BY <1>1, <3>1 DEF RangeOf
  <2>3. Head(path) \in RangeOf(path)
    BY <1>1 DEF RangeOf
  <2>4. QED
    BY <2>1, <2>2, <2>3 DEF RangeOf
<1>5. RangeOf(Tail(path)) \subseteq Later(Head(path))
  <2>1. ASSUME NEW i \in DOMAIN Tail(path) PROVE Tail(path)[i] \in Later(Head(path))
    <3>1. i + 1 \in DOMAIN path /\ 1 \in DOMAIN path /\ 1 < i + 1
      BY <1>1
    <3>2. path[i + 1] \in Later(path[1])
      BY <3>1 DEF Ordered
    <3>3. QED  BY <1>1, <3>2
  <2>2. QED  BY <2>1 DEF RangeOf
<1>6. QED
  BY <1>1, <1>2, <1>4, <1>5

-----------------------------------------------------------------------------
(* What a step does to the request that takes it.                          *)
Passes(r) ==
  /\ req[r].todo # <<>>
  /\ req' \in [Requests -> RequestTypes]
  /\ \A q \in Requests \ {r} : req'[q] = req[q]
  /\ LET old == req[r]  new == req'[r]
     IN /\ new.todo = Tail(old.todo)
        /\ new.op = old.op /\ new.surface = old.surface /\ new.user = old.user
        /\ new.team = old.team /\ new.target = old.target /\ new.name = old.name
        /\ new.answer = old.answer

Ends(r) ==
  /\ req' \in [Requests -> RequestTypes]
  /\ \A q \in Requests \ {r} : req'[q] = req[q]
  /\ LET old == req[r]  new == req'[r]
     IN /\ new.todo = <<>> /\ new.op = old.op /\ new.user = old.user
        /\ new.target = old.target /\ new.answer \in Answers
        /\ new.owner = "none" /\ new.listed = {}

Keeps(r) ==
  /\ req'[r].owner = req[r].owner /\ req'[r].listed = req[r].listed
  /\ req'[r].version = req[r].version

LEMMA NoRequestFacts ==
  /\ NoRequest \in RequestTypes
  /\ NoRequest.todo = <<>> /\ NoRequest.owner = "none" /\ NoRequest.listed = {}
  /\ NoRequest.answer = NoAnswer /\ NoRequest.op = "none"
<1>1. Undeclared \in VersionTexts
  BY DEF Undeclared, Version, VersionTexts
<1>2. <<>> \in Seq(Steps)
  OBVIOUS
<1>3. NoRequest \in RequestTypes
  BY <1>1, <1>2 DEF NoRequest, RequestTypes
<1>4. /\ NoRequest.todo = <<>> /\ NoRequest.owner = "none" /\ NoRequest.listed = {}
      /\ NoRequest.answer = NoAnswer /\ NoRequest.op = "none"
  BY DEF NoRequest
<1>5. QED  BY <1>3, <1>4

LEMMA ReplyEnds ==
  ASSUME Types, NEW r \in Requests, NEW answer \in Answers, Reply(r, answer)
  PROVE  Ends(r) /\ req'[r].answer = answer
<1> DEFINE new == [NoRequest EXCEPT !.op = req[r].op, !.user = req[r].user,
                                    !.target = req[r].target, !.answer = answer]
<1>1. /\ req[r].op \in Ops \cup {"none", "refused"} /\ req[r].user \in Users \cup {"none"}
      /\ req[r].target \in Ids \cup {"none"}
  BY DEF Types, RequestTypes
<1>2. new \in RequestTypes
  BY <1>1, NoRequestFacts, ZenonT(40) DEF RequestTypes
<1>3. /\ new.todo = <<>> /\ new.op = req[r].op /\ new.user = req[r].user
      /\ new.target = req[r].target /\ new.answer = answer
      /\ new.owner = "none" /\ new.listed = {}
  BY NoRequestFacts DEF RequestTypes
<1>4. req \in [Requests -> RequestTypes] /\ req' = [req EXCEPT ![r] = new]
  BY DEF Types, Reply
<1> HIDE DEF new
<1>5. QED
  BY <1>2, <1>3, <1>4 DEF Ends

LEMMA GoesPasses ==
  ASSUME Types, NEW r \in Requests, req[r].todo # <<>>, Goes(r)
  PROVE  Passes(r) /\ Keeps(r)
<1>2. Tail(req[r].todo) \in Seq(Steps)
  BY DEF Types, RequestTypes
<1>3. QED
  BY <1>2, ZenonT(40) DEF Goes, Types, RequestTypes, Passes, Keeps

LEMMA OpOfStep ==
  \A op : \A step \in StepsOf(op) :
    /\ op \in Ops
    /\ step = "evaluation" => op \in EvaluationOps
    /\ step = "run" => op \in RunOps
    /\ step \in {"version", "insert"} => op = "create"
    /\ step = "list" => op = "list"
    /\ step = "mine" => op = "mine"
    /\ step = "fetch" => op = "choices"
    /\ step = "read_evaluation" => op = "readEvaluation"
    /\ step \in {"list_runs", "cascade"} => op = "deleteEvaluation"
    /\ step \in {"prepare", "insert_run", "insert_cases", "submit"} => op = "start"
    /\ step = "read_run" => op = "readRun"
    /\ step \in {"check_cancel", "cancel"} => op = "cancelRun"
    /\ step \in {"check_delete", "delete"} => op = "deleteRun"
BY DEF StepsOf, Ops, EvaluationOps, RunOps

LEMMA AtStep ==
  ASSUME Types, PathInv, NEW r \in Requests, NEW step, At(r, step)
  PROVE  LET rest == Tail(req[r].todo)
         IN /\ req[r].todo # <<>> /\ Asked(req[r]) /\ step \in StepsOf(req[r].op)
            /\ rest \in Seq(Steps) /\ Ordered(rest) /\ step \in RangeOf(req[r].todo)
            /\ RangeOf(req[r].todo) = {step} \cup RangeOf(rest)
            /\ RangeOf(rest) \subseteq Later(step)
            /\ RangeOf(rest) \subseteq StepsOf(req[r].op)
<1>1. req[r].todo # <<>> /\ Head(req[r].todo) = step
  BY DEF At
<1>2. req[r].todo \in Seq(Steps)
  BY DEF Types, RequestTypes
<1>3. Asked(req[r]) /\ Ordered(req[r].todo) /\ RangeOf(req[r].todo) \subseteq StepsOf(req[r].op)
  BY <1>1 DEF PathInv
<1>4. QED
  BY <1>1, <1>2, <1>3, TailFacts

(* What a gate does with a request.                                        *)
LEMMA GateStep ==
  ASSUME Types, NEW r \in Requests, req[r].todo # <<>>, NEW answer \in Answers \cup {Admitted},
         Gate(r, answer)
  PROVE  \/ Ends(r)
         \/ /\ answer = Admitted /\ Passes(r)
            /\ Keeps(r)
BY ReplyEnds, GoesPasses DEF Gate

LEMMA ControlPlaneStep ==
  ASSUME Types, NEW r \in Requests, req[r].todo # <<>>, NEW answer \in Answers \cup {Admitted},
         AsksControlPlane(r, answer)
  PROVE  /\ \/ Ends(r)
            \/ /\ answer = Admitted /\ Passes(r)
               /\ Keeps(r)
         /\ failures' \in 0..MaxFailures
<1>1. CASE Gate(r, answer) /\ UNCHANGED failures
  BY <1>1, GateStep DEF Types
<1>2. CASE Fails /\ \E f \in ControlPlaneFailures : Reply(r, MapControlPlaneError(f))
  <2>1. Ends(r)
    BY <1>2, ReplyEnds, AnswersAreErrors
  <2>2. failures' \in 0..MaxFailures
    BY <1>2, ApiAssumption DEF Fails, Types
  <2>3. QED  BY <2>1, <2>2
<1>3. QED  BY <1>1, <1>2 DEF AsksControlPlane

LEMMA LoadPasses ==
  ASSUME Types, NEW r \in Requests, req[r].todo # <<>>, NEW team \in NamedTeams,
         req' = [req EXCEPT ![r].todo = Tail(@), ![r].owner = team]
  PROVE  /\ Passes(r) /\ req'[r].owner = team
         /\ req'[r].version = req[r].version /\ req'[r].listed = req[r].listed
<1> DEFINE new == [req[r] EXCEPT !.todo = Tail(@), !.owner = team]
<1>1. req[r] \in RequestTypes /\ req \in [Requests -> RequestTypes]
  BY DEF Types
<1>2. Tail(req[r].todo) \in Seq(Steps)
  BY <1>1 DEF RequestTypes
<1>3. new \in RequestTypes
  BY <1>1, <1>2 DEF RequestTypes
<1>4. /\ new.todo = Tail(req[r].todo) /\ new.owner = team
      /\ \A field \in {"op", "surface", "user", "team", "target", "name", "version", "owner",
                       "listed", "answer"} : field # "owner" => new[field] = req[r][field]
  BY <1>1 DEF RequestTypes
<1>5. req' = [req EXCEPT ![r] = new]
  BY <1>1 DEF RequestTypes
<1> HIDE DEF new
<1>6. QED
  BY <1>1, <1>3, <1>4, <1>5 DEF Passes

LEMMA VersionPasses ==
  ASSUME Types, NEW r \in Requests, req[r].todo # <<>>, NEW version \in VersionTexts,
         req' = [req EXCEPT ![r].todo = Tail(@), ![r].version = version]
  PROVE  /\ Passes(r) /\ req'[r].version = version
         /\ req'[r].owner = req[r].owner /\ req'[r].listed = req[r].listed
<1> DEFINE new == [req[r] EXCEPT !.todo = Tail(@), !.version = version]
<1>1. req[r] \in RequestTypes /\ req \in [Requests -> RequestTypes]
  BY DEF Types
<1>2. Tail(req[r].todo) \in Seq(Steps)
  BY <1>1 DEF RequestTypes
<1>3. new \in RequestTypes
  BY <1>1, <1>2 DEF RequestTypes
<1>4. /\ new.todo = Tail(req[r].todo) /\ new.version = version
      /\ \A field \in {"op", "surface", "user", "team", "target", "name", "version", "owner",
                       "listed", "answer"} : field # "version" => new[field] = req[r][field]
  BY <1>1 DEF RequestTypes
<1>5. req' = [req EXCEPT ![r] = new]
  BY <1>1 DEF RequestTypes
<1> HIDE DEF new
<1>6. QED
  BY <1>1, <1>3, <1>4, <1>5 DEF Passes

LEMMA ListPasses ==
  ASSUME Types, NEW r \in Requests, req[r].todo # <<>>, NEW found \in SUBSET Ids,
         req' = [req EXCEPT ![r].todo = Tail(@), ![r].listed = found]
  PROVE  /\ Passes(r) /\ req'[r].owner = req[r].owner
         /\ req'[r].version = req[r].version /\ req'[r].listed = found
<1> DEFINE new == [req[r] EXCEPT !.todo = Tail(@), !.listed = found]
<1>1. req[r] \in RequestTypes /\ req \in [Requests -> RequestTypes]
  BY DEF Types
<1>2. Tail(req[r].todo) \in Seq(Steps)
  BY <1>1 DEF RequestTypes
<1>3. new \in RequestTypes
  BY <1>1, <1>2 DEF RequestTypes
<1>4. /\ new.todo = Tail(req[r].todo) /\ new.listed = found
      /\ \A field \in {"op", "surface", "user", "team", "target", "name", "version", "owner",
                       "listed", "answer"} : field # "listed" => new[field] = req[r][field]
  BY <1>1 DEF RequestTypes
<1>5. req' = [req EXCEPT ![r] = new]
  BY <1>1 DEF RequestTypes
<1> HIDE DEF new
<1>6. QED
  BY <1>1, <1>3, <1>4, <1>5 DEF Passes

-----------------------------------------------------------------------------
(* Types.                                                                  *)
LEMMA RowTypes ==
  ASSUME Types
  PROVE  /\ \A e \in Ids : e \in EvaluationIds <=> evaluations[e] # NoRow
         /\ \A x \in Ids : x \in RunIds <=> runs[x] # NoRow
         /\ EvaluationIds \subseteq Ids /\ RunIds \subseteq Ids
         /\ \A e \in EvaluationIds : evaluations[e] \in EvaluationRows
         /\ \A x \in RunIds : runs[x] \in RunRows
BY SeedAssumption DEF Types, EvaluationIds, RunIds

LEMMA RowsTyped ==
  /\ \A row \in EvaluationRows : row.team \in NamedTeams /\ row.by \in Users
  /\ \A row \in RunRows : row.team \in NamedTeams /\ row.by \in Users /\ row.evaluation \in Ids
BY DEF EvaluationRows, RunRows

(* What a step writes into the history.                                    *)
Records(r, rows, changed) ==
  /\ history' \in [Requests -> HistoryTypes]
  /\ \A q \in Requests \ {r} : history'[q] = history[q]
  /\ history'[r].touched = history[r].touched \cup {[team |-> x.team, by |-> x.by] : x \in rows}
  /\ history'[r].changed = changed
  /\ history'[r].saw = history[r].saw /\ history'[r].known = history[r].known

LEMMA HistoryEffect ==
  ASSUME Types, NEW r \in Requests, NEW rows,
         \A x \in rows : x.team \in NamedTeams /\ x.by \in Users
  PROVE  /\ Reaches(r, rows) => Records(r, rows, history[r].changed)
         /\ Changes(r, rows) => Records(r, rows, TRUE)
<1> DEFINE seen == {[team |-> x.team, by |-> x.by] : x \in rows}
           reached == [history[r] EXCEPT !.touched = @ \cup seen]
           changed == [history[r] EXCEPT !.changed = TRUE, !.touched = @ \cup seen]
<1>1. seen \subseteq [team : NamedTeams, by : Users]
  OBVIOUS
<1>2. history[r] \in HistoryTypes /\ history \in [Requests -> HistoryTypes]
  BY DEF Types
<1>3. /\ Reaches(r, rows) => history' = [history EXCEPT ![r] = reached]
      /\ Changes(r, rows) => history' = [history EXCEPT ![r] = changed]
  <2> HIDE DEF seen
  <2>1. /\ Reaches(r, rows) => history' = [history EXCEPT ![r].touched = @ \cup seen]
        /\ Changes(r, rows) => history' = [history EXCEPT ![r].changed = TRUE, ![r].touched = @ \cup seen]
    BY DEF Reaches, Changes, seen
  <2>2. QED
    BY <1>2, <2>1 DEF HistoryTypes
<1> HIDE DEF seen
<1>4. /\ reached \in HistoryTypes /\ reached.touched = history[r].touched \cup seen
      /\ reached.changed = history[r].changed
      /\ reached.saw = history[r].saw /\ reached.known = history[r].known
  BY <1>1, <1>2 DEF HistoryTypes
<1>5. /\ changed \in HistoryTypes /\ changed.touched = history[r].touched \cup seen
      /\ changed.changed = TRUE
      /\ changed.saw = history[r].saw /\ changed.known = history[r].known
  BY <1>1, <1>2 DEF HistoryTypes
<1>6. seen = {[team |-> x.team, by |-> x.by] : x \in rows}
  BY DEF seen
<1> HIDE DEF reached, changed
<1>7. QED
  BY <1>2, <1>3, <1>4, <1>5, <1>6 DEF Records

(* Two facts on numbers for the version of a name: a set of naturals has a *)
(* least one, a function on a finite set a bound.                          *)
LEMMA LeastOf ==
  ASSUME NEW T, T \subseteq Nat, T # {}
  PROVE  \E x \in T : \A y \in T : x <= y
<1> DEFINE R == OpToRel(<, Nat)
<1>1. \E x \in T : \A y \in T : <<y, x>> \notin R
  BY NatLessThanWellFounded, WFMin
<1>2. \A x, y \in Nat : <<y, x>> \in R <=> y < x
  BY DEF OpToRel
<1>3. \A x, y \in T : <<y, x>> \notin R => x <= y
  <2>1. \A x, y \in Nat : ~(y < x) => x <= y
    OBVIOUS
  <2> HIDE DEF R
  <2>2. QED BY <1>2, <2>1, Zenon
<1> HIDE DEF R
<1>4. QED BY <1>1, <1>3, Zenon

LEMMA FiniteBound ==
  ASSUME NEW S, IsFiniteSet(S), NEW g \in [S -> Nat]
  PROVE  \E b \in Nat : \A s \in S : g[s] <= b
<1>1. PICK n \in Nat : \E f \in [1..n -> S] : \A s \in S : \E i \in 1..n : f[i] = s
  BY FS_NatBijection DEF ExistsBijection, Bijection, Surjection, Injection
<1>5. PICK f \in [1..n -> S] : \A s \in S : \E i \in 1..n : f[i] = s
  BY <1>1
<1> DEFINE T == {k \in 0..n : ~\E b \in Nat : \A i \in 1..k : g[f[i]] <= b}
<1>2. CASE T = {}
  <2>1. n \in 0..n
    OBVIOUS
  <2>2. \E b \in Nat : \A i \in 1..n : g[f[i]] <= b
    BY <1>2, <2>1
  <2>3. QED BY <1>5, <2>2
<1>3. CASE T # {}
  <2>0. T \subseteq Nat
    OBVIOUS
  <2> HIDE DEF T
  <2>1. PICK k \in T : \A j \in T : k <= j
    BY <1>3, <2>0, LeastOf
  <2> USE DEF T
  <2>2. k \in 1..n
    <3>1. \A i \in 1..0 : g[f[i]] <= 0
      OBVIOUS
    <3>2. QED BY <3>1
  <2>3. k - 1 \in 0..n /\ k - 1 \notin T
    <3>1. k - 1 \in 0..n /\ ~(k <= k - 1)
      BY <2>2
    <3> HIDE DEF T
    <3>2. QED BY <2>1, <3>1
  <2>4. PICK b \in Nat : \A i \in 1..(k-1) : g[f[i]] <= b
    BY <2>3
  <2>5. g[f[k]] \in Nat
    BY <2>2
  <2>6. \A i \in 1..k : i \in 1..(k-1) \/ i = k
    BY <2>2
  <2>7. \A i \in 1..(k-1) : g[f[i]] \in Nat
    <3>1. 1..(k-1) \subseteq 1..n
      BY <2>2
    <3>2. QED BY <3>1
  <2>8. CASE g[f[k]] <= b
    BY <2>4, <2>6, <2>8
  <2>9. CASE b < g[f[k]]
    <3>1. \A i \in 1..k : g[f[i]] <= g[f[k]]
      BY <2>4, <2>5, <2>6, <2>7, <2>9
    <3>2. QED BY <2>5, <3>1
  <2>10. QED BY <2>5, <2>8, <2>9
<1>4. QED BY <1>2, <1>3
LEMMA MaxOfBounded == 
  ASSUME NEW S, S \subseteq Nat, S # {}, NEW bound \in Nat, \A s \in S : s <= bound
  PROVE  Max(S) \in S /\ \A y \in S : y <= Max(S)
<1> DEFINE U == {b \in Nat : \A s \in S : s <= b}
<1>1. U # {} /\ U \subseteq Nat
  OBVIOUS
<1>2. PICK u \in U : \A v \in U : u <= v
  BY <1>1, LeastOf
<1>3. u \in S
  <2>1. SUFFICES ASSUME u \notin S PROVE FALSE
    OBVIOUS
  <2>2. \A s \in S : s < u
    BY <2>1
  <2>3. u \in Nat /\ u # 0
    <3>1. PICK s \in S : s < u
      BY <2>2
    <3>2. QED BY <3>1
  <2>4. u - 1 \in U /\ ~(u <= u - 1)
    BY <2>2, <2>3
  <2> HIDE DEF U
  <2>5. QED BY <1>2, <2>4
<1>4. \E x \in S : \A y \in S : x >= y
  BY <1>3
<1>5. QED BY <1>4 DEF Max

(* The latest version of a name is at least that of every row of it.       *)
LEMMA LatestVersion ==
  ASSUME Types, NEW team, NEW name
  PROVE  LET latest == GetLatestVersionNumber(team, name)
         IN /\ latest \in Nat
            /\ \A e \in EvaluationIds :
                 evaluations[e].team = team /\ evaluations[e].name = name
                 => \A n \in NumberOf(evaluations[e].version) : n <= latest
<1> DEFINE numbers == {0} \cup UNION {NumberOf(v) : v \in Versions(team, name)}
           number  == [e \in EvaluationIds |-> evaluations[e].version.number]
<1>1. \A e \in EvaluationIds : evaluations[e].version \in VersionTexts /\ e \in Ids
  BY RowTypes DEF EvaluationRows
<1>2. \A v \in VersionTexts : v.number \in Nat /\ NumberOf(v) \subseteq {v.number}
  BY DEF VersionTexts, NumberOf
<1>3. IsFiniteSet(EvaluationIds)
  BY ApiAssumption, FS_Subset, RowTypes
<1>4. number \in [EvaluationIds -> Nat]
  BY <1>1, <1>2
<1> HIDE DEF number
<1>5. PICK bound \in Nat : \A e \in EvaluationIds : number[e] <= bound
  BY <1>3, <1>4, FiniteBound
<1>6. \A e \in EvaluationIds : number[e] = evaluations[e].version.number
  BY DEF number
<1>7. \A n \in numbers : n = 0 \/ \E e \in EvaluationIds : n = number[e]
  BY <1>1, <1>2, <1>6 DEF Versions
<1>8. numbers \subseteq Nat /\ \A n \in numbers : n <= bound
  <2> HIDE DEF numbers
  <2>1. \A e \in EvaluationIds : number[e] \in Nat /\ number[e] <= bound
    BY <1>4, <1>5
  <2>2. QED
    BY <1>7, <2>1
<1>9. numbers # {}
  OBVIOUS
<1>10. \A e \in EvaluationIds :
         evaluations[e].team = team /\ evaluations[e].name = name
         => NumberOf(evaluations[e].version) \subseteq numbers
  BY DEF Versions
<1> HIDE DEF numbers
<1>11. Max(numbers) \in numbers /\ \A n \in numbers : n <= Max(numbers)
  BY <1>8, <1>9, MaxOfBounded
<1>12. GetLatestVersionNumber(team, name) = Max(numbers)
  BY DEF GetLatestVersionNumber, numbers
<1>13. Max(numbers) \in Nat
  BY <1>8, <1>11
<1>14. \A e \in EvaluationIds :
         evaluations[e].team = team /\ evaluations[e].name = name
         => \A n \in NumberOf(evaluations[e].version) : n <= Max(numbers)
  BY <1>10, <1>11, Zenon
<1>15. QED
  BY <1>12, <1>13, <1>14, Zenon

-----------------------------------------------------------------------------
(* What each action does, in terms of Passes and Ends.                     *)
LEMMA EntitledEffect ==
  ASSUME Types, PathInv, NEW r \in Requests, IsEntitled(r)
  PROVE  /\ At(r, "entitled") /\ UNCHANGED <<Rows, history>> /\ failures' \in 0..MaxFailures
         /\ Ends(r) \/ (Passes(r) /\ Keeps(r) /\ IsMember(req[r].user, req[r].team))
<1> DEFINE answer == RequireEntitled(req[r].user, req[r].team)
<1>1. At(r, "entitled") /\ UNCHANGED <<Rows, history>> /\ req[r].todo # <<>>
  BY DEF IsEntitled, At
<1>2. answer \in Answers \cup {Admitted} /\ ApplicationNotGranted \in Answers
  BY AnswersAreErrors DEF Answers
<1>3. ~(403 = 0)
  OBVIOUS
<1>4. ApplicationNotGranted # Admitted /\ TargetForbidden # Admitted
  BY DEF ApplicationNotGranted, TargetForbidden, Admitted, Answer
<1>5. MapControlPlaneError([kind |-> "status", status |-> 403]) = TargetForbidden
  BY DEF MapControlPlaneError, UpstreamStatusMap, TargetForbidden, Answer
<1>6. answer = Admitted => IsMember(req[r].user, req[r].team)
  BY <1>4, <1>5 DEF RequireEntitled
<1>7. req[r].team = Personal => answer \in Answers
  BY <1>2 DEF RequireEntitled
<1>8. CASE req[r].team = Personal
  BY <1>1, <1>7, <1>8, ReplyEnds DEF IsEntitled, Types
<1>9. CASE req[r].team # Personal
  <2>1. AsksControlPlane(r, answer)
    BY <1>9 DEF IsEntitled
  <2> HIDE DEF answer
  <2>2. QED
    BY <1>1, <1>2, <1>6, <2>1, ControlPlaneStep DEF Keeps
<1>10. QED  BY <1>8, <1>9

LEMMA MemberEffect ==
  ASSUME Types, PathInv, NEW r \in Requests, IsMemberOfTeam(r)
  PROVE  /\ At(r, "member") /\ UNCHANGED <<Rows, history>> /\ failures' \in 0..MaxFailures
         /\ Ends(r) \/ (Passes(r) /\ Keeps(r) /\ IsMember(req[r].user, TeamOfRequest(r)))
<1> DEFINE answer == ResolveTeamMembership(req[r].user, TeamOfRequest(r))
<1>1. At(r, "member") /\ UNCHANGED <<Rows, history>> /\ req[r].todo # <<>>
  BY DEF IsMemberOfTeam, At
<1>2. answer \in Answers \cup {Admitted}
  BY AnswersAreErrors
<1>3. TargetForbidden # Admitted
  BY DEF TargetForbidden, Admitted, Answer
<1>4. answer = Admitted => IsMember(req[r].user, TeamOfRequest(r))
  BY <1>3 DEF ResolveTeamMembership
<1>5. AsksControlPlane(r, answer)
  BY DEF IsMemberOfTeam
<1> HIDE DEF answer
<1>6. QED
  BY <1>1, <1>2, <1>4, <1>5, ControlPlaneStep DEF Keeps

LEMMA LoadEvaluationEffect ==
  ASSUME Types, PathInv, NEW r \in Requests, LoadEvaluation(r)
  PROVE  /\ At(r, "evaluation") /\ UNCHANGED <<Rows, history, failures>>
         /\ \/ Ends(r)
            \/ /\ Passes(r) /\ req'[r].listed = req[r].listed
               /\ req[r].target \in EvaluationIds
               /\ req'[r].owner = evaluations[req[r].target].team /\ req'[r].owner # "none"
               /\ NamesATeam(req[r].op, req[r].surface) => req'[r].owner = req[r].team
<1> DEFINE e == req[r].target
<1>1. At(r, "evaluation") /\ UNCHANGED <<Rows, history, failures>> /\ req[r].todo # <<>>
  BY DEF LoadEvaluation, At
<1>2. e \in Ids
  BY <1>1, AtStep, OpOfStep DEF Asked
<1>3. CASE Visible(r, evaluations[e])
  <2>1. /\ e \in EvaluationIds
        /\ NamesATeam(req[r].op, req[r].surface) => evaluations[e].team = req[r].team
    BY <1>2, <1>3 DEF Visible, EvaluationIds
  <2>2. evaluations[e].team \in NamedTeams /\ evaluations[e].team # "none"
    BY <2>1, RowTypes, RowsTyped, ApiAssumption
  <2>3. req' = [req EXCEPT ![r].todo = Tail(@), ![r].owner = evaluations[e].team]
    BY <1>3 DEF LoadEvaluation
  <2>4. QED
    BY <1>1, <2>1, <2>2, <2>3, LoadPasses
<1>4. CASE ~Visible(r, evaluations[e])
  <2>1. \E answer \in {Refused(404), EvaluationNotFound} : Reply(r, answer)
    BY <1>4 DEF LoadEvaluation
  <2>2. QED
    BY <1>1, <2>1, ReplyEnds, AnswersAreErrors
<1>5. QED  BY <1>3, <1>4

LEMMA LoadRunEffect ==
  ASSUME Types, PathInv, NEW r \in Requests, LoadRun(r)
  PROVE  /\ At(r, "run") /\ UNCHANGED <<Rows, history, failures>>
         /\ \/ Ends(r)
            \/ /\ Passes(r) /\ req'[r].listed = req[r].listed
               /\ req[r].target \in RunIds
               /\ req'[r].owner = runs[req[r].target].team /\ req'[r].owner # "none"
               /\ NamesATeam(req[r].op, req[r].surface) => req'[r].owner = req[r].team
<1> DEFINE x == req[r].target
<1>1. At(r, "run") /\ UNCHANGED <<Rows, history, failures>> /\ req[r].todo # <<>>
  BY DEF LoadRun, At
<1>2. x \in Ids
  BY <1>1, AtStep, OpOfStep DEF Asked
<1>3. CASE Visible(r, runs[x])
  <2>1. /\ x \in RunIds
        /\ NamesATeam(req[r].op, req[r].surface) => runs[x].team = req[r].team
    BY <1>2, <1>3 DEF Visible, RunIds
  <2>2. runs[x].team \in NamedTeams /\ runs[x].team # "none"
    BY <2>1, RowTypes, RowsTyped, ApiAssumption
  <2>3. req' = [req EXCEPT ![r].todo = Tail(@), ![r].owner = runs[x].team]
    BY <1>3 DEF LoadRun
  <2>4. QED
    BY <1>1, <2>1, <2>2, <2>3, LoadPasses
<1>4. CASE ~Visible(r, runs[x])
  <2>1. \E answer \in {Refused(404), RunNotFound} : Reply(r, answer)
    BY <1>4 DEF LoadRun
  <2>2. QED
    BY <1>1, <2>1, ReplyEnds, AnswersAreErrors
<1>5. QED  BY <1>3, <1>4

LEMMA ResolveVersionEffect ==
  ASSUME Types, PathInv, NEW r \in Requests, ResolveVersion(r)
  PROVE  /\ At(r, "version") /\ UNCHANGED <<Rows, failures>>
         /\ history' = [history EXCEPT ![r].saw = EvaluationIds]
         /\ \/ Ends(r)
            \/ /\ Passes(r)
               /\ req'[r].owner = req[r].owner /\ req'[r].listed = req[r].listed
               /\ ~VersionExists(req[r].team, req[r].name, req'[r].version)
<1> DEFINE version == Version("v", GetLatestVersionNumber(req[r].team, req[r].name) + 1)
           exists  == VersionExists(req[r].team, req[r].name, req[r].version)
<1>1. /\ At(r, "version") /\ UNCHANGED <<Rows, failures>> /\ req[r].todo # <<>>
      /\ history' = [history EXCEPT ![r].saw = EvaluationIds]
  BY DEF ResolveVersion, At
<1>2. version \in VersionTexts
  BY LatestVersion DEF Version, VersionTexts
<1>5. ~VersionExists(req[r].team, req[r].name, version)
  <2>1. SUFFICES ASSUME NEW e \in EvaluationIds, evaluations[e].team = req[r].team,
                        evaluations[e].name = req[r].name, evaluations[e].version = version
                 PROVE  FALSE
    BY DEF VersionExists, Versions
  <2> DEFINE latest == GetLatestVersionNumber(req[r].team, req[r].name)
  <2>2. latest \in Nat /\ \A n \in NumberOf(evaluations[e].version) : n <= latest
    BY <2>1, LatestVersion
  <2> HIDE DEF latest
  <2>3. NumberOf(version) = {latest + 1}
    BY DEF NumberOf, Version, latest
  <2> HIDE DEF version
  <2>4. QED
    BY <2>1, <2>2, <2>3
<1>3. CASE req[r].version = Undeclared
  <2>1. req' = [req EXCEPT ![r].todo = Tail(@), ![r].version = version]
    BY <1>3 DEF ResolveVersion
  <2> HIDE DEF version
  <2>2. QED
    BY <1>1, <1>2, <1>5, <2>1, VersionPasses
<1>4. CASE req[r].version # Undeclared
  <2>1. Gate(r, IF exists THEN Refused(409) ELSE Admitted)
    BY <1>4 DEF ResolveVersion
  <2>2. Refused(409) \in Answers
    BY AnswersAreErrors
  <2>3. Refused(409) # Admitted
    BY DEF Refused, Admitted, Answer
  <2> HIDE DEF exists
  <2>4. Ends(r) \/ (~exists /\ Passes(r) /\ Keeps(r))
    BY <1>1, <2>1, <2>2, <2>3, GateStep
  <2>5. QED
    BY <1>1, <2>4 DEF Keeps, exists
<1>6. QED  BY <1>3, <1>4

LEMMA InsertEvaluationEffect ==
  ASSUME Types, PathInv, NEW r \in Requests, InsertEvaluation(r)
  PROVE  LET row == [team |-> req[r].team, name |-> req[r].name,
                     version |-> req[r].version, by |-> req[r].user]
         IN /\ At(r, "insert") /\ UNCHANGED <<runs, failures>> /\ Ends(r)
            /\ req'[r].answer = Success(201)
            /\ evaluations' = [evaluations EXCEPT ![r] = row] /\ row \in EvaluationRows
            /\ Records(r, {row}, TRUE)
<1> DEFINE row == [team |-> req[r].team, name |-> req[r].name,
                   version |-> req[r].version, by |-> req[r].user]
<1>1. /\ At(r, "insert") /\ UNCHANGED <<runs, failures>> /\ Reply(r, Success(201))
      /\ evaluations' = [evaluations EXCEPT ![r] = row] /\ Changes(r, {row})
  BY DEF InsertEvaluation, CreateEvaluation
<1>2. Asked(req[r]) /\ req[r].op = "create"
  BY <1>1, AtStep, OpOfStep
<1>3. /\ req[r].team \in NamedTeams /\ req[r].name \in Names /\ req[r].user \in Users
      /\ req[r].version \in VersionTexts
  BY <1>2 DEF Asked, NamesATeam, TeamOps, Types, RequestTypes
<1>4. row \in EvaluationRows
  BY <1>3 DEF EvaluationRows
<1>5. Ends(r) /\ req'[r].answer = Success(201)
  BY <1>1, ReplyEnds, AnswersAreErrors
<1> HIDE DEF row
<1>6. Records(r, {row}, TRUE)
  BY <1>1, <1>4, RowsTyped, HistoryEffect
<1>7. QED
  BY <1>1, <1>4, <1>5, <1>6 DEF row

LEMMA ListTeamEffect ==
  ASSUME Types, PathInv, NEW r \in Requests, ListTeam(r)
  PROVE  /\ At(r, "list") /\ UNCHANGED <<Rows, failures>> /\ Ends(r)
         /\ \E rows : /\ Records(r, rows, history[r].changed)
                      /\ \A row \in rows : row.team = req[r].team
<1> DEFINE rows == IF req[r].surface = "tasks"
                   THEN {runs[x] : x \in RunsOfTeam(req[r].team)}
                   ELSE {evaluations[e] : e \in EvaluationsOfTeam(req[r].team)}
<1>1. /\ At(r, "list") /\ UNCHANGED <<Rows, failures>> /\ Reply(r, Success(200))
      /\ Reaches(r, rows)
  BY DEF ListTeam
<1>2. \A row \in rows : row \in EvaluationRows \cup RunRows /\ row.team = req[r].team
  BY RowTypes DEF RunsOfTeam, EvaluationsOfTeam
<1> HIDE DEF rows
<1>3. Records(r, rows, history[r].changed)
  BY <1>1, <1>2, RowsTyped, HistoryEffect
<1>4. QED
  BY <1>1, <1>2, <1>3, ReplyEnds, AnswersAreErrors

LEMMA ListMineEffect ==
  ASSUME Types, PathInv, NEW r \in Requests, ListMine(r)
  PROVE  /\ At(r, "mine") /\ UNCHANGED <<Rows, failures>> /\ Ends(r)
         /\ \E rows : /\ Records(r, rows, history[r].changed)
                      /\ \A row \in rows : row.by = req[r].user
<1> DEFINE rows == {runs[x] : x \in RunsOfCreator(req[r].user)}
<1>1. /\ At(r, "mine") /\ UNCHANGED <<Rows, failures>> /\ Reply(r, Success(200))
      /\ Reaches(r, rows)
  BY DEF ListMine
<1>2. \A row \in rows : row \in RunRows /\ row.by = req[r].user
  BY RowTypes DEF RunsOfCreator
<1> HIDE DEF rows
<1>3. Records(r, rows, history[r].changed)
  BY <1>1, <1>2, RowsTyped, HistoryEffect
<1>4. QED
  BY <1>1, <1>2, <1>3, ReplyEnds, AnswersAreErrors

LEMMA ReadEvaluationEffect ==
  ASSUME Types, PathInv, NEW r \in Requests, ReadEvaluation(r)
  PROVE  /\ At(r, "read_evaluation") /\ UNCHANGED <<Rows, failures>> /\ Ends(r)
         /\ \/ UNCHANGED history
            \/ /\ req[r].target \in EvaluationIds
               /\ Records(r, {evaluations[req[r].target]}, history[r].changed)
            \/ Records(r, {runs[x] : x \in RunsOfEvaluation(req[r].target)}, history[r].changed)
<1> DEFINE e == req[r].target
           rows == {runs[x] : x \in RunsOfEvaluation(e)}
<1>1. At(r, "read_evaluation") /\ UNCHANGED <<Rows, failures>>
  BY DEF ReadEvaluation
<1>2. Success(200) \in Answers /\ EvaluationNotFound \in Answers
  BY AnswersAreErrors
<1>3. CASE e \in EvaluationIds /\ Reaches(r, {evaluations[e]}) /\ Reply(r, Success(200))
  <2>1. evaluations[e] \in EvaluationRows
    BY <1>3, RowTypes
  <2>2. Records(r, {evaluations[e]}, history[r].changed)
    BY <1>3, <2>1, RowsTyped, HistoryEffect
  <2>3. QED
    BY <1>1, <1>2, <1>3, <2>2, ReplyEnds
<1>4. CASE Reply(r, EvaluationNotFound) /\ UNCHANGED history
  BY <1>1, <1>2, <1>4, ReplyEnds
<1>5. CASE Reaches(r, rows) /\ Reply(r, Success(200))
  <2>1. \A row \in rows : row \in RunRows
    BY RowTypes DEF RunsOfEvaluation
  <2> HIDE DEF rows
  <2>2. Records(r, rows, history[r].changed)
    BY <1>5, <2>1, RowsTyped, HistoryEffect
  <2>3. QED
    BY <1>1, <1>2, <1>5, <2>2, ReplyEnds DEF rows
<1>6. QED  BY <1>3, <1>4, <1>5 DEF ReadEvaluation

LEMMA ReadRunEffect ==
  ASSUME Types, PathInv, NEW r \in Requests, ReadRun(r)
  PROVE  /\ At(r, "read_run") /\ UNCHANGED <<Rows, failures>> /\ Ends(r)
         /\ \/ UNCHANGED history
            \/ /\ req[r].target \in RunIds
               /\ Records(r, {runs[req[r].target]}, history[r].changed)
<1> DEFINE x == req[r].target
<1>1. At(r, "read_run") /\ UNCHANGED <<Rows, failures>>
  BY DEF ReadRun
<1>2. {Success(200), Refused(404)} \subseteq Answers
  BY AnswersAreErrors
<1>3. CASE x \in RunIds
  <2>1. runs[x] \in RunRows
    BY <1>3, RowTypes
  <2>2. Reaches(r, {runs[x]}) /\ Reply(r, Success(200))
    BY <1>3 DEF ReadRun
  <2>3. Records(r, {runs[x]}, history[r].changed)
    BY <2>1, <2>2, RowsTyped, HistoryEffect
  <2>4. QED
    BY <1>1, <1>2, <1>3, <2>2, <2>3, ReplyEnds
<1>4. CASE x \notin RunIds
  <2>1. UNCHANGED history /\ \E answer \in {Refused(404), Success(200)} : Reply(r, answer)
    BY <1>4 DEF ReadRun
  <2>2. QED
    BY <1>1, <1>2, <2>1, ReplyEnds
<1>5. QED  BY <1>3, <1>4

LEMMA ListRunsEffect ==
  ASSUME Types, PathInv, NEW r \in Requests, ListRunsToDelete(r)
  PROVE  LET found == RunsOfEvaluation(req[r].target)
         IN /\ At(r, "list_runs") /\ UNCHANGED <<Rows, failures>>
            /\ history' = [history EXCEPT ![r].known = found]
            /\ \/ Ends(r)
               \/ Passes(r) /\ req'[r].owner = req[r].owner /\ req'[r].listed = found
<1> DEFINE found   == RunsOfEvaluation(req[r].target)
           running == \E x \in found : runs[x].state = "running"
<1>1. /\ At(r, "list_runs") /\ UNCHANGED <<Rows, failures>> /\ req[r].todo # <<>>
      /\ history' = [history EXCEPT ![r].known = found]
  BY DEF ListRunsToDelete, At
<1>2. found \in SUBSET Ids
  BY RowTypes DEF RunsOfEvaluation
<1>3. CASE running
  BY <1>1, <1>3, ReplyEnds, AnswersAreErrors DEF ListRunsToDelete
<1>4. CASE ~running
  <2>1. req' = [req EXCEPT ![r].todo = Tail(@), ![r].listed = found]
    BY <1>4 DEF ListRunsToDelete
  <2> HIDE DEF found
  <2>2. QED
    BY <1>1, <1>2, <2>1, ListPasses DEF found
<1>5. QED  BY <1>3, <1>4

(* A run is deleted, and the request with it or not.                       *)
Erased(r, x) ==
  /\ runs' = [runs EXCEPT ![x] = NoRow]
  /\ IF x \in RunIds THEN Records(r, {runs[x]}, TRUE) ELSE UNCHANGED history

LEMMA EraseEffect ==
  ASSUME Types, NEW r \in Requests, NEW x, DeleteRun(x),
         IF x \in RunIds THEN Changes(r, {runs[x]}) ELSE UNCHANGED history
  PROVE  Erased(r, x)
<1>1. CASE x \in RunIds
  <2>1. runs[x] \in RunRows
    BY <1>1, RowTypes
  <2>2. Records(r, {runs[x]}, TRUE)
    BY <1>1, <2>1, RowsTyped, HistoryEffect
  <2>3. QED
    BY <1>1, <2>2 DEF Erased, DeleteRun
<1>2. CASE x \notin RunIds
  BY <1>2 DEF Erased, DeleteRun
<1>3. QED  BY <1>1, <1>2

LEMMA DeleteListedEffect ==
  ASSUME Types, PathInv, NEW r \in Requests, DeleteListedRun(r)
  PROVE  \E x \in req[r].listed :
           /\ At(r, "cascade") /\ UNCHANGED <<evaluations, failures>>
           /\ Erased(r, x)
           /\ req' \in [Requests -> RequestTypes]
           /\ req' = [req EXCEPT ![r].listed = @ \ {x}]
<1>1. PICK x \in req[r].listed :
        /\ DeleteRun(x)
        /\ IF x \in RunIds THEN Changes(r, {runs[x]}) ELSE UNCHANGED history
        /\ req' = [req EXCEPT ![r].listed = @ \ {x}]
  BY DEF DeleteListedRun
<1>2. Erased(r, x)
  BY <1>1, EraseEffect
<1>3. req' \in [Requests -> RequestTypes]
  <2> DEFINE rest == req[r].listed \ {x}
  <2>1. req \in [Requests -> RequestTypes] /\ req[r] \in RequestTypes
    BY DEF Types
  <2>2. rest \in SUBSET Ids
    BY <2>1 DEF RequestTypes
  <2>3. req' = [req EXCEPT ![r].listed = rest]
    BY <1>1, <2>1
  <2> HIDE DEF rest
  <2>4. [req[r] EXCEPT !.listed = rest] \in RequestTypes
    BY <2>1, <2>2 DEF RequestTypes
  <2>5. QED
    BY <2>1, <2>3, <2>4
<1>4. QED
  BY <1>1, <1>2, <1>3 DEF DeleteListedRun

LEMMA DeleteRowEffect ==
  ASSUME Types, PathInv, NEW r \in Requests, DeleteEvaluationRow(r)
  PROVE  LET e == req[r].target
         IN /\ At(r, "cascade") /\ UNCHANGED <<runs, failures>> /\ Ends(r)
            /\ req[r].listed = {}
            /\ \/ /\ RunsOfEvaluation(e) = {} /\ evaluations' = [evaluations EXCEPT ![e] = NoRow]
                  /\ IF e \in EvaluationIds THEN Records(r, {evaluations[e]}, TRUE)
                     ELSE UNCHANGED history
                  /\ req'[r].answer = Success(204)
               \/ /\ RunsOfEvaluation(e) # {} /\ UNCHANGED <<evaluations, history>>
                  /\ req'[r].answer = ServerError
<1> DEFINE e == req[r].target
<1>1. At(r, "cascade") /\ UNCHANGED <<runs, failures>> /\ req[r].listed = {}
  BY DEF DeleteEvaluationRow
<1>2. Success(204) \in Answers /\ ServerError \in Answers
  BY AnswersAreErrors
<1>3. CASE RunsOfEvaluation(e) = {}
  <2>1. /\ evaluations' = [evaluations EXCEPT ![e] = NoRow] /\ Reply(r, Success(204))
        /\ IF e \in EvaluationIds THEN Changes(r, {evaluations[e]}) ELSE UNCHANGED history
    BY <1>3 DEF DeleteEvaluationRow, EvaluationCanBeDeleted, DeleteEvaluation
  <2>2. e \in EvaluationIds => Records(r, {evaluations[e]}, TRUE)
    <3>1. e \in EvaluationIds => evaluations[e] \in EvaluationRows
      BY RowTypes
    <3>2. QED  BY <2>1, <3>1, RowsTyped, HistoryEffect
  <2>3. Ends(r) /\ req'[r].answer = Success(204)
    BY <1>2, <2>1, ReplyEnds
  <2>4. QED
    BY <1>1, <1>3, <2>1, <2>2, <2>3
<1>4. CASE RunsOfEvaluation(e) # {}
  <2>1. UNCHANGED <<evaluations, history>> /\ Reply(r, ServerError)
    BY <1>4 DEF DeleteEvaluationRow, EvaluationCanBeDeleted
  <2>2. QED
    BY <1>1, <1>2, <1>4, <2>1, ReplyEnds
<1>5. QED  BY <1>3, <1>4

LEMMA EraseRunEffect ==
  ASSUME Types, PathInv, NEW r \in Requests, EraseRun(r)
  PROVE  /\ At(r, "delete") /\ UNCHANGED <<evaluations, failures>> /\ Ends(r)
         /\ req'[r].answer = Success(204) /\ Erased(r, req[r].target)
<1>1. Erased(r, req[r].target)
  BY EraseEffect DEF EraseRun
<1>2. QED
  BY <1>1, ReplyEnds, AnswersAreErrors DEF EraseRun

LEMMA PrepareEffect ==
  ASSUME Types, PathInv, NEW r \in Requests, PrepareTarget(r)
  PROVE  /\ At(r, "prepare") /\ UNCHANGED <<Rows, history>> /\ failures' \in 0..MaxFailures
         /\ Ends(r) \/ (Passes(r) /\ Keeps(r) /\ IsMember(req[r].user, req[r].team))
<1> DEFINE answer == ResolveManagedInstance(req[r].user, req[r].team)
<1>1. At(r, "prepare") /\ UNCHANGED <<Rows, history>> /\ req[r].todo # <<>>
  BY DEF PrepareTarget, At
<1>2. answer \in Answers \cup {Admitted} /\ AsksControlPlane(r, answer)
  BY AnswersAreErrors DEF PrepareTarget
<1>3. MapControlPlaneError([kind |-> "status", status |-> 403]) # Admitted
  BY DEF MapControlPlaneError, UpstreamStatusMap, Admitted, Answer
<1>4. answer = Admitted => IsMember(req[r].user, req[r].team)
  BY <1>3 DEF ResolveManagedInstance
<1> HIDE DEF answer
<1>5. QED
  BY <1>1, <1>2, <1>4, ControlPlaneStep

LEMMA InsertRunEffect ==
  ASSUME Types, PathInv, NEW r \in Requests, InsertRun(r)
  PROVE  LET row == [evaluation |-> req[r].target, team |-> req[r].team, by |-> req[r].user,
                     state |-> "pending", cases |-> FALSE, work |-> "none"]
         IN /\ At(r, "insert_run") /\ UNCHANGED <<evaluations, failures>>
            /\ \/ /\ req[r].target \in EvaluationIds /\ Passes(r) /\ Keeps(r)
                  /\ runs' = [runs EXCEPT ![r] = row] /\ row \in RunRows
                  /\ Records(r, {row}, TRUE)
               \/ Ends(r) /\ UNCHANGED <<runs, history>>
<1> DEFINE row == [evaluation |-> req[r].target, team |-> req[r].team, by |-> req[r].user,
                   state |-> "pending", cases |-> FALSE, work |-> "none"]
<1>1. At(r, "insert_run") /\ UNCHANGED <<evaluations, failures>> /\ req[r].todo # <<>>
  BY DEF InsertRun, At
<1>2. CASE req[r].target \in EvaluationIds
  <2>1. runs' = [runs EXCEPT ![r] = row] /\ Changes(r, {row}) /\ Goes(r)
    BY <1>2 DEF InsertRun, RunCanBeCreated, CreateRun
  <2>2. Asked(req[r]) /\ req[r].op = "start"
    BY <1>1, AtStep, OpOfStep
  <2>3. req[r].team \in NamedTeams /\ req[r].user \in Users /\ req[r].target \in Ids
    BY <2>2 DEF Asked, NamesATeam, EvaluationOps
  <2>4. row \in RunRows
    BY <2>3 DEF RunRows
  <2> HIDE DEF row
  <2>5. Records(r, {row}, TRUE)
    BY <2>1, <2>4, RowsTyped, HistoryEffect
  <2>6. QED
    BY <1>1, <1>2, <2>1, <2>4, <2>5, GoesPasses DEF row
<1>3. CASE req[r].target \notin EvaluationIds
  <2>1. UNCHANGED <<runs, history>> /\ Reply(r, ServerError)
    BY <1>3 DEF InsertRun, RunCanBeCreated
  <2>2. ServerError \in Answers
    BY AnswersAreErrors
  <2>3. QED
    BY <1>1, <2>1, <2>2, ReplyEnds
<1>4. QED  BY <1>2, <1>3

(* A run row is changed in a way that keeps what it belongs to.            *)
SameOwner(row, old) ==
  row.evaluation = old.evaluation /\ row.team = old.team /\ row.by = old.by

LEMMA InsertCasesEffect ==
  ASSUME Types, PathInv, NEW r \in Requests, InsertCases(r)
  PROVE  /\ At(r, "insert_cases") /\ UNCHANGED <<evaluations, history, failures>>
         /\ \/ r \in RunIds /\ runs' = [runs EXCEPT ![r].cases = TRUE] /\ Passes(r) /\ Keeps(r)
            \/ Ends(r) /\ req'[r].answer = ServerError /\ UNCHANGED runs
<1>1. /\ At(r, "insert_cases") /\ UNCHANGED <<evaluations, history, failures>>
      /\ req[r].todo # <<>>
  BY DEF InsertCases, At
<1>2. CASE r \in RunIds
  BY <1>1, <1>2, GoesPasses DEF InsertCases, CreateCases
<1>3. CASE r \notin RunIds
  <2>1. UNCHANGED runs /\ Reply(r, ServerError)
    BY <1>3 DEF InsertCases
  <2>2. QED
    BY <1>1, <2>1, ReplyEnds, AnswersAreErrors
<1>4. QED  BY <1>2, <1>3

LEMMA StartEffect ==
  ASSUME Types, PathInv, NEW r \in Requests, StartWorkflow(r)
  PROVE  /\ At(r, "submit") /\ UNCHANGED <<evaluations, history, failures>>
         /\ Ends(r) /\ req'[r].answer = Success(202)
         /\ runs' = IF TemporalConfigured /\ r \in RunIds
                    THEN [runs EXCEPT ![r].work = "submitted"] ELSE runs
BY ReplyEnds, AnswersAreErrors DEF StartWorkflow

LEMMA CheckEffect ==
  ASSUME Types, PathInv, NEW r \in Requests, CheckCancel(r) \/ CheckDelete(r)
  PROVE  /\ At(r, "check_cancel") \/ At(r, "check_delete")
         /\ UNCHANGED <<Rows, history, failures>>
         /\ Ends(r) \/ (Passes(r) /\ Keeps(r))
<1>1. /\ At(r, "check_cancel") \/ At(r, "check_delete")
      /\ UNCHANGED <<Rows, history, failures>> /\ req[r].todo # <<>>
      /\ \E answer \in {Refused(404), Refused(409), Admitted} : Gate(r, answer)
  BY DEF CheckCancel, CheckDelete, At
<1>2. {Refused(404), Refused(409)} \subseteq Answers
  BY AnswersAreErrors
<1>3. QED
  BY <1>1, <1>2, GateStep DEF CheckCancel, CheckDelete

LEMMA CancelEffect ==
  ASSUME Types, PathInv, NEW r \in Requests, CancelRun(r)
  PROVE  LET x == req[r].target
         IN /\ At(r, "cancel") /\ UNCHANGED <<evaluations, failures>>
            /\ Ends(r) /\ req'[r].answer = Success(202)
            /\ IF x \in RunIds
               THEN /\ runs' = [runs EXCEPT ![x].state = "cancelled"]
                    /\ Records(r, {runs[x]}, TRUE)
               ELSE UNCHANGED <<runs, history>>
<1> DEFINE x == req[r].target
<1>1. /\ At(r, "cancel") /\ UNCHANGED <<evaluations, failures>>
      /\ Ends(r) /\ req'[r].answer = Success(202)
  BY ReplyEnds, AnswersAreErrors DEF CancelRun
<1>2. CASE x \in RunIds
  <2>1. runs[x] \in RunRows
    BY <1>2, RowTypes
  <2>2. runs' = [runs EXCEPT ![x].state = "cancelled"] /\ Changes(r, {runs[x]})
    BY <1>2 DEF CancelRun, UpdateRunState
  <2>3. Records(r, {runs[x]}, TRUE)
    BY <2>1, <2>2, RowsTyped, HistoryEffect
  <2>4. QED  BY <1>1, <1>2, <2>2, <2>3
<1>3. CASE x \notin RunIds
  BY <1>1, <1>3 DEF CancelRun, UpdateRunState
<1>4. QED  BY <1>2, <1>3

LEMMA FetchEffect ==
  ASSUME Types, PathInv, NEW r \in Requests, FetchFromControlPlane(r)
  PROVE  /\ At(r, "fetch") /\ UNCHANGED <<Rows, history>> /\ failures' \in 0..MaxFailures
         /\ Ends(r)
<1>1. At(r, "fetch") /\ UNCHANGED <<Rows, history>>
  BY DEF FetchFromControlPlane
<1>2. CASE Reply(r, Success(200)) /\ UNCHANGED failures
  BY <1>1, <1>2, ReplyEnds, AnswersAreErrors DEF Types
<1>3. CASE Fails /\ \E f \in ControlPlaneFailures : Reply(r, MapControlPlaneError(f))
  <2>1. Ends(r)
    BY <1>3, ReplyEnds, AnswersAreErrors
  <2>2. failures' \in 0..MaxFailures
    BY <1>3, ApiAssumption DEF Fails, Types
  <2>3. QED  BY <1>1, <2>1, <2>2
<1>4. QED  BY <1>2, <1>3 DEF FetchFromControlPlane

LEMMA FailEffect ==
  ASSUME Types, PathInv, NEW r \in Requests, RequestFails(r)
  PROVE  /\ req[r].todo # <<>> /\ UNCHANGED <<Rows, history>>
         /\ failures' \in 0..MaxFailures /\ failures' # failures
         /\ Ends(r) /\ req'[r].answer = ServerError
<1>1. Ends(r) /\ req'[r].answer = ServerError
  BY ReplyEnds, AnswersAreErrors DEF RequestFails
<1>2. failures' \in 0..MaxFailures /\ failures' # failures
  BY ApiAssumption DEF RequestFails, Fails, Types
<1>3. QED
  BY <1>1, <1>2 DEF RequestFails

LEMMA ArriveEffect ==
  ASSUME Types, PathInv, NEW r \in Requests, Arrive(r)
  PROVE  /\ req[r] = NoRequest /\ UNCHANGED <<Rows, history, failures>>
         /\ req' \in [Requests -> RequestTypes]
         /\ \A q \in Requests \ {r} : req'[q] = req[q]
         /\ LET new == req'[r]
            IN /\ new.op \in Ops /\ new.surface \in Surfaces /\ new.user \in Users
               /\ new.op \in EvaluationOps \cup RunOps => new.target \in Ids
               /\ NamesATeam(new.op, new.surface) => new.team \in NamedTeams
               /\ new.op = "create" => new.name \in Names
               /\ IsRoute(new.op, new.surface, new.todo)
               /\ new.owner = "none" /\ new.listed = {} /\ new.answer = NoAnswer
<1> DEFINE Asks(s, o, u, t, m, n, v) ==
             req' = [req EXCEPT ![r] =
                       [op |-> o, surface |-> s, user |-> u, team |-> m, target |-> t,
                        name |-> n, version |-> v, todo |-> Routes[s][o],
                        owner |-> "none", listed |-> {}, answer |-> NoAnswer]]
           TeamsFor(s, o) == IF NamesATeam(o, s) THEN NamedTeams ELSE {"none"}
           NamesFor(o) == IF o = "create" THEN Names ELSE {"none"}
           VersionsFor(o) == IF o = "create" THEN Declared \cup {Undeclared} ELSE {Undeclared}
<1>1. PICK surface \in Surfaces : \E op \in DOMAIN Routes[surface], user \in Users :
        \E target \in TargetsOf(op), team \in TeamsFor(surface, op), name \in NamesFor(op),
           version \in VersionsFor(op) : Asks(surface, op, user, target, team, name, version)
  BY DEF Arrive
<1>2. PICK op \in DOMAIN Routes[surface], user \in Users :
        \E target \in TargetsOf(op), team \in TeamsFor(surface, op), name \in NamesFor(op),
           version \in VersionsFor(op) : Asks(surface, op, user, target, team, name, version)
  BY <1>1
<1>14. PICK target \in TargetsOf(op), team \in TeamsFor(surface, op), name \in NamesFor(op),
           version \in VersionsFor(op) : Asks(surface, op, user, target, team, name, version)
  BY <1>2
<1>15. IsRoute(op, surface, Routes[surface][op])
  BY RoutesAreGated
<1> DEFINE path == Routes[surface][op]
           new == [op |-> op, surface |-> surface, user |-> user, team |-> team, target |-> target,
                   name |-> name, version |-> version, todo |-> path,
                   owner |-> "none", listed |-> {}, answer |-> NoAnswer]
<1>3. op \in Ops /\ path \in Seq(Steps)
  BY <1>15 DEF IsRoute
<1>4. surface \in {"v1", "tasks", "hosted"}
  BY DEF Surfaces, Routes
<1>5. target \in Ids \cup {"none"} /\ (op \in EvaluationOps \cup RunOps => target \in Ids)
  BY ApiAssumption, SeedAssumption DEF TargetsOf
<1>6. version \in VersionTexts
  BY NoRequestFacts, ApiAssumption DEF Undeclared, Version, VersionTexts
<1>7. /\ NamesATeam(op, surface) => team \in NamedTeams
      /\ team \in NamedTeams \cup {"none"}
      /\ op = "create" => name \in Names
      /\ name \in Names \cup {"none"}
  OBVIOUS
<1> HIDE DEF path
<1>8. new \in RequestTypes
  BY <1>3, <1>4, <1>5, <1>6, <1>7 DEF RequestTypes
<1>9. /\ new.op = op /\ new.surface = surface /\ new.user = user /\ new.target = target
      /\ new.team = team /\ new.name = name /\ new.todo = path /\ new.owner = "none"
      /\ new.listed = {} /\ new.answer = NoAnswer
  OBVIOUS
<1>10. req' = [req EXCEPT ![r] = new] /\ req \in [Requests -> RequestTypes]
  BY <1>14 DEF path, Types
<1> HIDE DEF new
<1>11. /\ req' \in [Requests -> RequestTypes] /\ req'[r] = new
       /\ \A q \in Requests \ {r} : req'[q] = req[q]
  BY <1>8, <1>10
<1>12. IsRoute(op, surface, path)
  BY <1>15 DEF path
<1>13. QED
  BY <1>3, <1>5, <1>7, <1>9, <1>11, <1>12 DEF Arrive

LEMMA UnauthenticatedEffect ==
  ASSUME Types, PathInv, NEW r \in Requests, Unauthenticated(r)
  PROVE  /\ req[r] = NoRequest /\ UNCHANGED <<Rows, history>> /\ failures' \in 0..MaxFailures
         /\ req' \in [Requests -> RequestTypes]
         /\ \A q \in Requests \ {r} : req'[q] = req[q]
         /\ LET new == req'[r]
            IN /\ new.todo = <<>> /\ new.op = "refused" /\ new.owner = "none"
               /\ new.listed = {} /\ new.answer \in Answers
<1>1. PICK status \in {401, 403} :
       req' = [req EXCEPT ![r] =
                 [NoRequest EXCEPT !.op = "refused",
                    !.answer = NormalizeUnstructuredAuthError(Refused(status))]]
  BY DEF Unauthenticated
<1> DEFINE answer == NormalizeUnstructuredAuthError(Refused(status))
           new == [NoRequest EXCEPT !.op = "refused", !.answer = answer]
<1>2. answer \in Answers
  BY AnswersAreErrors
<1> HIDE DEF answer
<1>3. new \in RequestTypes
  <2>1. ASSUME NEW op, op \in Ops \cup {"none", "refused"}
        PROVE  [NoRequest EXCEPT !.op = op, !.answer = answer] \in RequestTypes
    <3> DEFINE half == [NoRequest EXCEPT !.op = op]
    <3>1. half \in RequestTypes
      BY <2>1, NoRequestFacts DEF RequestTypes
    <3>2. [NoRequest EXCEPT !.op = op, !.answer = answer] = [half EXCEPT !.answer = answer]
      BY NoRequestFacts DEF RequestTypes
    <3> HIDE DEF half
    <3>3. [half EXCEPT !.answer = answer] \in RequestTypes
      BY <1>2, <3>1 DEF RequestTypes
    <3>4. QED
      BY <3>2, <3>3
  <2>2. QED
    BY <2>1
<1>4. /\ new.todo = <<>> /\ new.op = "refused" /\ new.owner = "none"
      /\ new.listed = {} /\ new.answer = answer
  BY NoRequestFacts DEF RequestTypes
<1>5. req' = [req EXCEPT ![r] = new] /\ req \in [Requests -> RequestTypes]
  BY <1>1 DEF answer, Types
<1>6. failures' \in 0..MaxFailures
  BY ApiAssumption DEF Unauthenticated, Fails, Types
<1>7. req[r] = NoRequest /\ UNCHANGED <<Rows, history>>
  BY DEF Unauthenticated
<1> HIDE DEF new
<1>8. /\ req' \in [Requests -> RequestTypes] /\ req'[r] = new
      /\ \A q \in Requests \ {r} : req'[q] = req[q]
  BY <1>3, <1>5
<1>9. QED
  BY <1>2, <1>4, <1>6, <1>7, <1>8

-----------------------------------------------------------------------------
(* A step of a request that has arrived, and a step of the worker.         *)
Works(r) ==
  \/ IsEntitled(r) \/ IsMemberOfTeam(r) \/ LoadEvaluation(r) \/ LoadRun(r)
  \/ ResolveVersion(r) \/ InsertEvaluation(r) \/ ListTeam(r) \/ ListMine(r)
  \/ ReadEvaluation(r) \/ ReadRun(r) \/ ListRunsToDelete(r) \/ DeleteListedRun(r)
  \/ DeleteEvaluationRow(r) \/ PrepareTarget(r) \/ InsertRun(r) \/ InsertCases(r)
  \/ StartWorkflow(r) \/ CheckCancel(r) \/ CancelRun(r) \/ CheckDelete(r) \/ EraseRun(r)
  \/ FetchFromControlPlane(r) \/ RequestFails(r)

WorkerStep == \E x \in Ids : WorkerStarts(x) \/ WorkerEnds(x)

LEMMA NextCases ==
  ASSUME [Next]_vars
  PROVE  \/ \E r \in Requests : Arrive(r) \/ Unauthenticated(r) \/ Works(r)
         \/ WorkerStep \/ UNCHANGED vars
BY DEF Next, Works, WorkerStep

(* Of the history, what was seen is replaced.                              *)
Notes(r) ==
  /\ history' \in [Requests -> HistoryTypes]
  /\ \A q \in Requests \ {r} : history'[q] = history[q]
  /\ history'[r].touched = history[r].touched /\ history'[r].changed = history[r].changed

LEMMA NotesEffect ==
  ASSUME Types, NEW r \in Requests, NEW ids \in SUBSET Ids
  PROVE  /\ history' = [history EXCEPT ![r].saw = ids]
            => Notes(r) /\ history'[r].saw = ids /\ history'[r].known = history[r].known
         /\ history' = [history EXCEPT ![r].known = ids]
            => Notes(r) /\ history'[r].known = ids /\ history'[r].saw = history[r].saw
<1>1. history \in [Requests -> HistoryTypes]
  BY DEF Types
<1>2. /\ [history[r] EXCEPT !.saw = ids] \in HistoryTypes
      /\ [history[r] EXCEPT !.known = ids] \in HistoryTypes
  BY <1>1 DEF HistoryTypes
<1>3. CASE history' = [history EXCEPT ![r].saw = ids]
  BY <1>1, <1>2, <1>3 DEF HistoryTypes, Notes
<1>4. CASE history' = [history EXCEPT ![r].known = ids]
  BY <1>1, <1>2, <1>4 DEF HistoryTypes, Notes
<1>5. QED  BY <1>3, <1>4

(* What a step of an arrived request does to it and to the history.        *)
LEMMA WorksEffect ==
  ASSUME Types, PathInv, NEW r \in Requests, Works(r)
  PROVE  /\ req[r].todo # <<>>
         /\ \/ Passes(r) \/ Ends(r)
            \/ \E x \in req[r].listed :
                 /\ At(r, "cascade") /\ req' \in [Requests -> RequestTypes]
                 /\ req' = [req EXCEPT ![r].listed = @ \ {x}]
         /\ \/ UNCHANGED history \/ Notes(r)
            \/ \E rows, changed : Records(r, rows, changed)
         /\ failures' \in 0..MaxFailures
<1>1. \A step : At(r, step) => req[r].todo # <<>>
  BY DEF At
<1>2. failures \in 0..MaxFailures
  BY DEF Types
<1>3. CASE IsEntitled(r) \/ IsMemberOfTeam(r) \/ LoadEvaluation(r) \/ LoadRun(r) \/ PrepareTarget(r)
  BY <1>1, <1>2, <1>3, EntitledEffect, MemberEffect, LoadEvaluationEffect, LoadRunEffect,
     PrepareEffect
<1>4. CASE ResolveVersion(r)
  <2>1. EvaluationIds \in SUBSET Ids
    BY DEF EvaluationIds
  <2>2. Notes(r)
    BY <1>4, <2>1, ResolveVersionEffect, NotesEffect
  <2>3. QED  BY <1>1, <1>2, <1>4, <2>2, ResolveVersionEffect
<1>5. CASE ListRunsToDelete(r)
  <2>1. RunsOfEvaluation(req[r].target) \in SUBSET Ids
    BY DEF RunsOfEvaluation, RunIds
  <2>2. Notes(r)
    BY <1>5, <2>1, ListRunsEffect, NotesEffect
  <2>3. QED  BY <1>1, <1>2, <1>5, <2>2, ListRunsEffect
<1>6. CASE InsertEvaluation(r) \/ ListTeam(r) \/ ListMine(r) \/ ReadEvaluation(r) \/ ReadRun(r)
  <2>1. CASE InsertEvaluation(r)
    BY <1>1, <1>2, <2>1, InsertEvaluationEffect
  <2>2. CASE ListTeam(r)
    BY <1>1, <1>2, <2>2, ListTeamEffect
  <2>3. CASE ListMine(r)
    BY <1>1, <1>2, <2>3, ListMineEffect
  <2>4. CASE ReadEvaluation(r)
    BY <1>1, <1>2, <2>4, ReadEvaluationEffect
  <2>5. CASE ReadRun(r)
    BY <1>1, <1>2, <2>5, ReadRunEffect
  <2>6. QED  BY <1>6, <2>1, <2>2, <2>3, <2>4, <2>5
<1>7. CASE DeleteListedRun(r) \/ EraseRun(r)
  BY <1>1, <1>2, <1>7, DeleteListedEffect, EraseRunEffect DEF Erased
<1>8. CASE DeleteEvaluationRow(r)
  BY <1>1, <1>2, <1>8, DeleteRowEffect
<1>9. CASE InsertRun(r) \/ InsertCases(r) \/ StartWorkflow(r)
  <2>1. CASE InsertRun(r)
    BY <1>1, <1>2, <2>1, InsertRunEffect
  <2>2. CASE InsertCases(r)
    BY <1>1, <1>2, <2>2, InsertCasesEffect
  <2>3. CASE StartWorkflow(r)
    BY <1>1, <1>2, <2>3, StartEffect
  <2>4. QED  BY <1>9, <2>1, <2>2, <2>3
<1>10. CASE CheckCancel(r) \/ CheckDelete(r) \/ CancelRun(r)
  <2>1. CASE CheckCancel(r) \/ CheckDelete(r)
    BY <1>1, <1>2, <2>1, CheckEffect
  <2>2. CASE CancelRun(r)
    BY <1>1, <1>2, <2>2, CancelEffect
  <2>3. QED  BY <1>10, <2>1, <2>2
<1>11. CASE FetchFromControlPlane(r) \/ RequestFails(r)
  BY <1>1, <1>2, <1>11, FetchEffect, FailEffect
<1>12. QED
  BY <1>3, <1>4, <1>5, <1>6, <1>7, <1>8, <1>9, <1>10, <1>11 DEF Works

(* The rows a step writes: none, one that is created, changed or deleted.  *)
LEMMA RowsEffect ==
  ASSUME Types, PathInv, NEW r \in Requests, Works(r)
  PROVE  /\ \/ UNCHANGED evaluations
            \/ \E row \in EvaluationRows :
                 /\ InsertEvaluation(r) /\ At(r, "insert") /\ evaluations' = [evaluations EXCEPT ![r] = row]
            \/ /\ DeleteEvaluationRow(r) /\ At(r, "cascade")
               /\ evaluations' = [evaluations EXCEPT ![req[r].target] = NoRow]
         /\ \/ UNCHANGED runs
            \/ \E x : /\ runs' = [runs EXCEPT ![x] = NoRow]
                      /\ DeleteListedRun(r) \/ EraseRun(r)
            \/ \E row \in RunRows : InsertRun(r) /\ At(r, "insert_run") /\ runs' = [runs EXCEPT ![r] = row]
            \/ /\ InsertCases(r) /\ At(r, "insert_cases")
               /\ r \in RunIds /\ runs' = [runs EXCEPT ![r].cases = TRUE]
            \/ /\ StartWorkflow(r) /\ At(r, "submit")
               /\ r \in RunIds /\ runs' = [runs EXCEPT ![r].work = "submitted"]
            \/ /\ CancelRun(r) /\ At(r, "cancel")
               /\ req[r].target \in RunIds /\ runs' = [runs EXCEPT ![req[r].target].state = "cancelled"]
<1>1. CASE IsEntitled(r) \/ IsMemberOfTeam(r) \/ LoadEvaluation(r) \/ LoadRun(r) \/ PrepareTarget(r)
           \/ ResolveVersion(r) \/ ListRunsToDelete(r) \/ ListTeam(r) \/ ListMine(r)
           \/ ReadEvaluation(r) \/ ReadRun(r) \/ CheckCancel(r) \/ CheckDelete(r)
           \/ FetchFromControlPlane(r) \/ RequestFails(r)
  <2>1. CASE IsEntitled(r) \/ IsMemberOfTeam(r) \/ LoadEvaluation(r) \/ LoadRun(r) \/ PrepareTarget(r)
    BY <2>1 DEF IsEntitled, IsMemberOfTeam, LoadEvaluation, LoadRun, PrepareTarget, Rows
  <2>2. CASE ResolveVersion(r) \/ ListRunsToDelete(r) \/ ListTeam(r) \/ ListMine(r)
    BY <2>2 DEF ResolveVersion, ListRunsToDelete, ListTeam, ListMine, Rows
  <2>3. CASE ReadEvaluation(r) \/ ReadRun(r) \/ CheckCancel(r) \/ CheckDelete(r)
    BY <2>3 DEF ReadEvaluation, ReadRun, CheckCancel, CheckDelete, Rows
  <2>4. CASE FetchFromControlPlane(r) \/ RequestFails(r)
    BY <2>4 DEF FetchFromControlPlane, RequestFails, Rows
  <2>5. QED  BY <1>1, <2>1, <2>2, <2>3, <2>4
<1>2. CASE InsertEvaluation(r)
  BY <1>2, InsertEvaluationEffect
<1>3. CASE DeleteListedRun(r) \/ EraseRun(r)
  BY <1>3, DeleteListedEffect, EraseRunEffect DEF Erased
<1>4. CASE DeleteEvaluationRow(r)
  BY <1>4, DeleteRowEffect
<1>5. CASE InsertRun(r) \/ InsertCases(r)
  BY <1>5, InsertRunEffect, InsertCasesEffect
<1>6. CASE StartWorkflow(r) \/ CancelRun(r)
  BY <1>6, StartEffect, CancelEffect
<1>7. QED
  BY <1>1, <1>2, <1>3, <1>4, <1>5, <1>6 DEF Works

(* The team a request is about is learnt from the row it loads.            *)
LEMMA OwnerEffect ==
  ASSUME Types, PathInv, NEW r \in Requests, Works(r), Passes(r)
  PROVE  \E step :
           /\ At(r, step)
           /\ \/ step \notin {"evaluation", "run"} /\ req'[r].owner = req[r].owner
              \/ /\ step = "evaluation" /\ req[r].target \in EvaluationIds
                 /\ req'[r].owner = evaluations[req[r].target].team
                 /\ UNCHANGED Rows
              \/ /\ step = "run" /\ req[r].target \in RunIds
                 /\ req'[r].owner = runs[req[r].target].team
                 /\ UNCHANGED Rows
           /\ step \in {"evaluation", "run"} =>
                /\ req'[r].owner # "none"
                /\ NamesATeam(req[r].op, req[r].surface) => req'[r].owner = req[r].team
           /\ step = "entitled" => IsMember(req[r].user, req[r].team)
           /\ step = "member" => IsMember(req[r].user, TeamOfRequest(r))
<1>1. ~Ends(r)
  <2>1. req[r].todo # <<>> /\ req'[r].answer = req[r].answer /\ req[r].answer = NoAnswer
    BY DEF Passes, PathInv, Asked
  <2>2. QED
    BY <2>1, AnswersAreErrors DEF Ends
<1>2. ASSUME DeleteListedRun(r) PROVE FALSE
  <2>1. PICK x \in req[r].listed : req' = [req EXCEPT ![r].listed = @ \ {x}]
    BY <1>2, DeleteListedEffect
  <2>2. req'[r].todo = req[r].todo /\ req[r].todo \in Seq(Steps) /\ req[r].todo # <<>>
    BY <2>1 DEF Types, RequestTypes, Passes
  <2>3. req'[r].todo = Tail(req[r].todo)
    BY DEF Passes
  <2>4. Len(Tail(req[r].todo)) # Len(req[r].todo)
    BY <2>2
  <2>5. QED  BY <2>2, <2>3, <2>4
<1>3. CASE IsEntitled(r) \/ IsMemberOfTeam(r)
  BY <1>1, <1>3, EntitledEffect, MemberEffect DEF Keeps, At
<1>4. CASE LoadEvaluation(r)
  BY <1>1, <1>4, LoadEvaluationEffect DEF At
<1>5. CASE LoadRun(r)
  BY <1>1, <1>5, LoadRunEffect DEF At
<1>6. CASE ResolveVersion(r) \/ ListRunsToDelete(r) \/ PrepareTarget(r)
  BY <1>1, <1>6, ResolveVersionEffect, ListRunsEffect, PrepareEffect DEF Keeps, At
<1>7. CASE InsertRun(r) \/ InsertCases(r)
  BY <1>1, <1>7, InsertRunEffect, InsertCasesEffect DEF Keeps, At
<1>8. CASE CheckCancel(r) \/ CheckDelete(r)
  BY <1>1, <1>8, CheckEffect DEF Keeps, At
<1>9. ASSUME InsertEvaluation(r) \/ ListTeam(r) \/ ListMine(r) \/ ReadEvaluation(r) \/ ReadRun(r)
      PROVE  FALSE
  BY <1>1, <1>9, InsertEvaluationEffect, ListTeamEffect, ListMineEffect, ReadEvaluationEffect,
     ReadRunEffect
<1>10. ASSUME DeleteEvaluationRow(r) \/ StartWorkflow(r) \/ CancelRun(r) \/ EraseRun(r)
              \/ FetchFromControlPlane(r) \/ RequestFails(r)
       PROVE  FALSE
  <2>1. ASSUME DeleteEvaluationRow(r) PROVE FALSE
    BY <1>1, <2>1, DeleteRowEffect
  <2>2. ASSUME StartWorkflow(r) \/ CancelRun(r) \/ EraseRun(r) PROVE FALSE
    BY <1>1, <2>2, StartEffect, CancelEffect, EraseRunEffect
  <2>3. ASSUME FetchFromControlPlane(r) \/ RequestFails(r) PROVE FALSE
    BY <1>1, <2>3, FetchEffect, FailEffect
  <2>4. QED  BY <1>10, <2>1, <2>2, <2>3
<1>11. QED
  BY <1>2, <1>3, <1>4, <1>5, <1>6, <1>7, <1>8, <1>9, <1>10 DEF Works

LEMMA RunChange ==
  ASSUME Types, NEW x \in RunIds
  PROVE  /\ \A state \in TerminalRunStates \cup {"pending", "running"} :
              [runs[x] EXCEPT !.state = state] \in RunRows
         /\ \A work \in {"none", "submitted", "begun", "ended"} :
              [runs[x] EXCEPT !.work = work] \in RunRows
         /\ [runs[x] EXCEPT !.cases = TRUE] \in RunRows
<1>1. runs[x] \in RunRows
  BY RowTypes
<1>2. QED
  BY <1>1 DEF RunRows

LEMMA WorkerEffect ==
  ASSUME Types, WorkerStep
  PROVE  \E x \in RunIds :
           /\ runs[x].work # "none" /\ UNCHANGED <<evaluations, req, history, failures>>
           /\ \E row \in RunRows :
                /\ runs' = [runs EXCEPT ![x] = row] /\ SameOwner(row, runs[x])
                /\ row.cases = runs[x].cases /\ row.work # "none"
<1>1. PICK x \in RunIds : WorkerStarts(x) \/ WorkerEnds(x)
  BY DEF WorkerStep, WorkerStarts, WorkerEnds, RunIds
<1>2. runs[x] \in RunRows /\ x \in Ids /\ runs \in [Ids -> RunRows \cup {NoRow}]
  BY RowTypes DEF Types
<1>3. CASE WorkerStarts(x)
  <2> DEFINE row == [runs[x] EXCEPT !.state = "running", !.work = "begun"]
  <2>1. row \in RunRows /\ SameOwner(row, runs[x]) /\ row.cases = runs[x].cases /\ row.work # "none"
    BY <1>2 DEF RunRows, SameOwner
  <2>2. runs' = [runs EXCEPT ![x] = row]
    BY <1>2, <1>3 DEF WorkerStarts, RunRows
  <2>3. runs[x].work # "none" /\ UNCHANGED <<evaluations, req, history, failures>>
    BY <1>3 DEF WorkerStarts
  <2> HIDE DEF row
  <2>4. QED  BY <2>1, <2>2, <2>3
<1>4. CASE WorkerEnds(x)
  <2> DEFINE row == [runs[x] EXCEPT !.state = "completed", !.work = "ended"]
  <2>1. row \in RunRows /\ SameOwner(row, runs[x]) /\ row.cases = runs[x].cases /\ row.work # "none"
    BY <1>2 DEF RunRows, SameOwner, TerminalRunStates
  <2>2. runs' = [runs EXCEPT ![x] = row]
    BY <1>2, <1>4 DEF WorkerEnds, RunRows
  <2>3. runs[x].work # "none" /\ UNCHANGED <<evaluations, req, history, failures>>
    BY <1>4 DEF WorkerEnds
  <2> HIDE DEF row
  <2>4. QED  BY <2>1, <2>2, <2>3
<1>5. QED  BY <1>1, <1>3, <1>4

LEMMA TypesStep ==
  ASSUME Types, PathInv, [Next]_vars
  PROVE  Types'
<1>1. /\ evaluations \in [Ids -> EvaluationRows \cup {NoRow}]
      /\ runs \in [Ids -> RunRows \cup {NoRow}]
      /\ req \in [Requests -> RequestTypes] /\ history \in [Requests -> HistoryTypes]
      /\ failures \in 0..MaxFailures
  BY DEF Types
<1>2. CASE UNCHANGED vars
  BY <1>1, <1>2 DEF vars, Types
<1>3. CASE WorkerStep
  <2>1. PICK x \in RunIds, row \in RunRows :
          UNCHANGED <<evaluations, req, history, failures>> /\ runs' = [runs EXCEPT ![x] = row]
    BY <1>3, WorkerEffect
  <2>2. QED
    BY <1>1, <2>1 DEF Types
<1>4. ASSUME NEW r \in Requests, Arrive(r) PROVE Types'
  BY <1>1, <1>4, ArriveEffect DEF Types, Rows
<1>5. ASSUME NEW r \in Requests, Unauthenticated(r) PROVE Types'
  BY <1>1, <1>5, UnauthenticatedEffect DEF Types, Rows
<1>6. ASSUME NEW r \in Requests, Works(r) PROVE Types'
  <2>1. /\ req' \in [Requests -> RequestTypes] /\ history' \in [Requests -> HistoryTypes]
        /\ failures' \in 0..MaxFailures
    BY <1>1, <1>6, WorksEffect DEF Passes, Ends, Notes, Records
  <2>2. evaluations' \in [Ids -> EvaluationRows \cup {NoRow}]
    BY <1>1, <1>6, RowsEffect
  <2>3. runs' \in [Ids -> RunRows \cup {NoRow}]
    <3>1. ASSUME NEW x \in RunIds
          PROVE  /\ runs' = [runs EXCEPT ![x].cases = TRUE]
                      => runs' \in [Ids -> RunRows \cup {NoRow}]
                 /\ runs' = [runs EXCEPT ![x].work = "submitted"]
                      => runs' \in [Ids -> RunRows \cup {NoRow}]
                 /\ runs' = [runs EXCEPT ![x].state = "cancelled"]
                      => runs' \in [Ids -> RunRows \cup {NoRow}]
      <4>1. /\ [runs[x] EXCEPT !.cases = TRUE] \in RunRows
            /\ [runs[x] EXCEPT !.work = "submitted"] \in RunRows
            /\ [runs[x] EXCEPT !.state = "cancelled"] \in RunRows
        BY RunChange DEF TerminalRunStates
      <4>2. /\ [runs EXCEPT ![x].cases = TRUE]
                 = [runs EXCEPT ![x] = [runs[x] EXCEPT !.cases = TRUE]]
            /\ [runs EXCEPT ![x].work = "submitted"]
                 = [runs EXCEPT ![x] = [runs[x] EXCEPT !.work = "submitted"]]
            /\ [runs EXCEPT ![x].state = "cancelled"]
                 = [runs EXCEPT ![x] = [runs[x] EXCEPT !.state = "cancelled"]]
        BY Zenon
      <4>3. \A row \in RunRows : [runs EXCEPT ![x] = row] \in [Ids -> RunRows \cup {NoRow}]
        BY <1>1
      <4>4. QED
        BY <4>1, <4>2, <4>3
    <3>2. QED
      BY <1>1, <1>6, <3>1, RowsEffect
  <2>4. QED
    BY <2>1, <2>2, <2>3 DEF Types
<1>7. QED
  BY <1>2, <1>3, <1>4, <1>5, <1>6, NextCases

LEMMA PathOf ==
  ASSUME PathInv, NEW r \in Requests
  PROVE  /\ Ordered(req[r].todo) /\ RangeOf(req[r].todo) \subseteq StepsOf(req[r].op)
         /\ req[r].todo # <<>> => Asked(req[r])
         /\ req[r] = NoRequest => history[r] = NoHistory
BY DEF PathInv

LEMMA EmptyPath == Ordered(<<>>) /\ RangeOf(<<>>) = {}
BY DEF Ordered, RangeOf

PathOfRequest(q, old) ==
  /\ Ordered(q.todo) /\ RangeOf(q.todo) \subseteq StepsOf(q.op)
  /\ q.todo # <<>> => Asked(q)
  /\ q = NoRequest => old = NoHistory

LEMMA PathStep ==
  ASSUME Types, PathInv, [Next]_vars
  PROVE  PathInv'
<1>1. PathInv <=> \A q \in Requests : PathOfRequest(req[q], history[q])
  BY DEF PathInv, PathOfRequest
<1>2. PathInv' <=> \A q \in Requests : PathOfRequest(req'[q], history'[q])
  BY DEF PathInv, PathOfRequest, Asked
<1>3. CASE UNCHANGED <<req, history>>
  BY <1>1, <1>2, <1>3
<1>4. ASSUME NEW r \in Requests, Arrive(r) PROVE PathInv'
  <2>1. PathOfRequest(req'[r], history'[r])
    <3>1. req'[r].op # "none"
      BY <1>4, ArriveEffect DEF Ops, EvaluationOps, RunOps
    <3>2. req'[r] # NoRequest
      BY <3>1, NoRequestFacts
    <3>3. QED
      BY <1>4, <3>2, ArriveEffect DEF PathOfRequest, Asked, IsRoute, Gated
  <2>2. QED
    BY <1>1, <1>2, <1>4, <2>1, ArriveEffect
<1>5. ASSUME NEW r \in Requests, Unauthenticated(r) PROVE PathInv'
  <2>1. PathOfRequest(req'[r], history'[r])
    <3>1. req'[r] # NoRequest
      BY <1>5, UnauthenticatedEffect, NoRequestFacts
    <3>2. QED
      BY <1>5, <3>1, UnauthenticatedEffect, EmptyPath DEF PathOfRequest
  <2>2. QED
    BY <1>1, <1>2, <1>5, <2>1, UnauthenticatedEffect
<1>6. ASSUME NEW r \in Requests, Works(r) PROVE PathInv'
  <2>1. \A q \in Requests \ {r} : req'[q] = req[q] /\ history'[q] = history[q]
    BY <1>6, WorksEffect DEF Passes, Ends, Notes, Records, Types
  <2>2. req[r].todo # <<>> /\ Asked(req[r]) /\ req[r].op # "none"
    BY <1>6, WorksEffect, PathOf DEF Asked, Ops, EvaluationOps, RunOps
  <2>3. CASE Ends(r)
    <3>1. req'[r].answer # NoAnswer
      BY <2>3, AnswersAreErrors DEF Ends
    <3>2. PathOfRequest(req'[r], history'[r])
      BY <2>3, <3>1, NoRequestFacts, EmptyPath DEF Ends, PathOfRequest
    <3>3. QED
      BY <1>1, <1>2, <2>1, <3>2
  <2>4. CASE \E x \in req[r].listed :
               At(r, "cascade") /\ req' = [req EXCEPT ![r].listed = @ \ {x}]
    <3>1. LET old == req[r]  new == req'[r]
          IN /\ new.todo = old.todo /\ new.op = old.op /\ new.surface = old.surface
             /\ new.user = old.user /\ new.target = old.target /\ new.team = old.team
             /\ new.name = old.name /\ new.owner = old.owner /\ new.answer = old.answer
      BY <2>4 DEF Types, RequestTypes
    <3>2. PathOfRequest(req'[r], history'[r])
      BY <2>2, <3>1, PathOf, NoRequestFacts DEF PathOfRequest, Asked
    <3>3. QED
      BY <1>1, <1>2, <2>1, <3>2
  <2>5. CASE Passes(r)
    <3>1. PICK step :
           /\ At(r, step)
           /\ step \notin {"evaluation", "run"} => req'[r].owner = req[r].owner
           /\ step \in {"evaluation", "run"} =>
                /\ req'[r].owner # "none"
                /\ NamesATeam(req[r].op, req[r].surface) => req'[r].owner = req[r].team
      BY <1>6, <2>5, OwnerEffect
    <3>2. LET rest == Tail(req[r].todo)
          IN /\ Ordered(rest) /\ RangeOf(req[r].todo) = {step} \cup RangeOf(rest)
             /\ RangeOf(rest) \subseteq StepsOf(req[r].op)
      BY <3>1, AtStep
    <3>3. Asked(req'[r])
      BY <2>2, <2>5, <3>1, <3>2 DEF Passes, Asked
    <3>4. PathOfRequest(req'[r], history'[r])
      BY <2>2, <2>5, <3>2, <3>3, NoRequestFacts DEF Passes, PathOfRequest
    <3>5. QED
      BY <1>1, <1>2, <2>1, <3>4
  <2>6. QED
    BY <1>6, <2>3, <2>4, <2>5, WorksEffect
<1>7. QED
  BY <1>3, <1>4, <1>5, <1>6, NextCases, WorkerEffect DEF vars

-----------------------------------------------------------------------------
(* A 204 and a 500 are the answers of few steps.                           *)
Plain(answer) == answer.status \notin {204, 500}

LEMMA MostAnswersArePlain ==
  /\ \A f \in ControlPlaneFailures : Plain(MapControlPlaneError(f))
  /\ \A user, team : Plain(RequireEntitled(user, team))
  /\ \A user, team : Plain(ResolveTeamMembership(user, team))
  /\ \A user, team : Plain(ResolveManagedInstance(user, team))
  /\ \A answer \in {Success(200), Success(201), Success(202), Refused(404), Refused(409),
                    EvaluationNotFound, RunNotFound, ApplicationNotGranted, Admitted, NoAnswer} :
       Plain(answer)
  /\ \A status \in {401, 403} : Plain(NormalizeUnstructuredAuthError(Refused(status)))
  /\ Success(204).status = 204 /\ ServerError.status = 500
<1>1. \A s, c : Answer(s, c).status = s
  BY DEF Answer
<1>2. \A s \in DOMAIN UpstreamStatusMap : Plain(UpstreamStatusMap[s])
  BY <1>1 DEF UpstreamStatusMap, Plain
<1>3. \A f \in ControlPlaneFailures : Plain(MapControlPlaneError(f))
  BY <1>1, <1>2 DEF MapControlPlaneError, Unavailable, InvalidResponse, Plain
<1>4. [kind |-> "status", status |-> 403] \in ControlPlaneFailures
  BY DEF ControlPlaneFailures, UpstreamStatusMap
<1>5. /\ \A a \in {Success(200), Success(201), Success(202), Refused(404), Refused(409)} : Plain(a)
      /\ \A a \in {EvaluationNotFound, RunNotFound, ApplicationNotGranted, Admitted, NoAnswer,
                   TargetForbidden} : Plain(a)
  BY <1>1 DEF Success, Refused, EvaluationNotFound, RunNotFound, ApplicationNotGranted, Admitted,
              NoAnswer, TargetForbidden, Plain
<1>6. \A status \in {401, 403} : Plain(NormalizeUnstructuredAuthError(Refused(status)))
  BY <1>1 DEF NormalizeUnstructuredAuthError, Refused, Plain
<1>7. \A user, team : /\ Plain(RequireEntitled(user, team))
                     /\ Plain(ResolveTeamMembership(user, team))
                     /\ Plain(ResolveManagedInstance(user, team))
  BY <1>3, <1>4, <1>5 DEF RequireEntitled, ResolveTeamMembership, ResolveManagedInstance
<1>8. Success(204).status = 204 /\ ServerError.status = 500
  BY <1>1 DEF Success, ServerError, Refused
<1>9. QED
  BY <1>3, <1>5, <1>6, <1>7, <1>8

LEMMA ReplyAnswer ==
  ASSUME Types, NEW r \in Requests, NEW answer, Reply(r, answer)
  PROVE  req'[r].answer = answer
BY NoRequestFacts DEF Reply, Types, RequestTypes

(* A step that goes on with a value in one of the locals.                  *)
GoesWith(r, value) ==
  \/ req' = [req EXCEPT ![r].todo = Tail(@), ![r].owner = value]
  \/ req' = [req EXCEPT ![r].todo = Tail(@), ![r].version = value]
  \/ req' = [req EXCEPT ![r].todo = Tail(@), ![r].listed = value]

LEMMA AnswerKept ==
  ASSUME Types, NEW r \in Requests, NEW value, GoesWith(r, value)
  PROVE  req'[r].answer = req[r].answer
<1>1. req[r] \in RequestTypes /\ req \in [Requests -> RequestTypes]
  BY DEF Types
<1> DEFINE rest == Tail(req[r].todo)
<1>2. /\ [req[r] EXCEPT !.todo = rest, !.owner = value].answer = req[r].answer
      /\ [req[r] EXCEPT !.todo = rest, !.version = value].answer = req[r].answer
      /\ [req[r] EXCEPT !.todo = rest, !.listed = value].answer = req[r].answer
  BY <1>1 DEF RequestTypes
<1>3. \/ req' = [req EXCEPT ![r] = [req[r] EXCEPT !.todo = rest, !.owner = value]]
      \/ req' = [req EXCEPT ![r] = [req[r] EXCEPT !.todo = rest, !.version = value]]
      \/ req' = [req EXCEPT ![r] = [req[r] EXCEPT !.todo = rest, !.listed = value]]
  BY Zenon DEF GoesWith
<1> HIDE DEF rest
<1>4. QED
  BY <1>1, <1>2, <1>3

LEMMA GateAnswer ==
  ASSUME Types, NEW r \in Requests, Plain(req[r].answer), NEW answer, Plain(answer),
         Gate(r, answer)
  PROVE  Plain(req'[r].answer)
<1>1. CASE answer = Admitted
  BY <1>1 DEF Gate, Goes, Types, RequestTypes
<1>2. CASE answer # Admitted
  BY <1>2, ReplyAnswer DEF Gate
<1>3. QED  BY <1>1, <1>2

LEMMA ControlPlaneAnswer ==
  ASSUME Types, NEW r \in Requests, Plain(req[r].answer), NEW answer, Plain(answer),
         AsksControlPlane(r, answer)
  PROVE  Plain(req'[r].answer)
BY GateAnswer, ReplyAnswer, MostAnswersArePlain DEF AsksControlPlane

LEMMA WhoAnswersOtherwise ==
  ASSUME Types, PathInv, NEW r \in Requests, Works(r), ~Plain(req'[r].answer)
  PROVE  \/ DeleteEvaluationRow(r) \/ EraseRun(r) \/ RequestFails(r)
         \/ InsertRun(r) \/ InsertCases(r)
<1>1. req[r].answer = NoAnswer /\ Plain(req[r].answer)
  BY WorksEffect, PathOf, MostAnswersArePlain DEF Asked
<1>3. ASSUME IsEntitled(r) PROVE FALSE
  BY <1>1, <1>3, ControlPlaneAnswer, ReplyAnswer, MostAnswersArePlain DEF IsEntitled
<1>4. ASSUME IsMemberOfTeam(r) \/ PrepareTarget(r) PROVE FALSE
  BY <1>1, <1>4, ControlPlaneAnswer, MostAnswersArePlain DEF IsMemberOfTeam, PrepareTarget
<1>5. ASSUME LoadEvaluation(r) PROVE FALSE
  <2>1. \/ GoesWith(r, evaluations[req[r].target].team)
        \/ \E answer \in {Refused(404), EvaluationNotFound} : Reply(r, answer)
    BY <1>5 DEF LoadEvaluation, GoesWith
  <2>2. QED
    BY <1>1, <2>1, AnswerKept, ReplyAnswer, MostAnswersArePlain
<1>6. ASSUME LoadRun(r) PROVE FALSE
  <2>1. \/ GoesWith(r, runs[req[r].target].team)
        \/ \E answer \in {Refused(404), RunNotFound} : Reply(r, answer)
    BY <1>6 DEF LoadRun, GoesWith
  <2>2. QED
    BY <1>1, <2>1, AnswerKept, ReplyAnswer, MostAnswersArePlain
<1>7. ASSUME ResolveVersion(r) PROVE FALSE
  <2>1. \/ \E version : GoesWith(r, version)
        \/ \E answer \in {Refused(409), Admitted} : Gate(r, answer)
    BY <1>7 DEF ResolveVersion, GoesWith
  <2>2. QED
    BY <1>1, <2>1, AnswerKept, GateAnswer, MostAnswersArePlain
<1>8. ASSUME InsertEvaluation(r) \/ ListTeam(r) \/ ListMine(r) PROVE FALSE
  BY <1>8, ReplyAnswer, MostAnswersArePlain DEF InsertEvaluation, ListTeam, ListMine
<1>9. ASSUME ReadEvaluation(r) \/ ReadRun(r) PROVE FALSE
  <2>1. \E answer \in {Success(200), EvaluationNotFound, Refused(404)} : Reply(r, answer)
    BY <1>9 DEF ReadEvaluation, ReadRun
  <2>2. QED  BY <2>1, ReplyAnswer, MostAnswersArePlain
<1>10. ASSUME ListRunsToDelete(r) PROVE FALSE
  <2>1. \/ Reply(r, Refused(409))
        \/ GoesWith(r, RunsOfEvaluation(req[r].target))
    BY <1>10 DEF ListRunsToDelete, GoesWith
  <2>2. QED
    BY <1>1, <2>1, AnswerKept, ReplyAnswer, MostAnswersArePlain
<1>11. ASSUME DeleteListedRun(r) PROVE FALSE
  <2>1. PICK x \in req[r].listed : req' = [req EXCEPT ![r].listed = @ \ {x}]
    BY <1>11, DeleteListedEffect
  <2>2. QED
    BY <1>1, <2>1 DEF Types, RequestTypes
<1>12. ASSUME StartWorkflow(r) \/ CancelRun(r) PROVE FALSE
  BY <1>12, ReplyAnswer, MostAnswersArePlain DEF StartWorkflow, CancelRun
<1>13. ASSUME CheckCancel(r) \/ CheckDelete(r) PROVE FALSE
  <2>1. \E answer \in {Refused(404), Refused(409), Admitted} : Gate(r, answer)
    BY <1>13 DEF CheckCancel, CheckDelete
  <2>2. QED  BY <1>1, <2>1, GateAnswer, MostAnswersArePlain
<1>14. ASSUME FetchFromControlPlane(r) PROVE FALSE
  BY <1>14, ReplyAnswer, MostAnswersArePlain DEF FetchFromControlPlane
<1>15. QED
  BY <1>3, <1>4, <1>5, <1>6, <1>7, <1>8, <1>9, <1>10, <1>11, <1>12, <1>13, <1>14 DEF Works

-----------------------------------------------------------------------------
(* What a step leaves of a request, of an evaluation and of a run.         *)
LEMMA RequestStep ==
  ASSUME Types, PathInv, [Next]_vars, NEW q \in Requests
  PROVE  \/ req'[q] = req[q] /\ history'[q] = history[q]
         \/ /\ req[q] = NoRequest /\ UNCHANGED <<Rows, history>>
            /\ req'[q].owner = "none" /\ req'[q].listed = {}
            /\ Arrive(q) \/ Unauthenticated(q)
         \/ /\ Works(q) /\ req[q].todo # <<>> /\ req'[q] # NoRequest
            /\ req'[q].op = req[q].op /\ req'[q].user = req[q].user
            /\ req'[q].target = req[q].target
            /\ RangeOf(req'[q].todo) \subseteq RangeOf(req[q].todo)
<1>1. CASE UNCHANGED <<req, history>>
  BY <1>1
<1>2. ASSUME NEW r \in Requests, Arrive(r) \/ Unauthenticated(r), q # r
      PROVE  req'[q] = req[q] /\ history'[q] = history[q]
  BY <1>2, ArriveEffect, UnauthenticatedEffect
<1>3. CASE Arrive(q) \/ Unauthenticated(q)
  BY <1>3, ArriveEffect, UnauthenticatedEffect
<1>4. ASSUME NEW r \in Requests, Works(r), q # r
      PROVE  req'[q] = req[q] /\ history'[q] = history[q]
  BY <1>4, WorksEffect DEF Passes, Ends, Notes, Records, Types
<1>5. CASE Works(q)
  <2>1. req[q].todo # <<>> /\ req[q].op # "none" /\ req[q].todo \in Seq(Steps) /\ Ordered(req[q].todo)
    BY <1>5, WorksEffect, PathOf DEF Asked, Ops, EvaluationOps, RunOps, Types, RequestTypes
  <2>2. CASE Ends(q)
    <3>1. /\ req'[q].todo = <<>> /\ req'[q].op = req[q].op /\ req'[q].user = req[q].user
          /\ req'[q].target = req[q].target
      BY <2>2 DEF Ends
    <3>2. QED  BY <1>5, <2>1, <3>1, EmptyPath, NoRequestFacts
  <2>3. CASE Passes(q)
    <3>1. /\ req'[q].todo = Tail(req[q].todo) /\ req'[q].op = req[q].op /\ req'[q].user = req[q].user
          /\ req'[q].target = req[q].target
      BY <2>3 DEF Passes
    <3>2. QED  BY <1>5, <2>1, <3>1, TailFacts, NoRequestFacts
  <2>4. CASE \E x \in req[q].listed : req' = [req EXCEPT ![q].listed = @ \ {x}]
    <3>1. /\ req'[q].todo = req[q].todo /\ req'[q].op = req[q].op /\ req'[q].user = req[q].user
          /\ req'[q].target = req[q].target
      BY <2>4 DEF Types, RequestTypes
    <3>2. QED  BY <1>5, <2>1, <3>1, NoRequestFacts
  <2>5. QED
    BY <1>5, <2>2, <2>3, <2>4, WorksEffect
<1>6. QED
  BY <1>1, <1>2, <1>3, <1>4, <1>5, NextCases, WorkerEffect DEF vars

LEMMA EvaluationStep ==
  ASSUME Types, PathInv, [Next]_vars, NEW e \in Ids
  PROVE  \/ evaluations'[e] = evaluations[e]
         \/ e \in Requests /\ InsertEvaluation(e) /\ Works(e)
         \/ evaluations'[e] = NoRow /\ RunsOfEvaluation(e) = {} /\ UNCHANGED runs
<1>1. CASE UNCHANGED evaluations
  BY <1>1
<1>2. ASSUME NEW r \in Requests, Works(r), ~UNCHANGED evaluations
      PROVE  \/ evaluations'[e] = evaluations[e]
             \/ e \in Requests /\ InsertEvaluation(e) /\ Works(e)
             \/ evaluations'[e] = NoRow /\ RunsOfEvaluation(e) = {} /\ UNCHANGED runs
  <2>0. evaluations \in [Ids -> EvaluationRows \cup {NoRow}]
    BY DEF Types
  <2>1. CASE \E row \in EvaluationRows : InsertEvaluation(r) /\ evaluations' = [evaluations EXCEPT ![r] = row]
    BY <1>2, <2>0, <2>1
  <2>2. CASE DeleteEvaluationRow(r) /\ evaluations' = [evaluations EXCEPT ![req[r].target] = NoRow]
    BY <1>2, <2>0, <2>2, DeleteRowEffect
  <2>3. QED
    BY <1>2, <2>1, <2>2, RowsEffect
<1>3. QED
  BY <1>1, <1>2, NextCases, WorkerEffect, ArriveEffect, UnauthenticatedEffect DEF vars, Rows

LEMMA RunStep ==
  ASSUME Types, PathInv, [Next]_vars, NEW x \in Ids
  PROVE  \/ runs'[x] = runs[x]
         \/ runs'[x] = NoRow
         \/ x \in RunIds /\ SameOwner(runs'[x], runs[x])
         \/ x \in Requests /\ InsertRun(x) /\ Works(x) /\ ~UNCHANGED runs
<1> DEFINE Goal == \/ runs'[x] = runs[x]
                   \/ runs'[x] = NoRow
                   \/ x \in RunIds /\ SameOwner(runs'[x], runs[x])
                   \/ x \in Requests /\ InsertRun(x) /\ Works(x) /\ ~UNCHANGED runs
<1>0. runs \in [Ids -> RunRows \cup {NoRow}] /\ RunIds \subseteq Ids /\ \A y \in RunIds : runs[y] \in RunRows
  BY RowTypes DEF Types
<1>1. CASE UNCHANGED runs
  BY <1>1
<1>2. CASE WorkerStep
  BY <1>0, <1>2, WorkerEffect
<1>3. ASSUME NEW r \in Requests, Works(r), ~UNCHANGED runs PROVE Goal
  <2>1. CASE \E y : runs' = [runs EXCEPT ![y] = NoRow]
    BY <1>0, <2>1
  <2>2. CASE \E row \in RunRows : InsertRun(r) /\ runs' = [runs EXCEPT ![r] = row]
    BY <1>0, <1>3, <2>2
  <2>3. CASE r \in RunIds /\ runs' = [runs EXCEPT ![r].cases = TRUE]
    BY <1>0, <2>3 DEF SameOwner, RunRows
  <2>4. CASE r \in RunIds /\ runs' = [runs EXCEPT ![r].work = "submitted"]
    BY <1>0, <2>4 DEF SameOwner, RunRows
  <2>5. CASE req[r].target \in RunIds /\ runs' = [runs EXCEPT ![req[r].target].state = "cancelled"]
    BY <1>0, <2>5 DEF SameOwner, RunRows
  <2>6. QED
    BY <1>3, <2>1, <2>2, <2>3, <2>4, <2>5, RowsEffect
<1> HIDE DEF Goal
<1>4. Goal
  BY <1>1, <1>2, <1>3, NextCases, ArriveEffect, UnauthenticatedEffect DEF vars, Rows, Goal
<1>5. QED  BY <1>4 DEF Goal

(* The ids whose row has been stored, or never will be: the request that   *)
(* stores it is past the step that does.                                   *)
Born ==
  {e \in Ids : e \in Requests => req[e] # NoRequest /\ "insert" \notin RangeOf(req[e].todo)}
RunBorn ==
  {x \in Ids : x \in Requests => req[x] # NoRequest /\ "insert_run" \notin RangeOf(req[x].todo)}

LEMMA BornStep ==
  ASSUME Types, PathInv, [Next]_vars
  PROVE  Born \subseteq Born' /\ RunBorn \subseteq RunBorn'
<1>1. ASSUME NEW e \in Ids
      PROVE  (e \in Born => e \in Born') /\ (e \in RunBorn => e \in RunBorn')
  <2>1. CASE e \in Requests
    BY <2>1, RequestStep DEF Born, RunBorn
  <2>2. CASE e \notin Requests
    BY <2>2 DEF Born, RunBorn
  <2>3. QED  BY <2>1, <2>2
<1>2. Born \subseteq Ids /\ RunBorn \subseteq Ids
  BY DEF Born, RunBorn
<1>3. QED  BY <1>1, <1>2

(* A request past its gates knows the team of the row it is about.         *)
LEMMA OwnerKnown ==
  ASSUME Types, PathInv, NEW r \in Requests, NEW step, At(r, step), step \notin Gates
  PROVE  /\ RangeOf(req[r].todo) \cap Gates = {} /\ Asked(req[r])
         /\ req[r].op \in EvaluationOps \cup RunOps => req[r].owner # "none"
<1>1. Later(step) \cap Gates = {}
  BY DEF Later, Gates, Steps
<1>2. Asked(req[r]) /\ RangeOf(req[r].todo) \cap Gates = {}
  BY <1>1, AtStep
<1>3. QED
  BY <1>2 DEF Asked, Gates

-----------------------------------------------------------------------------
(* What is stored, looked at or deleted has been born.                     *)
Knows(q, h, born, runBorn) ==
  /\ q.op \in EvaluationOps /\ (q.owner # "none" \/ q.answer = Success(204)) => q.target \in born
  /\ q.op \in RunOps /\ (q.owner # "none" \/ q.answer = Success(204)) => q.target \in runBorn
  /\ q.answer = Success(204) => q.op \in {"deleteEvaluation", "deleteRun"}
  /\ q.listed \cup h.known \subseteq runBorn
  /\ h.saw \subseteq born

BirthInv ==
  /\ EvaluationIds \subseteq Born /\ RunIds \subseteq RunBorn
  /\ \A r \in Requests : Knows(req[r], history[r], Born, RunBorn)

(* Who answers a 204 knows the row.                                        *)
LEMMA DeletedKnown ==
  ASSUME Types, PathInv, NEW r \in Requests, Works(r), req'[r].answer = Success(204)
  PROVE  /\ req[r].op \in {"deleteEvaluation", "deleteRun"} /\ req[r].owner # "none"
         /\ DeleteEvaluationRow(r) \/ EraseRun(r)
<1>1. ~Plain(req'[r].answer) /\ Success(204) # ServerError /\ NoAnswer # Success(204)
  BY MostAnswersArePlain DEF Plain
<1>2. CASE DeleteEvaluationRow(r)
  <2>1. At(r, "cascade")
    BY <1>2, DeleteRowEffect
  <2>2. req[r].op = "deleteEvaluation"
    BY <2>1, AtStep, OpOfStep
  <2>3. QED
    BY <1>2, <2>1, <2>2, OwnerKnown DEF Gates, EvaluationOps
<1>3. CASE EraseRun(r)
  <2>1. At(r, "delete")
    BY <1>3, EraseRunEffect
  <2>2. req[r].op = "deleteRun"
    BY <2>1, AtStep, OpOfStep
  <2>3. QED
    BY <1>3, <2>1, <2>2, OwnerKnown DEF Gates, RunOps
<1>4. ASSUME RequestFails(r) PROVE FALSE
  BY <1>1, <1>4, FailEffect
<1>5. ASSUME InsertRun(r) \/ InsertCases(r) PROVE FALSE
  <2>1. Goes(r) \/ Reply(r, ServerError)
    BY <1>5 DEF InsertRun, InsertCases
  <2>2. req[r].answer = NoAnswer
    BY WorksEffect, PathOf DEF Asked
  <2>3. CASE Goes(r)
    BY <1>1, <2>2, <2>3 DEF Goes, Types, RequestTypes
  <2>4. QED  BY <1>1, <2>1, <2>3, ReplyAnswer
<1>6. QED
  BY <1>1, <1>2, <1>3, <1>4, <1>5, WhoAnswersOtherwise

(* What a request that works learns: the team of a row that is there, the  *)
(* runs and the evaluations there are.                                     *)
LEMMA LearntEffect ==
  ASSUME Types, PathInv, NEW r \in Requests, Works(r)
  PROVE  /\ \/ req'[r].owner \in {"none", req[r].owner}
            \/ /\ req[r].op \in EvaluationOps /\ req[r].target \in EvaluationIds
               /\ req'[r].owner = evaluations[req[r].target].team /\ UNCHANGED Rows
            \/ /\ req[r].op \in RunOps /\ req[r].target \in RunIds
               /\ req'[r].owner = runs[req[r].target].team /\ UNCHANGED Rows
         /\ \/ req'[r].listed \subseteq req[r].listed
            \/ /\ ListRunsToDelete(r) /\ Passes(r)
               /\ req'[r].listed = RunsOfEvaluation(req[r].target)
         /\ \/ history'[r].known = history[r].known
            \/ ListRunsToDelete(r) /\ history'[r].known = RunsOfEvaluation(req[r].target)
         /\ \/ history'[r].saw = history[r].saw
            \/ ResolveVersion(r) /\ history'[r].saw = EvaluationIds
<1>1. \/ req'[r].owner \in {"none", req[r].owner}
      \/ /\ req[r].op \in EvaluationOps /\ req[r].target \in EvaluationIds
         /\ req'[r].owner = evaluations[req[r].target].team /\ UNCHANGED Rows
      \/ /\ req[r].op \in RunOps /\ req[r].target \in RunIds
         /\ req'[r].owner = runs[req[r].target].team /\ UNCHANGED Rows
  <2>1. CASE Passes(r)
    BY <2>1, OwnerEffect, AtStep, OpOfStep
  <2>2. CASE Ends(r)
    BY <2>2 DEF Ends
  <2>3. CASE \E x \in req[r].listed : req' = [req EXCEPT ![r].listed = @ \ {x}]
    BY <2>3 DEF Types, RequestTypes
  <2>4. QED  BY <2>1, <2>2, <2>3, WorksEffect
<1>2. CASE ResolveVersion(r)
  <2>1. EvaluationIds \in SUBSET Ids
    BY DEF EvaluationIds
  <2>2. history'[r].saw = EvaluationIds /\ history'[r].known = history[r].known
    BY <1>2, <2>1, ResolveVersionEffect, NotesEffect
  <2>3. req'[r].listed \subseteq req[r].listed
    BY <1>2, ResolveVersionEffect DEF Ends
  <2>4. QED  BY <1>1, <1>2, <2>2, <2>3
<1>3. CASE ListRunsToDelete(r)
  <2>1. RunsOfEvaluation(req[r].target) \in SUBSET Ids
    BY DEF RunsOfEvaluation, RunIds
  <2>2. /\ history'[r].saw = history[r].saw
        /\ history'[r].known = RunsOfEvaluation(req[r].target)
    BY <1>3, <2>1, ListRunsEffect, NotesEffect
  <2>3. \/ req'[r].listed \subseteq req[r].listed
        \/ Passes(r) /\ req'[r].listed = RunsOfEvaluation(req[r].target)
    BY <1>3, ListRunsEffect DEF Ends
  <2>4. QED  BY <1>1, <1>3, <2>2, <2>3
<1>4. CASE ~ResolveVersion(r) /\ ~ListRunsToDelete(r)
  <2> DEFINE Same == /\ history'[r].known = history[r].known /\ history'[r].saw = history[r].saw
                     /\ req'[r].listed \subseteq req[r].listed
  <2>0. /\ Ends(r) => req'[r].listed \subseteq req[r].listed
        /\ Keeps(r) => req'[r].listed \subseteq req[r].listed
        /\ UNCHANGED history \/ (\E rows, changed : Records(r, rows, changed))
             => history'[r].known = history[r].known /\ history'[r].saw = history[r].saw
    BY DEF Ends, Keeps, Records
  <2>1. CASE IsEntitled(r) \/ IsMemberOfTeam(r) \/ LoadEvaluation(r) \/ LoadRun(r) \/ PrepareTarget(r)
    <3>1. Same
      BY <2>0, <2>1, EntitledEffect, MemberEffect, LoadEvaluationEffect, LoadRunEffect, PrepareEffect
    <3>2. QED  BY <1>1, <3>1
  <2>2. CASE InsertEvaluation(r) \/ ListTeam(r) \/ ListMine(r) \/ ReadEvaluation(r) \/ ReadRun(r)
    <3>1. Same
      <4>1. CASE InsertEvaluation(r)
        BY <2>0, <4>1, InsertEvaluationEffect
      <4>2. CASE ListTeam(r)
        BY <2>0, <4>2, ListTeamEffect
      <4>3. CASE ListMine(r)
        BY <2>0, <4>3, ListMineEffect
      <4>4. CASE ReadEvaluation(r)
        BY <2>0, <4>4, ReadEvaluationEffect
      <4>5. CASE ReadRun(r)
        BY <2>0, <4>5, ReadRunEffect
      <4>6. QED  BY <2>2, <4>1, <4>2, <4>3, <4>4, <4>5
    <3>2. QED  BY <1>1, <3>1
  <2>3. CASE DeleteListedRun(r)
    <3>1. PICK x \in req[r].listed : Erased(r, x) /\ req' = [req EXCEPT ![r].listed = @ \ {x}]
      BY <2>3, DeleteListedEffect
    <3>2. req'[r].listed \subseteq req[r].listed
      BY <3>1 DEF Types, RequestTypes
    <3>3. Same
      BY <2>0, <3>1, <3>2 DEF Erased
    <3>4. QED  BY <1>1, <3>3
  <2>4. CASE DeleteEvaluationRow(r) \/ EraseRun(r)
    <3>1. Same
      BY <2>0, <2>4, DeleteRowEffect, EraseRunEffect DEF Erased
    <3>2. QED  BY <1>1, <3>1
  <2>5. CASE InsertRun(r) \/ InsertCases(r) \/ StartWorkflow(r)
    <3>1. Same
      BY <2>0, <2>5, InsertRunEffect, InsertCasesEffect, StartEffect
    <3>2. QED  BY <1>1, <3>1
  <2>6. CASE CheckCancel(r) \/ CheckDelete(r) \/ CancelRun(r)
    <3>1. Same
      BY <2>0, <2>6, CheckEffect, CancelEffect
    <3>2. QED  BY <1>1, <3>1
  <2>7. CASE FetchFromControlPlane(r) \/ RequestFails(r)
    <3>1. Same
      BY <2>0, <2>7, FetchEffect, FailEffect
    <3>2. QED  BY <1>1, <3>1
  <2>8. QED
    BY <1>4, <2>1, <2>2, <2>3, <2>4, <2>5, <2>6, <2>7 DEF Works
<1>5. QED  BY <1>2, <1>3, <1>4

LEMMA KnowsStep ==
  ASSUME Types, PathInv, BirthInv, [Next]_vars, NEW r \in Requests
  PROVE  Knows(req'[r], history'[r], Born', RunBorn')
<1> DEFINE q == req[r]  p == req'[r]  h == history[r]  k == history'[r]
<1>1. Born \subseteq Born' /\ RunBorn \subseteq RunBorn'
  BY BornStep
<1>2. /\ Knows(q, h, Born, RunBorn)
      /\ EvaluationIds \subseteq Born /\ RunIds \subseteq RunBorn
  BY DEF BirthInv
<1>3. CASE p = q /\ k = h
  BY <1>1, <1>2, <1>3 DEF Knows
<1>4. CASE /\ UNCHANGED history /\ p.owner = "none" /\ p.listed = {}
           /\ Arrive(r) \/ Unauthenticated(r)
  <2>1. p.answer # Success(204)
    <3>1. CASE Arrive(r)
      BY <3>1, ArriveEffect, MostAnswersArePlain DEF Plain
    <3>2. CASE Unauthenticated(r)
      <4>1. \E status \in {401, 403} : p.answer = NormalizeUnstructuredAuthError(Refused(status))
        BY <3>2, NoRequestFacts DEF Unauthenticated, Types, RequestTypes
      <4>2. QED  BY <4>1, MostAnswersArePlain DEF Plain
    <3>3. QED  BY <1>4, <3>1, <3>2
  <2>2. QED
    BY <1>1, <1>2, <1>4, <2>1 DEF Knows
<1>5. CASE Works(r) /\ p.op = q.op /\ p.target = q.target
  <2>1. /\ RunsOfEvaluation(q.target) \subseteq RunIds
        /\ p.listed \subseteq q.listed \cup RunIds /\ k.known \subseteq h.known \cup RunIds
        /\ k.saw \subseteq h.saw \cup EvaluationIds
    BY <1>5, LearntEffect DEF RunsOfEvaluation
  <2>2. /\ p.owner # "none" /\ p.owner # q.owner /\ p.op \in EvaluationOps => p.target \in EvaluationIds
        /\ p.owner # "none" /\ p.owner # q.owner /\ p.op \in RunOps => p.target \in RunIds
    BY <1>5, LearntEffect DEF EvaluationOps, RunOps
  <2>3. p.answer = Success(204) => q.op \in {"deleteEvaluation", "deleteRun"} /\ q.owner # "none"
    BY <1>5, DeletedKnown
  <2>4. QED
    BY <1>1, <1>2, <1>5, <2>1, <2>2, <2>3 DEF Knows
<1>6. QED
  BY <1>3, <1>4, <1>5, RequestStep DEF Rows

LEMMA BirthStep ==
  ASSUME Types, PathInv, BirthInv, [Next]_vars
  PROVE  BirthInv'
<1>1. EvaluationIds' \subseteq Born'
  <2>1. ASSUME NEW e \in Ids, evaluations'[e] # NoRow PROVE e \in Born'
    <3>1. CASE evaluations'[e] = evaluations[e]
      BY <2>1, <3>1, BornStep DEF BirthInv, EvaluationIds
    <3>2. CASE e \in Requests /\ InsertEvaluation(e) /\ Works(e)
      <4>1. Ends(e)
        BY <3>2, InsertEvaluationEffect
      <4>2. req'[e].todo = <<>> /\ req'[e].answer # NoAnswer
        BY <4>1, AnswersAreErrors DEF Ends
      <4>3. QED  BY <4>2, EmptyPath, NoRequestFacts DEF Born
    <3>3. QED  BY <2>1, <3>1, <3>2, EvaluationStep
  <2>2. QED  BY <2>1 DEF EvaluationIds
<1>2. RunIds' \subseteq RunBorn'
  <2>1. ASSUME NEW x \in Ids, runs'[x] # NoRow PROVE x \in RunBorn'
    <3>1. CASE runs[x] # NoRow
      BY <3>1, BornStep DEF BirthInv, RunIds
    <3>2. CASE x \in Requests /\ InsertRun(x) /\ Works(x) /\ ~UNCHANGED runs
      <4>1. Passes(x) /\ At(x, "insert_run")
        BY <3>2, InsertRunEffect
      <4>2. req'[x].todo = Tail(req[x].todo) /\ req'[x].op = req[x].op
        BY <4>1 DEF Passes
      <4>3. req[x].op = "start" /\ RangeOf(Tail(req[x].todo)) \subseteq Later("insert_run")
        BY <3>2, <4>1, AtStep, OpOfStep
      <4>4. "insert_run" \notin Later("insert_run")
        BY DEF Later
      <4>5. QED  BY <4>2, <4>3, <4>4, NoRequestFacts DEF RunBorn
    <3>3. QED  BY <2>1, <3>1, <3>2, RunStep DEF RunIds
  <2>2. QED  BY <2>1 DEF RunIds
<1>3. QED
  BY <1>1, <1>2, KnowsStep DEF BirthInv

(* A row that was stored is not stored again, and keeps its owner.         *)
LEMMA BornRowKept ==
  ASSUME Types, PathInv, BirthInv, [Next]_vars
  PROVE  /\ \A e \in Born : evaluations'[e] = evaluations[e] \/ evaluations'[e] = NoRow
         /\ \A x \in RunBorn : \/ runs'[x] = NoRow
                               \/ runs[x] # NoRow /\ SameOwner(runs'[x], runs[x])
<1>1. ASSUME NEW e \in Born PROVE evaluations'[e] = evaluations[e] \/ evaluations'[e] = NoRow
  <2>1. ASSUME e \in Requests, InsertEvaluation(e), Works(e) PROVE FALSE
    <3>1. At(e, "insert")
      BY <2>1, InsertEvaluationEffect
    <3>2. "insert" \in RangeOf(req[e].todo)
      BY <2>1, <3>1, AtStep
    <3>3. QED  BY <2>1, <3>2 DEF Born
  <2>2. e \in Ids
    BY DEF Born
  <2>3. QED  BY <2>1, <2>2, EvaluationStep
<1>2. ASSUME NEW x \in RunBorn
      PROVE  runs'[x] = NoRow \/ (runs[x] # NoRow /\ SameOwner(runs'[x], runs[x]))
  <2>1. ASSUME x \in Requests, InsertRun(x), Works(x) PROVE FALSE
    <3>1. At(x, "insert_run")
      BY <2>1, InsertRunEffect
    <3>2. "insert_run" \in RangeOf(req[x].todo)
      BY <2>1, <3>1, AtStep
    <3>3. QED  BY <2>1, <3>2 DEF RunBorn
  <2>2. x \in Ids
    BY DEF RunBorn
  <2>3. CASE runs'[x] = runs[x]
    BY <2>3 DEF SameOwner
  <2>4. QED  BY <2>1, <2>2, <2>3, RunStep DEF RunIds
<1>3. QED  BY <1>1, <1>2

-----------------------------------------------------------------------------
(* Who owns what: a run belongs to the team of its evaluation, which is    *)
(* there, and the team a request has learnt is that of the row it is about *)
(* for as long as there is one.                                            *)
Owned(q, evals, rows) ==
  /\ q.op \in EvaluationOps /\ q.owner # "none" /\ evals[q.target] # NoRow
       => evals[q.target].team = q.owner
  /\ q.op \in RunOps /\ q.owner # "none" /\ rows[q.target] # NoRow
       => rows[q.target].team = q.owner
  /\ q.listed # {} => q.op = "deleteEvaluation" /\ q.owner # "none"
  /\ \A x \in q.listed : rows[x] # NoRow => rows[x].evaluation = q.target

OwnerInv ==
  /\ \A x \in RunIds : /\ runs[x].evaluation \in EvaluationIds
                       /\ evaluations[runs[x].evaluation].team = runs[x].team
  /\ \A r \in Requests : Owned(req[r], evaluations, runs)

LEMMA ForeignKeyStep ==
  ASSUME Types, PathInv, BirthInv, OwnerInv, [Next]_vars, NEW x \in RunIds'
  PROVE  /\ runs'[x].evaluation \in EvaluationIds'
         /\ evaluations'[runs'[x].evaluation].team = runs'[x].team
<1>0. x \in Ids /\ runs'[x] # NoRow
  BY DEF RunIds
<1>1. ASSUME NEW e \in EvaluationIds, evaluations'[e] = NoRow, ~UNCHANGED evaluations
      PROVE  RunsOfEvaluation(e) = {} /\ UNCHANGED runs
  <2>1. e \in Ids /\ evaluations[e] # NoRow
    BY DEF EvaluationIds
  <2>2. ASSUME e \in Requests, InsertEvaluation(e) PROVE FALSE
    <3>1. PICK row \in EvaluationRows : evaluations' = [evaluations EXCEPT ![e] = row]
      BY <2>2, InsertEvaluationEffect
    <3>2. QED
      BY <1>1, <2>1, <3>1, SeedAssumption DEF Types
  <2>3. QED  BY <1>1, <2>1, <2>2, EvaluationStep
<1>2. CASE runs[x] # NoRow /\ SameOwner(runs'[x], runs[x])
  <2> DEFINE e == runs[x].evaluation
  <2>1. x \in RunIds /\ e \in EvaluationIds /\ evaluations[e].team = runs[x].team
    BY <1>0, <1>2 DEF OwnerInv, RunIds
  <2>2. runs'[x].evaluation = e /\ runs'[x].team = runs[x].team
    BY <1>2 DEF SameOwner
  <2>3. e \in Born /\ e \in Ids /\ evaluations[e] # NoRow
    BY <2>1 DEF BirthInv, EvaluationIds
  <2>4. x \in RunsOfEvaluation(e)
    BY <2>1 DEF RunsOfEvaluation
  <2>5. evaluations'[e] = evaluations[e]
    BY <1>1, <2>1, <2>3, <2>4, BornRowKept
  <2> HIDE DEF e
  <2>6. QED
    BY <2>1, <2>2, <2>3, <2>5 DEF EvaluationIds
<1>3. CASE x \in Requests /\ InsertRun(x) /\ Works(x) /\ ~UNCHANGED runs
  <2> DEFINE row == [evaluation |-> req[x].target, team |-> req[x].team, by |-> req[x].user,
                     state |-> "pending", cases |-> FALSE, work |-> "none"]
  <2>1. /\ At(x, "insert_run") /\ UNCHANGED evaluations
        /\ req[x].target \in EvaluationIds /\ runs' = [runs EXCEPT ![x] = row]
    BY <1>3, InsertRunEffect
  <2>2. req[x].op = "start"
    BY <1>3, <2>1, AtStep, OpOfStep
  <2>3. NamesATeam(req[x].op, req[x].surface) /\ req[x].op \in EvaluationOps
    BY <2>2 DEF NamesATeam, EvaluationOps
  <2>4. req[x].owner # "none" /\ req[x].owner = req[x].team
    BY <1>3, <2>1, <2>3, OwnerKnown DEF Gates, Asked
  <2>5. evaluations[req[x].target].team = req[x].team
    BY <1>3, <2>1, <2>3, <2>4 DEF OwnerInv, Owned, EvaluationIds
  <2>6. row.evaluation = req[x].target /\ row.team = req[x].team
    OBVIOUS
  <2>7. runs'[x] = row
    BY <1>0, <2>1 DEF Types
  <2> HIDE DEF row
  <2>8. QED
    BY <2>1, <2>5, <2>6, <2>7 DEF EvaluationIds
<1>4. x \in RunBorn => runs[x] # NoRow /\ SameOwner(runs'[x], runs[x])
  BY <1>0, BornRowKept
<1>5. runs[x] # NoRow => x \in RunBorn
  BY <1>0 DEF BirthInv, RunIds
<1>6. QED
  BY <1>0, <1>2, <1>3, <1>4, <1>5, RunStep DEF RunIds

LEMMA OwnedStep ==
  ASSUME Types, PathInv, BirthInv, OwnerInv, [Next]_vars, NEW r \in Requests
  PROVE  Owned(req'[r], evaluations', runs')
<1> DEFINE q == req[r]  p == req'[r]
<1>1. Owned(q, evaluations, runs) /\ Knows(q, history[r], Born, RunBorn)
  BY DEF OwnerInv, BirthInv
<1>2. /\ \A e \in Born : evaluations'[e] = evaluations[e] \/ evaluations'[e] = NoRow
      /\ \A x \in RunBorn : \/ runs'[x] = NoRow
                            \/ runs[x] # NoRow /\ SameOwner(runs'[x], runs[x])
  BY BornRowKept
<1>3. CASE p = q
  BY <1>1, <1>2, <1>3 DEF Owned, Knows, SameOwner
<1>4. CASE p.owner = "none" /\ p.listed = {}
  BY <1>4 DEF Owned
<1>5. CASE Passes(r) /\ Works(r) /\ p.op = q.op /\ p.target = q.target
  <2>1. PICK step :
          /\ At(r, step)
          /\ \/ step \notin {"evaluation", "run"} /\ p.owner = q.owner
             \/ /\ step = "evaluation" /\ q.target \in EvaluationIds
                /\ p.owner = evaluations[q.target].team /\ UNCHANGED Rows
             \/ /\ step = "run" /\ q.target \in RunIds
                /\ p.owner = runs[q.target].team /\ UNCHANGED Rows
          /\ step \in {"evaluation", "run"} => p.owner # "none"
    BY <1>5, OwnerEffect
  <2>2. /\ step = "evaluation" => q.op \in EvaluationOps
        /\ step = "run" => q.op \in RunOps
    BY <2>1, AtStep, OpOfStep
  <2>3. EvaluationOps \cap RunOps = {}
    BY DEF EvaluationOps, RunOps
  <2>4. /\ p.op \in EvaluationOps /\ p.owner # "none" /\ evaluations'[p.target] # NoRow
             => evaluations'[p.target].team = p.owner
        /\ p.op \in RunOps /\ p.owner # "none" /\ runs'[p.target] # NoRow
             => runs'[p.target].team = p.owner
    <3>1. CASE p.owner = q.owner
      BY <1>1, <1>2, <1>5, <3>1 DEF Owned, Knows, SameOwner
    <3>2. CASE p.owner # q.owner
      BY <1>5, <2>1, <2>2, <2>3, <3>2 DEF Rows
    <3>3. QED  BY <3>1, <3>2
  <2>5. CASE p.listed \subseteq q.listed
    <3>1. p.listed # {} => p.op = "deleteEvaluation" /\ p.owner # "none"
      BY <1>1, <1>5, <2>1, <2>5 DEF Owned
    <3>2. ASSUME NEW x \in p.listed, runs'[x] # NoRow PROVE runs'[x].evaluation = p.target
      BY <1>1, <1>2, <1>5, <2>5, <3>2 DEF Owned, Knows, SameOwner
    <3>3. QED  BY <2>4, <3>1, <3>2 DEF Owned
  <2>6. CASE ListRunsToDelete(r) /\ p.listed = RunsOfEvaluation(q.target)
    <3>1. At(r, "list_runs") /\ UNCHANGED Rows
      BY <2>6, ListRunsEffect
    <3>2. q.op = "deleteEvaluation" /\ q.op \in EvaluationOps
      BY <3>1, AtStep, OpOfStep DEF EvaluationOps
    <3>3. q.owner # "none"
      BY <3>1, <3>2, OwnerKnown DEF Gates
    <3>4. p.owner = q.owner
      BY <2>1, <3>1 DEF At
    <3>5. \A x \in p.listed : runs'[x].evaluation = p.target
      BY <1>5, <2>6, <3>1 DEF RunsOfEvaluation, Rows
    <3>6. QED  BY <1>5, <2>4, <3>2, <3>3, <3>4, <3>5 DEF Owned
  <2>7. QED
    BY <1>5, <2>5, <2>6, LearntEffect
<1>6. CASE \E x \in q.listed : req' = [req EXCEPT ![r].listed = @ \ {x}]
  <2>1. /\ p.op = q.op /\ p.owner = q.owner /\ p.target = q.target /\ p.listed \subseteq q.listed
    BY <1>6 DEF Types, RequestTypes
  <2>2. /\ p.op \in EvaluationOps /\ p.owner # "none" /\ evaluations'[p.target] # NoRow
             => evaluations'[p.target].team = p.owner
        /\ p.op \in RunOps /\ p.owner # "none" /\ runs'[p.target] # NoRow
             => runs'[p.target].team = p.owner
    BY <1>1, <1>2, <2>1 DEF Owned, Knows, SameOwner
  <2>3. p.listed # {} => p.op = "deleteEvaluation" /\ p.owner # "none"
    BY <1>1, <2>1 DEF Owned
  <2>4. ASSUME NEW x \in p.listed, runs'[x] # NoRow PROVE runs'[x].evaluation = p.target
    BY <1>1, <1>2, <2>1, <2>4 DEF Owned, Knows, SameOwner
  <2>5. QED  BY <2>2, <2>3, <2>4 DEF Owned
<1>7. Ends(r) => p.owner = "none" /\ p.listed = {}
  BY DEF Ends
<1>8. QED
  BY <1>3, <1>4, <1>5, <1>6, <1>7, RequestStep, WorksEffect

LEMMA OwnerStep ==
  ASSUME Types, PathInv, BirthInv, OwnerInv, [Next]_vars
  PROVE  OwnerInv'
BY ForeignKeyStep, OwnedStep DEF OwnerInv

-----------------------------------------------------------------------------
(* What a request that is past its gates was told by the Control Plane.    *)
Admits(q) ==
  q.todo # <<>> =>
    /\ q.surface = "hosted" /\ "entitled" \notin RangeOf(q.todo) => IsMember(q.user, q.team)
    /\ q.surface # "hosted" /\ q.op \notin {"start", "mine"} /\ "member" \notin RangeOf(q.todo)
         => /\ {"evaluation", "run"} \cap RangeOf(q.todo) = {}
            /\ IsMember(q.user, IF q.owner = "none" THEN q.team ELSE q.owner)

GateInv == \A r \in Requests : Admits(req[r])

LEMMA GateInvStep ==
  ASSUME Types, PathInv, GateInv, [Next]_vars, NEW r \in Requests
  PROVE  Admits(req'[r])
<1> DEFINE q == req[r]  p == req'[r]
<1>1. Admits(q)
  BY DEF GateInv
<1>2. CASE p = q
  BY <1>1, <1>2
<1>3. CASE p.todo = <<>>
  BY <1>3 DEF Admits
<1>4. CASE Arrive(r)
  BY <1>4, ArriveEffect DEF IsRoute, Gated, Admits
<1>5. CASE Passes(r) /\ Works(r)
  <2>1. PICK step :
          /\ At(r, step)
          /\ step \notin {"evaluation", "run"} => p.owner = q.owner
          /\ step = "entitled" => IsMember(q.user, q.team)
          /\ step = "member" => IsMember(q.user, TeamOfRequest(r))
    BY <1>5, OwnerEffect
  <2>2. /\ RangeOf(q.todo) = {step} \cup RangeOf(p.todo) /\ RangeOf(p.todo) \subseteq Later(step)
        /\ q.todo # <<>>
    BY <1>5, <2>1, AtStep DEF Passes
  <2>3. p.op = q.op /\ p.surface = q.surface /\ p.user = q.user /\ p.team = q.team
    BY <1>5 DEF Passes
  <2>4. Later("member") \cap {"evaluation", "run"} = {}
    BY DEF Later, Gates, Steps
  <2>5. CASE step = "member"
    BY <1>1, <2>1, <2>2, <2>3, <2>4, <2>5 DEF Admits, TeamOfRequest
  <2>6. CASE step # "member"
    BY <1>1, <2>1, <2>2, <2>3, <2>6 DEF Admits
  <2>7. QED  BY <2>5, <2>6
<1>6. CASE \E x \in q.listed : req' = [req EXCEPT ![r].listed = @ \ {x}]
  <2>1. /\ p.op = q.op /\ p.owner = q.owner /\ p.todo = q.todo /\ p.surface = q.surface
        /\ p.user = q.user /\ p.team = q.team
    BY <1>6 DEF Types, RequestTypes
  <2>2. QED  BY <1>1, <2>1 DEF Admits
<1>7. Ends(r) => p.todo = <<>>
  BY DEF Ends
<1>8. QED
  BY <1>2, <1>3, <1>4, <1>5, <1>6, <1>7, RequestStep, WorksEffect, UnauthenticatedEffect

(* So a row of the team of a request past its gates is of a team of the    *)
(* caller.                                                                 *)
LEMMA AdmittedToTeam ==
  ASSUME Types, PathInv, GateInv, NEW r \in Requests, NEW step, At(r, step), step \notin Gates,
         req[r].op \notin {"start", "mine"}
  PROVE  /\ req[r].owner # "none" => IsMember(req[r].user, req[r].owner)
         /\ req[r].op = "list" => IsMember(req[r].user, req[r].team)
<1>1. /\ RangeOf(req[r].todo) \cap Gates = {} /\ Asked(req[r]) /\ req[r].todo # <<>>
  BY OwnerKnown, AtStep
<1>2. Admits(req[r])
  BY DEF GateInv
<1>3. CASE req[r].surface = "hosted"
  <2>1. NamesATeam(req[r].op, req[r].surface) /\ "entitled" \notin RangeOf(req[r].todo)
    BY <1>1, <1>3 DEF NamesATeam, Gates
  <2>2. QED  BY <1>1, <1>2, <1>3, <2>1 DEF Admits, Asked
<1>4. CASE req[r].surface # "hosted"
  <2>1. "member" \notin RangeOf(req[r].todo)
    BY <1>1 DEF Gates
  <2>2. IsMember(req[r].user, IF req[r].owner = "none" THEN req[r].team ELSE req[r].owner)
    BY <1>1, <1>2, <1>4, <2>1 DEF Admits
  <2>3. req[r].op = "list" => req[r].owner \in {"none", req[r].team}
    BY <1>1 DEF Asked, NamesATeam, TeamOps
  <2>4. QED  BY <2>2, <2>3
<1>5. QED  BY <1>3, <1>4

-----------------------------------------------------------------------------
(* What a step reaches is of a team of the caller, or was created by him.  *)
Own(user, row) == IsMember(user, row.team) \/ row.by = user

LEMMA OwnRecords ==
  ASSUME NEW r \in Requests, NEW rows, NEW changed, Records(r, rows, changed),
         \A row \in rows : Own(req[r].user, row)
  PROVE  \A row \in history'[r].touched \ history[r].touched : Own(req[r].user, row)
<1>1. \A x : [team |-> x.team, by |-> x.by].team = x.team /\ [team |-> x.team, by |-> x.by].by = x.by
  OBVIOUS
<1>2. QED
  BY <1>1 DEF Records, Own

LEMMA OwnRecord ==
  ASSUME NEW r \in Requests, NEW row, NEW changed, Records(r, {row}, changed),
         Own(req[r].user, row)
  PROVE  \A seen \in history'[r].touched \ history[r].touched : Own(req[r].user, seen)
<1>1. \A each \in {row} : Own(req[r].user, each)
  OBVIOUS
<1> DEFINE rows == {row}
<1>2. Records(r, rows, changed) /\ \A each \in rows : Own(req[r].user, each)
  BY <1>1
<1> HIDE DEF rows
<1>3. QED
  BY <1>2, OwnRecords

LEMMA OwnErased ==
  ASSUME NEW r \in Requests, NEW x, Erased(r, x),
         x \in RunIds => IsMember(req[r].user, runs[x].team)
  PROVE  \A row \in history'[r].touched \ history[r].touched : Own(req[r].user, row)
<1>1. CASE x \in RunIds
  BY <1>1, OwnRecord DEF Erased, Own
<1>2. CASE x \notin RunIds
  BY <1>2 DEF Erased
<1>3. QED  BY <1>1, <1>2

LEMMA ReachEffect ==
  ASSUME Types, PathInv, OwnerInv, GateInv, NEW r \in Requests, Works(r)
  PROVE  \A row \in history'[r].touched \ history[r].touched : Own(req[r].user, row)
<1> DEFINE q == req[r]  t == req[r].target
           Goal == \A row \in history'[r].touched \ history[r].touched : Own(q.user, row)
<1>1. Owned(q, evaluations, runs)
  BY DEF OwnerInv
<1>2. /\ UNCHANGED history => Goal
      /\ Notes(r) => Goal
  BY DEF Notes
<1>3. ASSUME NEW step, At(r, step), step \notin Gates, q.op \in EvaluationOps \ {"start"}
      PROVE  /\ q.owner # "none" /\ IsMember(q.user, q.owner)
             /\ t \in EvaluationIds => Own(q.user, evaluations[t])
             /\ \A x \in RunsOfEvaluation(t) : IsMember(q.user, runs[x].team)
  <2>1. q.owner # "none" /\ IsMember(q.user, q.owner)
    BY <1>3, OwnerKnown, AdmittedToTeam DEF EvaluationOps
  <2>2. t \in EvaluationIds => evaluations[t].team = q.owner
    BY <1>1, <1>3, <2>1 DEF Owned, EvaluationIds
  <2>3. \A x \in RunsOfEvaluation(t) : t \in EvaluationIds /\ evaluations[t].team = runs[x].team
    BY DEF RunsOfEvaluation, OwnerInv
  <2>4. QED  BY <2>1, <2>2, <2>3 DEF Own
<1>4. ASSUME NEW step, At(r, step), step \notin Gates, q.op \in RunOps, t \in RunIds
      PROVE  IsMember(q.user, runs[t].team)
  <2>1. q.owner # "none" /\ IsMember(q.user, q.owner)
    BY <1>4, OwnerKnown, AdmittedToTeam DEF RunOps
  <2>2. QED  BY <1>1, <1>4, <2>1 DEF Owned, RunIds
<1>5. CASE IsEntitled(r) \/ IsMemberOfTeam(r) \/ LoadEvaluation(r) \/ LoadRun(r) \/ PrepareTarget(r)
           \/ InsertCases(r) \/ StartWorkflow(r) \/ CheckCancel(r) \/ CheckDelete(r)
           \/ FetchFromControlPlane(r) \/ RequestFails(r)
  <2>1. CASE IsEntitled(r) \/ IsMemberOfTeam(r) \/ LoadEvaluation(r) \/ LoadRun(r) \/ PrepareTarget(r)
    BY <1>2, <2>1, EntitledEffect, MemberEffect, LoadEvaluationEffect, LoadRunEffect, PrepareEffect
  <2>2. CASE InsertCases(r) \/ StartWorkflow(r) \/ CheckCancel(r) \/ CheckDelete(r)
             \/ FetchFromControlPlane(r) \/ RequestFails(r)
    BY <1>2, <2>2 DEF InsertCases, StartWorkflow, CheckCancel, CheckDelete, FetchFromControlPlane,
                      RequestFails
  <2>3. QED  BY <1>5, <2>1, <2>2
<1>6. CASE ResolveVersion(r) \/ ListRunsToDelete(r)
  <2>1. EvaluationIds \in SUBSET Ids /\ RunsOfEvaluation(t) \in SUBSET Ids
    BY DEF EvaluationIds, RunsOfEvaluation, RunIds
  <2>2. Notes(r)
    BY <1>6, <2>1, ResolveVersionEffect, ListRunsEffect, NotesEffect
  <2>3. QED  BY <1>2, <2>2
<1>7. CASE InsertEvaluation(r)
  <2> DEFINE row == [team |-> q.team, name |-> q.name, version |-> q.version, by |-> q.user]
  <2>1. Records(r, {row}, TRUE) /\ Own(q.user, row)
    BY <1>7, InsertEvaluationEffect DEF Own
  <2> HIDE DEF row
  <2>2. QED
    BY <2>1, OwnRecord
<1>8. CASE InsertRun(r)
  <2> DEFINE row == [evaluation |-> t, team |-> q.team, by |-> q.user,
                     state |-> "pending", cases |-> FALSE, work |-> "none"]
  <2>1. UNCHANGED history \/ Records(r, {row}, TRUE)
    BY <1>8, InsertRunEffect
  <2>2. Own(q.user, row)
    BY DEF Own
  <2> HIDE DEF row
  <2>3. QED
    BY <1>2, <2>1, <2>2, OwnRecord
<1>9. CASE ListTeam(r)
  <2>1. At(r, "list")
    BY <1>9, ListTeamEffect
  <2>2. q.op = "list"
    BY <2>1, AtStep, OpOfStep
  <2>3. IsMember(q.user, q.team)
    BY <2>1, <2>2, AdmittedToTeam DEF Gates
  <2>4. QED
    BY <1>9, <2>3, ListTeamEffect, OwnRecords DEF Own
<1>10. CASE ListMine(r)
  BY <1>10, ListMineEffect, OwnRecords DEF Own
<1>11. CASE ReadEvaluation(r)
  <2>1. At(r, "read_evaluation")
    BY <1>11, ReadEvaluationEffect
  <2>2. q.op = "readEvaluation"
    BY <2>1, AtStep, OpOfStep
  <2>3. /\ t \in EvaluationIds => Own(q.user, evaluations[t])
        /\ \A x \in RunsOfEvaluation(t) : IsMember(q.user, runs[x].team)
    BY <1>3, <2>1, <2>2 DEF Gates, EvaluationOps
  <2>4. \A row \in {runs[x] : x \in RunsOfEvaluation(t)} : Own(q.user, row)
    BY <2>3 DEF Own
  <2>5. QED
    BY <1>2, <1>11, <2>3, <2>4, ReadEvaluationEffect, OwnRecords, OwnRecord
<1>12. CASE ReadRun(r)
  <2>1. At(r, "read_run")
    BY <1>12, ReadRunEffect
  <2>2. q.op = "readRun"
    BY <2>1, AtStep, OpOfStep
  <2>3. t \in RunIds => Own(q.user, runs[t])
    BY <1>4, <2>1, <2>2 DEF Gates, RunOps, Own
  <2>4. QED
    BY <1>2, <1>12, <2>3, ReadRunEffect, OwnRecord
<1>13. CASE CancelRun(r) \/ EraseRun(r)
  <2>1. At(r, "cancel") \/ At(r, "delete")
    BY <1>13, CancelEffect, EraseRunEffect
  <2>2. q.op \in {"cancelRun", "deleteRun"}
    BY <2>1, AtStep, OpOfStep
  <2>3. t \in RunIds => IsMember(q.user, runs[t].team)
    BY <1>4, <2>1, <2>2 DEF Gates, RunOps
  <2>4. CASE CancelRun(r)
    BY <1>2, <2>3, <2>4, CancelEffect, OwnRecord DEF Own
  <2>5. CASE EraseRun(r)
    BY <2>3, <2>5, EraseRunEffect, OwnErased
  <2>6. QED  BY <1>13, <2>4, <2>5
<1>14. CASE DeleteListedRun(r) \/ DeleteEvaluationRow(r)
  <2>1. At(r, "cascade")
    BY <1>14, DeleteListedEffect, DeleteRowEffect
  <2>2. q.op = "deleteEvaluation"
    BY <2>1, AtStep, OpOfStep
  <2>3. /\ t \in EvaluationIds => Own(q.user, evaluations[t])
        /\ \A x \in RunsOfEvaluation(t) : IsMember(q.user, runs[x].team)
    BY <1>3, <2>1, <2>2 DEF Gates, EvaluationOps
  <2>4. CASE DeleteEvaluationRow(r)
    BY <1>2, <2>3, <2>4, DeleteRowEffect, OwnRecord
  <2>5. CASE DeleteListedRun(r)
    <3>1. PICK x \in q.listed : Erased(r, x)
      BY <2>5, DeleteListedEffect
    <3>2. x \in RunIds => x \in RunsOfEvaluation(t)
      BY <1>1 DEF Owned, RunIds, RunsOfEvaluation
    <3>3. QED  BY <2>3, <3>1, <3>2, OwnErased
  <2>6. QED  BY <1>14, <2>4, <2>5
<1>15. QED
  BY <1>5, <1>6, <1>7, <1>8, <1>9, <1>10, <1>11, <1>12, <1>13, <1>14 DEF Works

LEMMA OwnTeamStep ==
  ASSUME Types, PathInv, OwnerInv, GateInv, OnlyOwnTeamIsReached, [Next]_vars
  PROVE  OnlyOwnTeamIsReached'
<1>1. ASSUME NEW r \in Requests, NEW row \in history'[r].touched
      PROVE  IsMember(req'[r].user, row.team) \/ row.by = req'[r].user
  <2>1. CASE req'[r] = req[r] /\ history'[r] = history[r]
    BY <1>1, <2>1 DEF OnlyOwnTeamIsReached
  <2>2. CASE req[r] = NoRequest /\ UNCHANGED history
    <3>1. history[r].touched = {}
      BY <2>2, PathOf DEF NoHistory
    <3>2. QED  BY <1>1, <2>2, <3>1
  <2>3. CASE Works(r) /\ req'[r].user = req[r].user
    BY <1>1, <2>3, ReachEffect DEF Own, OnlyOwnTeamIsReached
  <2>4. QED
    BY <2>1, <2>2, <2>3, RequestStep
<1>2. QED
  BY <1>1 DEF OnlyOwnTeamIsReached, IsMember

-----------------------------------------------------------------------------
(* A deleted row stays away.                                               *)
LEMMA DeletedStep ==
  ASSUME Types, PathInv, BirthInv, OwnerInv, DeletedIsGone, [Next]_vars
  PROVE  DeletedIsGone'
<1>1. ASSUME NEW r \in Requests, req'[r].answer = Success(204)
      PROVE  IF req'[r].op = "deleteEvaluation"
             THEN /\ req'[r].target \notin EvaluationIds'
                  /\ \A x \in RunIds' : runs'[x].evaluation # req'[r].target
             ELSE req'[r].target \notin RunIds'
  <2> DEFINE t == req'[r].target
  <2>1. \A x \in RunIds' : runs'[x].evaluation \in EvaluationIds'
    BY ForeignKeyStep
  <2>2. CASE req'[r] = req[r]
    <3>1. Knows(req[r], history[r], Born, RunBorn)
      BY DEF BirthInv
    <3>2. CASE req[r].op = "deleteEvaluation"
      <4>1. t \in Born /\ t \notin EvaluationIds
        BY <1>1, <2>2, <3>1, <3>2 DEF Knows, EvaluationOps, DeletedIsGone
      <4>2. t \notin EvaluationIds'
        BY <4>1, BornRowKept DEF EvaluationIds, Born
      <4>3. QED  BY <2>1, <2>2, <3>2, <4>2
    <3>3. CASE req[r].op # "deleteEvaluation"
      <4>1. t \in RunBorn /\ t \notin RunIds
        BY <1>1, <2>2, <3>1, <3>3 DEF Knows, RunOps, DeletedIsGone
      <4>2. t \notin RunIds'
        BY <4>1, BornRowKept DEF RunIds, RunBorn
      <4>3. QED  BY <2>2, <3>3, <4>2
    <3>4. QED  BY <3>2, <3>3
  <2>3. ASSUME Arrive(r) \/ Unauthenticated(r) PROVE FALSE
    <3>1. Knows(req'[r], history'[r], Born', RunBorn')
      BY KnowsStep
    <3>2. req'[r].op \in {"deleteEvaluation", "deleteRun"}
      BY <1>1, <3>1 DEF Knows
    <3>3. ~Unauthenticated(r)
      BY <3>2, UnauthenticatedEffect
    <3>4. QED
      BY <1>1, <2>3, <3>3, ArriveEffect, MostAnswersArePlain DEF Plain
  <2>4. CASE Works(r) /\ req'[r].op = req[r].op /\ req'[r].target = req[r].target
    <3>1. CASE DeleteEvaluationRow(r)
      <4>0. req'[r].answer # ServerError
        BY <1>1, MostAnswersArePlain
      <4>1. At(r, "cascade")
        BY <3>1, DeleteRowEffect
      <4>2. evaluations' = [evaluations EXCEPT ![t] = NoRow]
        BY <2>4, <3>1, <4>0, DeleteRowEffect
      <4>3. req'[r].op = "deleteEvaluation"
        BY <2>4, <4>1, AtStep, OpOfStep
      <4>4. t \notin EvaluationIds'
        BY <4>2 DEF EvaluationIds, Types
      <4>5. QED  BY <2>1, <4>3, <4>4
    <3>2. CASE EraseRun(r)
      <4>1. At(r, "delete") /\ runs' = [runs EXCEPT ![t] = NoRow]
        BY <2>4, <3>2, EraseRunEffect DEF Erased
      <4>2. req'[r].op = "deleteRun"
        BY <2>4, <4>1, AtStep, OpOfStep
      <4>3. t \notin RunIds'
        BY <4>1 DEF RunIds, Types
      <4>4. QED  BY <4>2, <4>3
    <3>3. QED
      BY <1>1, <2>4, <3>1, <3>2, DeletedKnown
  <2>5. QED
    BY <2>2, <2>3, <2>4, RequestStep
<1>2. QED
  BY <1>1 DEF DeletedIsGone, RunsOfEvaluation, RunIds, EvaluationIds

-----------------------------------------------------------------------------
(* The last steps of a route.                                              *)
Staged(q) ==
  /\ q.op = "create" /\ "version" \notin RangeOf(q.todo) => RangeOf(q.todo) \subseteq {"insert"}
  /\ q.op = "deleteEvaluation" /\ "list_runs" \notin RangeOf(q.todo)
       => RangeOf(q.todo) \subseteq {"cascade"}
  /\ q.op = "start" /\ "insert_cases" \notin RangeOf(q.todo) => RangeOf(q.todo) \subseteq {"submit"}

StageInv == \A r \in Requests : Staged(req[r])

LEMMA StageStep ==
  ASSUME Types, PathInv, StageInv, [Next]_vars
  PROVE  StageInv'
<1>1. ASSUME NEW r \in Requests PROVE Staged(req'[r])
  <2> DEFINE q == req[r]  p == req'[r]
  <2>0. Staged(q)
    BY DEF StageInv
  <2>1. CASE p = q
    BY <2>0, <2>1
  <2>2. CASE p.todo = <<>>
    BY <2>2, EmptyPath DEF Staged
  <2>3. CASE Arrive(r)
    BY <2>3, ArriveEffect DEF IsRoute, Gated, Staged
  <2>4. CASE Passes(r) /\ Works(r)
    <3>1. PICK step : At(r, step)
      BY <2>4, OwnerEffect
    <3>2. /\ RangeOf(q.todo) = {step} \cup RangeOf(p.todo) /\ RangeOf(p.todo) \subseteq Later(step)
          /\ p.op = q.op
      BY <2>4, <3>1, AtStep DEF Passes
    <3>3. /\ Later("version") \subseteq {"insert"} /\ Later("list_runs") \subseteq {"cascade"}
          /\ Later("insert_cases") \subseteq {"submit"}
      BY DEF Later
    <3>4. QED  BY <2>0, <3>2, <3>3 DEF Staged
  <2>5. CASE \E x \in q.listed : req' = [req EXCEPT ![r].listed = @ \ {x}]
    <3>1. p.op = q.op /\ p.todo = q.todo
      BY <2>5 DEF Types, RequestTypes
    <3>2. QED  BY <2>0, <3>1 DEF Staged
  <2>6. Ends(r) => p.todo = <<>>
    BY DEF Ends
  <2>7. QED
    BY <2>1, <2>2, <2>3, <2>4, <2>5, <2>6, RequestStep, WorksEffect, UnauthenticatedEffect
<1>2. QED  BY <1>1 DEF StageInv

(* The first step of what is left decides which action the request takes.  *)
LEMMA WorksAt ==
  ASSUME NEW r
  PROVE  /\ IsEntitled(r) => At(r, "entitled")
         /\ IsMemberOfTeam(r) => At(r, "member")
         /\ LoadEvaluation(r) => At(r, "evaluation")
         /\ LoadRun(r) => At(r, "run")
         /\ ResolveVersion(r) => At(r, "version")
         /\ InsertEvaluation(r) => At(r, "insert")
         /\ ListTeam(r) => At(r, "list")
         /\ ListMine(r) => At(r, "mine")
         /\ ReadEvaluation(r) => At(r, "read_evaluation")
         /\ ReadRun(r) => At(r, "read_run")
         /\ ListRunsToDelete(r) => At(r, "list_runs")
         /\ DeleteListedRun(r) => At(r, "cascade")
         /\ DeleteEvaluationRow(r) => At(r, "cascade")
         /\ PrepareTarget(r) => At(r, "prepare")
         /\ InsertRun(r) => At(r, "insert_run")
         /\ InsertCases(r) => At(r, "insert_cases")
         /\ StartWorkflow(r) => At(r, "submit")
         /\ CheckCancel(r) => At(r, "check_cancel")
         /\ CancelRun(r) => At(r, "cancel")
         /\ CheckDelete(r) => At(r, "check_delete")
         /\ EraseRun(r) => At(r, "delete")
         /\ FetchFromControlPlane(r) => At(r, "fetch")
<1>1. /\ IsEntitled(r) => At(r, "entitled")
      /\ IsMemberOfTeam(r) => At(r, "member")
      /\ LoadEvaluation(r) => At(r, "evaluation")
      /\ LoadRun(r) => At(r, "run")
      /\ ResolveVersion(r) => At(r, "version")
      /\ InsertEvaluation(r) => At(r, "insert")
      /\ ListTeam(r) => At(r, "list")
      /\ ListMine(r) => At(r, "mine")
  BY DEF IsEntitled, IsMemberOfTeam, LoadEvaluation, LoadRun, ResolveVersion, InsertEvaluation,
         ListTeam, ListMine
<1>2. /\ ReadEvaluation(r) => At(r, "read_evaluation")
      /\ ReadRun(r) => At(r, "read_run")
      /\ ListRunsToDelete(r) => At(r, "list_runs")
      /\ DeleteListedRun(r) => At(r, "cascade")
      /\ DeleteEvaluationRow(r) => At(r, "cascade")
      /\ PrepareTarget(r) => At(r, "prepare")
      /\ InsertRun(r) => At(r, "insert_run")
      /\ InsertCases(r) => At(r, "insert_cases")
  BY DEF ReadEvaluation, ReadRun, ListRunsToDelete, DeleteListedRun, DeleteEvaluationRow,
         PrepareTarget, InsertRun, InsertCases
<1>3. /\ StartWorkflow(r) => At(r, "submit")
      /\ CheckCancel(r) => At(r, "check_cancel")
      /\ CancelRun(r) => At(r, "cancel")
      /\ CheckDelete(r) => At(r, "check_delete")
      /\ EraseRun(r) => At(r, "delete")
      /\ FetchFromControlPlane(r) => At(r, "fetch")
  BY DEF StartWorkflow, CheckCancel, CancelRun, CheckDelete, EraseRun, FetchFromControlPlane
<1>4. QED
  BY <1>1, <1>2, <1>3

-----------------------------------------------------------------------------
(* Who has changed a row has only those steps left that do not refuse.     *)
Refusals == (400..499) \cup {502, 503}

Changed(q, h) ==
  h.changed => /\ RangeOf(q.todo) \subseteq {"cascade", "insert_cases", "submit"}
               /\ q.answer.status \notin Refusals

ChangedInv == \A r \in Requests : Changed(req[r], history[r])

LEMMA LastSteps ==
  /\ Later("cascade") = {} /\ Later("submit") = {} /\ Later("insert") = {}
  /\ Later("insert_cases") = {"submit"} /\ Later("insert_run") = {"insert_cases", "submit"}
BY DEF Later

LEMMA NoRefusals ==
  \A answer \in {Success(201), Success(202), Success(204), ServerError, NoAnswer} :
    answer.status \notin Refusals
<1>1. \A s, c : Answer(s, c).status = s
  BY DEF Answer
<1>2. \A s \in {201, 202, 204, 500, 0} : s \notin Refusals
  BY DEF Refusals
<1>3. QED
  BY <1>1, <1>2 DEF Success, ServerError, Refused, NoAnswer

LEMMA ChangedEffect ==
  ASSUME Types, PathInv, ChangedInv, NEW r \in Requests, Works(r)
  PROVE  Changed(req'[r], history'[r])
<1> DEFINE q == req[r]  p == req'[r]  h == history[r]  k == history'[r]
           Stages == {"cascade", "insert_cases", "submit"}
<1>1. /\ Changed(q, h) /\ q.todo # <<>> /\ q.answer = NoAnswer
      /\ RangeOf(p.todo) \subseteq RangeOf(q.todo)
  <2>1. Changed(q, h) /\ q.todo # <<>> /\ q.answer = NoAnswer
    BY WorksEffect, PathOf DEF ChangedInv, Asked
  <2>2. q.todo \in Seq(Steps) /\ Ordered(q.todo)
    BY PathOf DEF Types, RequestTypes
  <2>3. CASE Ends(r)
    BY <2>1, <2>3, EmptyPath DEF Ends
  <2>4. CASE Passes(r)
    BY <2>1, <2>2, <2>4, TailFacts DEF Passes
  <2>5. CASE \E x \in q.listed : req' = [req EXCEPT ![r].listed = @ \ {x}]
    BY <2>1, <2>5 DEF Types, RequestTypes
  <2>6. QED  BY <2>1, <2>3, <2>4, <2>5, WorksEffect
<1>2. ASSUME NEW step, At(r, step), step \notin Stages PROVE h.changed = FALSE
  <2>1. step \in RangeOf(q.todo)
    BY <1>2, AtStep
  <2>2. h.changed \in BOOLEAN
    BY DEF Types, HistoryTypes
  <2>3. QED
    BY <1>1, <1>2, <2>1, <2>2 DEF Changed
<1>3. /\ UNCHANGED history => k.changed = h.changed
      /\ Notes(r) => k.changed = h.changed
      /\ \A rows : Records(r, rows, h.changed) => k.changed = h.changed
  BY DEF Notes, Records
<1>4. ASSUME NEW step, At(r, step), step \notin Stages, k.changed = h.changed PROVE Changed(p, k)
  BY <1>2, <1>4 DEF Changed
<1>5. ASSUME Ends(r), p.answer \in {Success(201), Success(202), Success(204), ServerError}
      PROVE  Changed(p, k)
  BY <1>5, NoRefusals, EmptyPath DEF Ends, Changed
<1>6. ASSUME RangeOf(p.todo) \subseteq Stages, p.answer = NoAnswer
      PROVE  Changed(p, k)
  BY <1>6, NoRefusals DEF Changed
<1>7. CASE IsEntitled(r) \/ IsMemberOfTeam(r) \/ LoadEvaluation(r) \/ LoadRun(r) \/ PrepareTarget(r)
           \/ CheckCancel(r) \/ CheckDelete(r) \/ FetchFromControlPlane(r)
  <2>1. UNCHANGED history
    BY <1>7 DEF IsEntitled, IsMemberOfTeam, LoadEvaluation, LoadRun, PrepareTarget, CheckCancel,
                CheckDelete, FetchFromControlPlane
  <2>2. PICK step : At(r, step) /\ step \notin Stages
    BY <1>7, WorksAt
  <2>3. QED  BY <1>3, <1>4, <2>1, <2>2
<1>8. CASE ResolveVersion(r) \/ ListRunsToDelete(r)
  <2>1. EvaluationIds \in SUBSET Ids /\ RunsOfEvaluation(q.target) \in SUBSET Ids
    BY DEF EvaluationIds, RunsOfEvaluation, RunIds
  <2>2. Notes(r)
    BY <1>8, <2>1, ResolveVersionEffect, ListRunsEffect, NotesEffect
  <2>3. PICK step : At(r, step) /\ step \notin Stages
    BY <1>8, WorksAt
  <2>4. QED  BY <1>3, <1>4, <2>2, <2>3
<1>9. CASE ListTeam(r) \/ ListMine(r) \/ ReadEvaluation(r) \/ ReadRun(r)
  <2>1. k.changed = h.changed
    BY <1>3, <1>9, ListTeamEffect, ListMineEffect, ReadEvaluationEffect, ReadRunEffect
  <2>2. PICK step : At(r, step) /\ step \notin Stages
    BY <1>9, WorksAt
  <2>3. QED  BY <1>4, <2>1, <2>2
<1>10. CASE InsertEvaluation(r) \/ CancelRun(r) \/ EraseRun(r) \/ StartWorkflow(r)
  <2>1. CASE InsertEvaluation(r)
    <3>1. Ends(r) /\ p.answer = Success(201)
      BY <2>1, InsertEvaluationEffect
    <3>2. QED  BY <1>5, <3>1
  <2>2. CASE CancelRun(r) \/ EraseRun(r)
    <3>1. CancelRun(r) => Ends(r) /\ p.answer = Success(202)
      BY CancelEffect
    <3>2. EraseRun(r) => Ends(r) /\ p.answer = Success(204)
      BY EraseRunEffect
    <3>3. QED  BY <1>5, <2>2, <3>1, <3>2
  <2>3. CASE StartWorkflow(r)
    BY <1>5, <2>3, StartEffect
  <2>4. QED  BY <1>10, <2>1, <2>2, <2>3
<1>11. CASE RequestFails(r)
  BY <1>5, <1>11, FailEffect
<1>12. CASE DeleteEvaluationRow(r)
  BY <1>5, <1>12, DeleteRowEffect
<1>13. CASE DeleteListedRun(r)
  <2>1. /\ At(r, "cascade")
        /\ \E x \in q.listed : req' = [req EXCEPT ![r].listed = @ \ {x}]
    BY <1>13, DeleteListedEffect
  <2>2. p.answer = NoAnswer
    BY <1>1, <2>1 DEF Types, RequestTypes
  <2>3. RangeOf(q.todo) \subseteq {"cascade"} \cup Later("cascade") /\ Later("cascade") = {}
    BY <2>1, AtStep, LastSteps
  <2>4. QED  BY <1>1, <1>6, <2>2, <2>3
<1>14. CASE InsertCases(r)
  <2>1. At(r, "insert_cases")
    BY <1>14, InsertCasesEffect
  <2>2. RangeOf(q.todo) \subseteq {"insert_cases"} \cup Later("insert_cases")
    BY <2>1, AtStep
  <2>3. CASE Passes(r)
    BY <1>1, <1>6, <2>2, <2>3, LastSteps DEF Passes
  <2>4. CASE Ends(r) /\ p.answer = ServerError
    BY <1>5, <2>4
  <2>5. QED  BY <1>14, <2>3, <2>4, InsertCasesEffect
<1>15. CASE InsertRun(r)
  <2>1. At(r, "insert_run")
    BY <1>15, InsertRunEffect
  <2>2. CASE Passes(r)
    <3>1. RangeOf(p.todo) \subseteq Stages
      BY <2>1, <2>2, AtStep, LastSteps DEF Passes
    <3>2. QED  BY <1>1, <1>6, <2>2, <3>1 DEF Passes
  <2>3. CASE UNCHANGED history
    BY <1>3, <1>4, <2>1, <2>3
  <2>4. QED  BY <1>15, <2>2, <2>3, InsertRunEffect
<1>16. QED
  BY <1>7, <1>8, <1>9, <1>10, <1>11, <1>12, <1>13, <1>14, <1>15
     DEF Works

LEMMA ChangedStep ==
  ASSUME Types, PathInv, ChangedInv, [Next]_vars
  PROVE  ChangedInv'
<1>1. ASSUME NEW r \in Requests PROVE Changed(req'[r], history'[r])
  <2>1. CASE req'[r] = req[r] /\ history'[r] = history[r]
    BY <2>1 DEF ChangedInv
  <2>2. CASE req[r] = NoRequest /\ UNCHANGED history
    BY <2>2, PathOf DEF NoHistory, Changed
  <2>3. QED  BY <2>1, <2>2, ChangedEffect, RequestStep
<1>2. QED  BY <1>1 DEF ChangedInv

-----------------------------------------------------------------------------
(* The runs a delete has seen and not yet deleted are in its list.         *)
Listed(q, h, rows) ==
  q.op = "deleteEvaluation" /\ q.todo # <<>> /\ "list_runs" \notin RangeOf(q.todo)
    => \A x \in h.known : rows[x] # NoRow /\ rows[x].evaluation = q.target => x \in q.listed

ListedInv == \A r \in Requests : Listed(req[r], history[r], runs)

LEMMA ListedStep ==
  ASSUME Types, PathInv, BirthInv, StageInv, ListedInv, [Next]_vars, NEW r \in Requests
  PROVE  Listed(req'[r], history'[r], runs')
<1> DEFINE q == req[r]  p == req'[r]  h == history[r]  k == history'[r]
<1>1. Listed(q, h, runs) /\ Knows(q, h, Born, RunBorn)
  BY DEF ListedInv, BirthInv
<1>2. \A x \in RunBorn : \/ runs'[x] = NoRow
                         \/ runs[x] # NoRow /\ SameOwner(runs'[x], runs[x])
  BY BornRowKept
<1>3. \A x \in h.known : runs'[x] # NoRow => runs[x] # NoRow /\ runs'[x].evaluation = runs[x].evaluation
  BY <1>1, <1>2 DEF Knows, SameOwner
<1>4. CASE p = q /\ k = h
  BY <1>1, <1>3, <1>4 DEF Listed
<1>5. CASE q = NoRequest /\ UNCHANGED history
  <2>1. k.known = {}
    BY <1>5, PathOf DEF NoHistory
  <2>2. QED  BY <2>1 DEF Listed
<1>6. ASSUME Works(r), p.op = q.op, p.target = q.target, p.op = "deleteEvaluation", p.todo # <<>>,
             "list_runs" \notin RangeOf(p.todo)
      PROVE  \A x \in k.known : runs'[x] # NoRow /\ runs'[x].evaluation = p.target => x \in p.listed
  <2>1. ~Ends(r)
    BY <1>6 DEF Ends
  <2>2. CASE Passes(r)
    <3>1. PICK step : At(r, step)
      BY <1>6, <2>2, OwnerEffect
    <3>2. /\ RangeOf(q.todo) = {step} \cup RangeOf(p.todo) /\ RangeOf(p.todo) \subseteq Later(step)
      BY <2>2, <3>1, AtStep DEF Passes
    <3>3. step = "list_runs"
      <4>1. SUFFICES ASSUME step # "list_runs" PROVE FALSE
        OBVIOUS
      <4>2. RangeOf(q.todo) \subseteq {"cascade"}
        BY <1>6, <3>2, <4>1 DEF StageInv, Staged
      <4>3. step = "cascade" /\ RangeOf(p.todo) = {}
        BY <3>2, <4>2, LastSteps
      <4>4. p.todo \in Seq(Steps) /\ p.todo # <<>> /\ Ordered(p.todo)
        BY <1>6, TypesStep, PathStep DEF Types, RequestTypes, PathInv
      <4>5. Head(p.todo) \in RangeOf(p.todo)
        BY <4>4, TailFacts
      <4>6. QED  BY <4>3, <4>5
    <3>4. ListRunsToDelete(r)
      <4>1. q.todo # <<>> /\ Head(q.todo) = "list_runs"
        BY <3>1, <3>3 DEF At
      <4>2. ~RequestFails(r)
        BY <2>1, FailEffect
      <4>3. QED
        BY <1>6, <4>1, <4>2, WorksAt DEF Works, At
    <3>5. k.known = RunsOfEvaluation(q.target) /\ p.listed = RunsOfEvaluation(q.target)
      <4>1. RunsOfEvaluation(q.target) \in SUBSET Ids
        BY DEF RunsOfEvaluation, RunIds
      <4>2. QED
        BY <2>1, <3>4, <4>1, ListRunsEffect, NotesEffect
    <3>6. QED  BY <3>5
  <2>3. CASE At(r, "cascade")
    <3>1. DeleteListedRun(r)
      <4>1. Head(q.todo) = "cascade"
        BY <2>3 DEF At
      <4>2. ~RequestFails(r) /\ ~DeleteEvaluationRow(r)
        BY <2>1, FailEffect, DeleteRowEffect
      <4>3. QED
        BY <1>6, <4>1, <4>2, WorksAt DEF Works, At
    <3>2. PICK x \in q.listed : Erased(r, x) /\ req' = [req EXCEPT ![r].listed = @ \ {x}]
      BY <3>1, DeleteListedEffect
    <3>3. /\ p.listed = q.listed \ {x} /\ p.todo = q.todo /\ x \in Ids
      BY <3>2 DEF Types, RequestTypes
    <3>4. runs'[x] = NoRow
      BY <3>2, <3>3 DEF Erased, Types
    <3>5. k.known = h.known
      BY <3>2 DEF Erased, Records
    <3>6. \A y \in h.known : runs[y] # NoRow /\ runs[y].evaluation = q.target => y \in q.listed
      BY <1>1, <1>6, <3>3 DEF Listed
    <3>7. QED
      BY <1>3, <1>6, <3>3, <3>4, <3>5, <3>6
  <2>4. QED
    BY <1>6, <2>1, <2>2, <2>3, WorksEffect
<1>7. QED
  BY <1>4, <1>5, <1>6, RequestStep DEF Listed

LEMMA RaceStep ==
  ASSUME Types, PathInv, ListedInv, [Next]_vars, NEW r \in Requests,
         req[r].op = "deleteEvaluation", ~Answered(r), req'[r].answer = ServerError,
         failures' = failures
  PROVE  RunsOfEvaluation(req[r].target) \ history[r].known # {}
<1>1. Works(r)
  <2>1. req'[r] # req[r]
    <3>1. req[r].answer = NoAnswer /\ ServerError # NoAnswer
      BY MostAnswersArePlain DEF Answered, Plain
    <3>2. QED  BY <3>1
  <2>2. req[r] # NoRequest
    BY NoRequestFacts
  <2>3. QED  BY <2>1, <2>2, RequestStep
<1>2. DeleteEvaluationRow(r)
  <2>1. ~Plain(req'[r].answer)
    BY MostAnswersArePlain DEF Plain
  <2>2. ~RequestFails(r)
    BY FailEffect
  <2>3. ASSUME EraseRun(r) \/ InsertRun(r) \/ InsertCases(r) PROVE FALSE
    <3>1. At(r, "delete") \/ At(r, "insert_run") \/ At(r, "insert_cases")
      BY <2>3, WorksAt
    <3>2. req[r].op \in {"deleteRun", "start"}
      BY <3>1, AtStep, OpOfStep
    <3>3. QED  BY <3>2
  <2>4. QED
    BY <1>1, <2>1, <2>2, <2>3, WhoAnswersOtherwise
<1>3. At(r, "cascade") /\ req[r].listed = {} /\ RunsOfEvaluation(req[r].target) # {}
  <2>1. Success(204) # ServerError
    BY MostAnswersArePlain
  <2>2. QED  BY <1>2, <2>1, DeleteRowEffect
<1>4. req[r].todo # <<>> /\ RangeOf(req[r].todo) \subseteq {"cascade"}
  BY <1>3, AtStep, LastSteps
<1>5. \A x \in history[r].known : ~(runs[x] # NoRow /\ runs[x].evaluation = req[r].target)
  BY <1>3, <1>4 DEF ListedInv, Listed
<1>6. QED
  BY <1>3, <1>5 DEF RunsOfEvaluation, RunIds

-----------------------------------------------------------------------------
(* A run whose request is still at work, or has been answered.             *)
Accepted(q, row) ==
  /\ q.op = "start" /\ RangeOf(q.todo) \subseteq {"insert_cases", "submit"}
  /\ "insert_cases" \notin RangeOf(q.todo) /\ q.answer # ServerError => row.cases
  /\ row.work = "none" => /\ row.state # "running"
                          /\ q.answer \in {NoAnswer, ServerError}
  /\ row.work # "none" => row.cases /\ q.todo = <<>> /\ q.answer = Success(202)

AcceptedInv == TemporalConfigured => \A x \in Requests \cap RunIds : Accepted(req[x], runs[x])

LEMMA AcceptedStep ==
  ASSUME Types, PathInv, StageInv, AcceptedInv, TemporalConfigured, [Next]_vars,
         NEW x \in Requests \cap RunIds'
  PROVE  Accepted(req'[x], runs'[x])
<1> DEFINE q == req[x]  p == req'[x]
<1>0. /\ x \in Ids /\ runs'[x] # NoRow /\ runs \in [Ids -> RunRows \cup {NoRow}]
      /\ \A y \in RunIds : runs[y] \in RunRows /\ y \in Ids
  BY RowTypes DEF RunIds, Types
<1>1. x \in RunIds => Accepted(q, runs[x]) /\ runs[x] \in RunRows
  BY <1>0 DEF AcceptedInv
<1>2. CASE UNCHANGED vars
  BY <1>0, <1>1, <1>2 DEF vars, RunIds
<1>3. CASE WorkerStep
  <2>1. PICK y \in RunIds :
          /\ runs[y].work # "none" /\ UNCHANGED req
          /\ \E row \in RunRows : /\ runs' = [runs EXCEPT ![y] = row]
                                 /\ row.cases = runs[y].cases /\ row.work # "none"
    BY <1>3, WorkerEffect
  <2>2. PICK row \in RunRows : /\ runs' = [runs EXCEPT ![y] = row]
                              /\ row.cases = runs[y].cases /\ row.work # "none"
    BY <2>1
  <2>3. CASE x = y
    BY <1>0, <1>1, <2>1, <2>2, <2>3 DEF Accepted
  <2>4. CASE x # y
    BY <1>0, <1>1, <2>1, <2>2, <2>4 DEF RunIds
  <2>5. QED  BY <2>3, <2>4
<1>4. ASSUME NEW r \in Requests, Arrive(r) \/ Unauthenticated(r) PROVE Accepted(p, runs'[x])
  <2>1. UNCHANGED runs /\ req[r] = NoRequest /\ (x # r => p = q)
    BY <1>4, ArriveEffect, UnauthenticatedEffect DEF Rows
  <2>2. x \in RunIds
    BY <1>0, <2>1 DEF RunIds
  <2>3. x # r
    BY <1>1, <2>1, <2>2, NoRequestFacts DEF Accepted
  <2>4. QED  BY <1>1, <2>1, <2>2, <2>3
<1>5. ASSUME NEW r \in Requests, Works(r), r # x PROVE Accepted(p, runs'[x])
  <2>1. p = q
    BY <1>5, WorksEffect DEF Passes, Ends, Types
  <2>2. runs'[x] = runs[x] => Accepted(p, runs'[x])
    BY <1>0, <1>1, <2>1 DEF RunIds
  <2>3. CASE \E y : runs' = [runs EXCEPT ![y] = NoRow]
    BY <1>0, <2>2, <2>3
  <2>4. CASE \E row \in RunRows : runs' = [runs EXCEPT ![r] = row]
    BY <1>0, <1>5, <2>2, <2>4
  <2>5. CASE runs' = [runs EXCEPT ![r].cases = TRUE] \/ runs' = [runs EXCEPT ![r].work = "submitted"]
    BY <1>0, <1>5, <2>2, <2>5
  <2>6. CASE req[r].target \in RunIds /\ runs' = [runs EXCEPT ![req[r].target].state = "cancelled"]
    <3>1. CASE x = req[r].target
      <4>1. runs'[x].work = runs[x].work /\ runs'[x].cases = runs[x].cases /\ runs'[x].state = "cancelled"
        BY <1>0, <1>1, <2>6, <3>1 DEF RunRows
      <4>2. QED  BY <1>1, <2>1, <2>6, <3>1, <4>1 DEF Accepted
    <3>2. CASE x # req[r].target
      BY <1>0, <2>2, <2>6, <3>2
    <3>3. QED  BY <3>1, <3>2
  <2>7. QED
    BY <1>5, <2>2, <2>3, <2>4, <2>5, <2>6, RowsEffect
<1>6. CASE Works(x) /\ x \notin RunIds
  <2> DEFINE row == [evaluation |-> q.target, team |-> q.team, by |-> q.user,
                     state |-> "pending", cases |-> FALSE, work |-> "none"]
  <2>1. InsertRun(x) /\ ~UNCHANGED runs
    <3>1. runs[x] = NoRow
      BY <1>0, <1>6 DEF RunIds
    <3>2. QED  BY <1>0, <1>6, <3>1, RunStep
  <2>2. Passes(x) /\ At(x, "insert_run") /\ runs' = [runs EXCEPT ![x] = row]
    BY <2>1, InsertRunEffect
  <2>3. q.op = "start" /\ p.op = q.op /\ p.todo = Tail(q.todo) /\ p.answer = NoAnswer
    BY <2>2, AtStep, OpOfStep DEF Passes, Asked
  <2>4. /\ RangeOf(q.todo) = {"insert_run"} \cup RangeOf(p.todo)
        /\ RangeOf(p.todo) \subseteq {"insert_cases", "submit"}
    BY <2>2, <2>3, AtStep, LastSteps
  <2>5. "insert_cases" \in RangeOf(p.todo)
    BY <2>3, <2>4 DEF StageInv, Staged
  <2>6. row.work = "none" /\ row.state # "running" /\ runs'[x] = row
    BY <1>0, <2>2
  <2> HIDE DEF row
  <2>7. QED
    BY <2>3, <2>4, <2>5, <2>6 DEF Accepted
<1>7. CASE Works(x) /\ x \in RunIds
  <2>1. /\ Accepted(q, runs[x]) /\ q.todo # <<>> /\ q.answer = NoAnswer
        /\ runs[x].work = "none" /\ q.op = "start"
    BY <1>1, <1>7, WorksEffect, PathOf DEF Accepted, Asked
  <2>2. ServerError # NoAnswer
    BY MostAnswersArePlain DEF Plain
  <2>3. CASE RequestFails(x)
    <3>1. Ends(x) /\ p.answer = ServerError /\ UNCHANGED runs
      BY <2>3, FailEffect DEF Rows
    <3>2. QED  BY <2>1, <3>1, EmptyPath DEF Ends, Accepted
  <2>4. CASE InsertCases(x)
    <3>1. At(x, "insert_cases")
      BY <2>4, WorksAt
    <3>2. CASE runs' = [runs EXCEPT ![x].cases = TRUE] /\ Passes(x)
      <4>1. runs'[x].work = "none" /\ runs'[x].cases /\ runs'[x].state = runs[x].state
        <5>1. runs'[x] = [runs[x] EXCEPT !.cases = TRUE]
          BY <1>0, <1>1, <1>7, <3>2
        <5>2. QED
          BY <1>0, <1>1, <1>7, <2>1, <5>1 DEF RunRows
      <4>2. p.op = q.op /\ p.answer = NoAnswer /\ RangeOf(p.todo) \subseteq {"submit"}
        BY <2>1, <3>1, <3>2, AtStep, LastSteps DEF Passes
      <4>3. QED  BY <2>1, <4>1, <4>2 DEF Accepted
    <3>3. CASE Ends(x) /\ p.answer = ServerError /\ UNCHANGED runs
      BY <2>1, <3>3, EmptyPath DEF Ends, Accepted
    <3>4. QED  BY <2>4, <3>2, <3>3, InsertCasesEffect
  <2>5. CASE StartWorkflow(x)
    <3>1. At(x, "submit")
      BY <2>5, WorksAt
    <3>2. RangeOf(q.todo) \subseteq {"submit"}
      <4>1. /\ RangeOf(q.todo) = {"submit"} \cup RangeOf(Tail(q.todo))
            /\ RangeOf(Tail(q.todo)) \subseteq Later("submit")
        BY <3>1, AtStep
      <4>2. QED
        BY <4>1, LastSteps
    <3>3. runs[x].cases
      BY <2>1, <2>2, <3>2 DEF Accepted
    <3>4. Ends(x) /\ p.answer = Success(202) /\ runs' = [runs EXCEPT ![x].work = "submitted"]
      BY <1>7, <2>5, StartEffect
    <3>5. runs'[x].work = "submitted" /\ runs'[x].cases
      <4>1. runs'[x] = [runs[x] EXCEPT !.work = "submitted"]
        BY <1>0, <1>1, <1>7, <3>4
      <4>2. QED
        BY <1>0, <1>1, <1>7, <3>3, <4>1 DEF RunRows
    <3>6. p.op = q.op /\ p.todo = <<>>
      BY <3>4 DEF Ends
    <3>7. QED  BY <2>1, <3>4, <3>5, <3>6, EmptyPath DEF Accepted
  <2>6. RequestFails(x) \/ InsertCases(x) \/ StartWorkflow(x)
    <3>1. ASSUME NEW step, At(x, step) PROVE step \in {"insert_cases", "submit"}
      BY <2>1, <3>1, AtStep DEF Accepted
    <3>2. QED  BY <1>7, <3>1, WorksAt DEF Works
  <2>7. QED  BY <2>3, <2>4, <2>5, <2>6
<1>8. QED
  BY <1>2, <1>3, <1>4, <1>5, <1>6, <1>7, NextCases

-----------------------------------------------------------------------------
(* Nothing a request saw when it decided its version has the row it will   *)
(* store, and who has stored a row has nothing left to do.                 *)
SameVersion(row, other) ==
  row.team = other.team /\ row.name = other.name /\ row.version = other.version

Fresh(q, h, evals) ==
  q.op = "create" /\ q.todo # <<>> /\ "version" \notin RangeOf(q.todo)
    => \A e \in h.saw : evals[e] # NoRow => ~SameVersion(evals[e], q)

VersionInv ==
  /\ \A r \in Requests : Fresh(req[r], history[r], evaluations)
  /\ \A f \in Requests \cap EvaluationIds : req[f].op = "create" /\ req[f].todo = <<>>

LEMMA FreshStep ==
  ASSUME Types, PathInv, BirthInv, StageInv, VersionInv, [Next]_vars, NEW r \in Requests
  PROVE  Fresh(req'[r], history'[r], evaluations')
<1> DEFINE q == req[r]  p == req'[r]  h == history[r]  k == history'[r]
<1>1. Fresh(q, h, evaluations) /\ Knows(q, h, Born, RunBorn)
  BY DEF VersionInv, BirthInv
<1>2. CASE p = q /\ k = h
  <2>1. \A e \in h.saw : evaluations'[e] = evaluations[e] \/ evaluations'[e] = NoRow
    BY <1>1, BornRowKept DEF Knows
  <2>2. QED  BY <1>1, <1>2, <2>1 DEF Fresh
<1>3. CASE q = NoRequest /\ UNCHANGED history
  <2>1. k.saw = {}
    BY <1>3, PathOf DEF NoHistory
  <2>2. QED  BY <2>1 DEF Fresh
<1>4. ASSUME Works(r), p.op = q.op, p.op = "create", p.todo # <<>>, "version" \notin RangeOf(p.todo)
      PROVE  \A e \in k.saw : evaluations'[e] # NoRow => ~SameVersion(evaluations'[e], p)
  <2>1. Passes(r)
    <3>1. ~Ends(r)
      BY <1>4 DEF Ends
    <3>2. ~At(r, "cascade")
      BY <1>4, AtStep, OpOfStep
    <3>3. QED  BY <1>4, <3>1, <3>2, WorksEffect
  <2>2. PICK step : At(r, step)
    BY <1>4, <2>1, OwnerEffect
  <2>3. /\ RangeOf(q.todo) = {step} \cup RangeOf(p.todo) /\ RangeOf(p.todo) \subseteq Later(step)
    BY <2>1, <2>2, AtStep DEF Passes
  <2>4. step = "version"
    <3>1. SUFFICES ASSUME step # "version" PROVE FALSE
      OBVIOUS
    <3>2. RangeOf(q.todo) \subseteq {"insert"}
      BY <1>4, <2>3, <3>1 DEF StageInv, Staged
    <3>3. RangeOf(p.todo) = {}
      BY <2>3, <3>2, LastSteps
    <3>4. p.todo \in Seq(Steps) /\ p.todo # <<>> /\ Ordered(p.todo)
      BY <1>4, TypesStep, PathStep DEF Types, RequestTypes, PathInv
    <3>5. Head(p.todo) \in RangeOf(p.todo)
      BY <3>4, TailFacts
    <3>6. QED  BY <3>3, <3>5
  <2>5. ResolveVersion(r)
    <3>1. Head(q.todo) = "version"
      BY <2>2, <2>4 DEF At
    <3>2. ~RequestFails(r)
      BY <1>4, FailEffect DEF Ends
    <3>3. QED
      BY <1>4, <3>1, <3>2, WorksAt DEF Works, At
  <2>6. ~Ends(r)
    BY <1>4 DEF Ends
  <2>7. ~VersionExists(q.team, q.name, p.version) /\ UNCHANGED evaluations
    BY <2>5, <2>6, ResolveVersionEffect DEF Rows
  <2>8. k.saw = EvaluationIds
    <3>1. EvaluationIds \in SUBSET Ids
      BY DEF EvaluationIds
    <3>2. QED  BY <2>5, <3>1, ResolveVersionEffect, NotesEffect
  <2>9. p.team = q.team /\ p.name = q.name
    BY <2>1 DEF Passes
  <2>10. QED
    BY <2>7, <2>8, <2>9 DEF VersionExists, Versions, SameVersion
<1>5. QED
  BY <1>2, <1>3, <1>4, RequestStep DEF Fresh

LEMMA VersionStep ==
  ASSUME Types, PathInv, BirthInv, StageInv, VersionInv, [Next]_vars
  PROVE  VersionInv'
<1>1. ASSUME NEW f \in Requests \cap EvaluationIds' PROVE req'[f].op = "create" /\ req'[f].todo = <<>>
  <2>1. f \in Ids /\ evaluations'[f] # NoRow
    BY DEF EvaluationIds
  <2>2. CASE f \in EvaluationIds
    <3>1. req[f].op = "create" /\ req[f].todo = <<>>
      BY <2>2 DEF VersionInv
    <3>2. req'[f] = req[f]
      BY <3>1, RequestStep, NoRequestFacts
    <3>3. QED  BY <3>1, <3>2
  <2>3. CASE InsertEvaluation(f) /\ Works(f)
    <3>1. At(f, "insert") /\ Ends(f)
      BY <2>3, InsertEvaluationEffect
    <3>2. req[f].op = "create"
      BY <3>1, AtStep, OpOfStep
    <3>3. QED  BY <3>1, <3>2 DEF Ends
  <2>4. QED
    BY <2>1, <2>2, <2>3, EvaluationStep DEF EvaluationIds
<1>2. QED
  BY <1>1, FreshStep DEF VersionInv

LEMMA UniqueStep ==
  ASSUME Types, PathInv, BirthInv, VersionInv, VersionsUniqueUnlessRaced, [Next]_vars
  PROVE  VersionsUniqueUnlessRaced'
<1>1. ASSUME NEW e \in EvaluationIds', NEW f \in EvaluationIds', e # f, f \in Requests,
             SameVersion(evaluations'[e], evaluations'[f]), e \in history'[f].saw
      PROVE  FALSE
  <2>0. /\ e \in Ids /\ f \in Ids /\ evaluations'[e] # NoRow /\ evaluations'[f] # NoRow
    BY DEF EvaluationIds
  <2>1. Knows(req[f], history[f], Born, RunBorn)
    BY <1>1 DEF BirthInv
  <2>2. CASE f \in EvaluationIds
    <3>1. req[f].op = "create" /\ req[f].todo = <<>>
      BY <1>1, <2>2 DEF VersionInv
    <3>2. history'[f] = history[f]
      BY <1>1, <3>1, RequestStep, NoRequestFacts
    <3>3. e \in Born /\ f \in Born
      BY <1>1, <2>1, <2>2, <3>2 DEF Knows, BirthInv
    <3>4. evaluations'[e] = evaluations[e] /\ evaluations'[f] = evaluations[f]
      BY <2>0, <3>3, BornRowKept
    <3>5. e \in EvaluationIds
      BY <2>0, <3>4 DEF EvaluationIds
    <3>6. QED
      BY <1>1, <2>2, <3>2, <3>4, <3>5 DEF VersionsUniqueUnlessRaced, SameVersion
  <2>3. CASE InsertEvaluation(f) /\ Works(f)
    <3> DEFINE row == [team |-> req[f].team, name |-> req[f].name,
                       version |-> req[f].version, by |-> req[f].user]
    <3>1. /\ At(f, "insert") /\ evaluations' = [evaluations EXCEPT ![f] = row]
          /\ Records(f, {row}, TRUE)
      BY <1>1, <2>3, InsertEvaluationEffect
    <3>2. At(f, "insert") /\ history'[f].saw = history[f].saw
      BY <3>1 DEF Records
    <3>3. /\ req[f].op = "create" /\ req[f].todo # <<>> /\ "version" \notin RangeOf(req[f].todo)
      <4>1. /\ req[f].todo # <<>> /\ "insert" \in StepsOf(req[f].op)
            /\ RangeOf(req[f].todo) = {"insert"} \cup RangeOf(Tail(req[f].todo))
            /\ RangeOf(Tail(req[f].todo)) \subseteq Later("insert")
        BY <1>1, <3>2, AtStep
      <4>2. RangeOf(req[f].todo) = {"insert"}
        BY <4>1, LastSteps
      <4>3. QED
        BY <4>1, <4>2, OpOfStep
    <3> HIDE DEF row
    <3>4. evaluations'[f] = row /\ evaluations'[e] = evaluations[e]
      BY <1>1, <2>0, <3>1 DEF Types
    <3> USE DEF row
    <3>5. ~SameVersion(evaluations[e], req[f])
      BY <1>1, <2>0, <3>2, <3>3, <3>4 DEF VersionInv, Fresh
    <3>6. SameVersion(evaluations[e], row)
      BY <1>1, <3>4
    <3>7. QED
      BY <3>5, <3>6 DEF SameVersion
  <2>4. QED
    BY <1>1, <2>0, <2>2, <2>3, EvaluationStep DEF EvaluationIds
<1>2. ASSUME NEW e \in EvaluationIds', NEW f \in EvaluationIds', e # f, f \in Requests,
             evaluations'[e].team = evaluations'[f].team, evaluations'[e].name = evaluations'[f].name,
             evaluations'[e].version = evaluations'[f].version
      PROVE  e \notin history'[f].saw
  BY <1>1, <1>2 DEF SameVersion
<1>3. QED
  BY <1>2 DEF VersionsUniqueUnlessRaced

-----------------------------------------------------------------------------
(* The inductive invariant. Where a property is among its conjuncts, the   *)
(* others are what it rests on: OwnerInv and GateInv for OnlyOwnTeam-      *)
(* IsReached, BirthInv for DeletedIsGone, VersionInv for VersionsUnique-   *)
(* UnlessRaced, and StageInv for ChangedInv.                               *)
IndInv ==
  /\ Types /\ PathInv /\ BirthInv /\ OwnerInv /\ GateInv /\ StageInv
  /\ ChangedInv /\ ListedInv /\ AcceptedInv /\ VersionInv
  /\ OnlyOwnTeamIsReached /\ DeletedIsGone /\ VersionsUniqueUnlessRaced

LEMMA InitIndInv == Init => IndInv
<1> SUFFICES ASSUME Init PROVE IndInv
  OBVIOUS
<1>1. /\ \A r \in Requests : req[r] = NoRequest /\ history[r] = NoHistory
      /\ req = [r \in Requests |-> NoRequest] /\ history = [r \in Requests |-> NoHistory]
      /\ failures = 0
  BY DEF Init
<1>2. /\ \A i \in Ids : evaluations[i] = IF i \in DOMAIN SeedEvaluations
                                         THEN SeedEvaluations[i] ELSE NoRow
      /\ \A i \in Ids : runs[i] = IF i \in DOMAIN SeedRuns THEN SeedRuns[i] ELSE NoRow
      /\ \A i \in DOMAIN SeedEvaluations : SeedEvaluations[i] \in EvaluationRows /\ i \in Ids
      /\ \A i \in DOMAIN SeedRuns : SeedRuns[i] \in RunRows /\ i \in Ids
  BY SeedAssumption DEF Init, CatalogInit
<1>3. EvaluationIds = DOMAIN SeedEvaluations /\ RunIds = DOMAIN SeedRuns
  <2>1. NoRow \notin EvaluationRows /\ NoRow \notin RunRows
    BY SeedAssumption
  <2>2. \A i \in Ids : evaluations[i] # NoRow <=> i \in DOMAIN SeedEvaluations
    BY <1>2, <2>1
  <2>3. \A i \in Ids : runs[i] # NoRow <=> i \in DOMAIN SeedRuns
    BY <1>2, <2>1
  <2>4. EvaluationIds = DOMAIN SeedEvaluations
    BY <1>2, <2>2 DEF EvaluationIds
  <2>5. RunIds = DOMAIN SeedRuns
    BY <1>2, <2>3 DEF RunIds
  <2>6. QED  BY <2>4, <2>5
<1>4. EvaluationIds \cap Requests = {} /\ RunIds \cap Requests = {}
  BY <1>3, ApiAssumption
<1>5. /\ NoHistory \in HistoryTypes /\ NoHistory.touched = {} /\ NoHistory.saw = {}
      /\ NoHistory.known = {} /\ NoHistory.changed = FALSE
  BY DEF NoHistory, HistoryTypes
<1>6. Types
  <2>1. evaluations \in [Ids -> EvaluationRows \cup {NoRow}]
    BY <1>2 DEF Init, CatalogInit
  <2>2. runs \in [Ids -> RunRows \cup {NoRow}]
    BY <1>2 DEF Init, CatalogInit
  <2>3. req \in [Requests -> RequestTypes] /\ history \in [Requests -> HistoryTypes]
    BY <1>1, <1>5, NoRequestFacts
  <2>4. failures \in 0..MaxFailures
    BY <1>1, ApiAssumption
  <2>5. QED  BY <2>1, <2>2, <2>3, <2>4 DEF Types
<1>7. /\ NoRequest.todo = <<>> /\ NoRequest.op \notin EvaluationOps \cup RunOps
      /\ NoRequest.answer # Success(204)
  <2>1. NoAnswer # Success(204)
    BY MostAnswersArePlain DEF Plain
  <2>2. QED  BY <2>1, NoRequestFacts DEF EvaluationOps, RunOps
<1>8. PathInv
  BY <1>1, <1>7, EmptyPath DEF PathInv
<1>9. BirthInv
  <2>1. EvaluationIds \subseteq Born /\ RunIds \subseteq RunBorn
    BY <1>4 DEF Born, RunBorn, EvaluationIds, RunIds
  <2>2. \A r \in Requests : Knows(req[r], history[r], Born, RunBorn)
    BY <1>1, <1>5, <1>7, NoRequestFacts DEF Knows
  <2>3. QED  BY <2>1, <2>2 DEF BirthInv
<1>10. OwnerInv
  <2>1. ASSUME NEW x \in RunIds
        PROVE  /\ runs[x].evaluation \in EvaluationIds
               /\ evaluations[runs[x].evaluation].team = runs[x].team
    <3>1. x \in DOMAIN SeedRuns /\ x \in Ids /\ runs[x] = SeedRuns[x]
      BY <1>2, <1>3
    <3>2. runs[x].evaluation \in DOMAIN SeedEvaluations /\ runs[x].evaluation \in Ids
      BY <1>2, <3>1, SeedAssumption
    <3>3. QED  BY <1>2, <1>3, <3>1, <3>2, SeedAssumption
  <2>2. \A r \in Requests : Owned(req[r], evaluations, runs)
    BY <1>1, <1>7, NoRequestFacts DEF Owned
  <2>3. QED  BY <2>1, <2>2 DEF OwnerInv
<1>11. GateInv /\ StageInv /\ ChangedInv /\ ListedInv
  BY <1>1, <1>5, <1>7, EmptyPath DEF GateInv, Admits, StageInv, Staged, ChangedInv, Changed,
                                     ListedInv, Listed
<1>12. AcceptedInv
  BY <1>4 DEF AcceptedInv
<1>13. VersionInv
  BY <1>1, <1>4, <1>7 DEF VersionInv, Fresh
<1>14. OnlyOwnTeamIsReached
  BY <1>1, <1>5 DEF OnlyOwnTeamIsReached
<1>15. DeletedIsGone
  BY <1>1, <1>7 DEF DeletedIsGone
<1>16. VersionsUniqueUnlessRaced
  BY <1>4 DEF VersionsUniqueUnlessRaced
<1>17. QED
  BY <1>6, <1>8, <1>9, <1>10, <1>11, <1>12, <1>13, <1>14, <1>15, <1>16 DEF IndInv

LEMMA NextIndInv == IndInv /\ [Next]_vars => IndInv'
<1> SUFFICES ASSUME IndInv, [Next]_vars PROVE IndInv'
  OBVIOUS
<1>1. /\ Types /\ PathInv /\ BirthInv /\ OwnerInv /\ GateInv /\ StageInv
      /\ ChangedInv /\ ListedInv /\ AcceptedInv /\ VersionInv
      /\ OnlyOwnTeamIsReached /\ DeletedIsGone /\ VersionsUniqueUnlessRaced
  BY DEF IndInv
<1>2. Types' /\ PathInv' /\ BirthInv' /\ OwnerInv'
  BY <1>1, TypesStep, PathStep, BirthStep, OwnerStep
<1>3. GateInv'
  BY <1>1, GateInvStep DEF GateInv
<1>4. StageInv' /\ ChangedInv'
  BY <1>1, StageStep, ChangedStep
<1>5. ListedInv'
  BY <1>1, ListedStep DEF ListedInv
<1>6. AcceptedInv'
  BY <1>1, AcceptedStep DEF AcceptedInv
<1>7. VersionInv' /\ VersionsUniqueUnlessRaced'
  BY <1>1, VersionStep, UniqueStep
<1>8. OnlyOwnTeamIsReached' /\ DeletedIsGone'
  BY <1>1, OwnTeamStep, DeletedStep
<1>9. QED
  BY <1>2, <1>3, <1>4, <1>5, <1>6, <1>7, <1>8 DEF IndInv

(* The invariant holds of every behaviour of the API.                      *)
THEOREM Invariance == Spec => []IndInv
BY InitIndInv, NextIndInv, PTL DEF Spec

(* The rows of both tables, every request with its answer and the number   *)
(* of failures stay in their domains.                                      *)
THEOREM ApiTypeCorrect == Spec => []TypeOK
<1>1. IndInv => TypeOK
  BY DEF IndInv, Types, TypeOK, RequestTypes, Answered
<1>2. QED
  BY <1>1, Invariance, PTL

(* On no route of the three surfaces does a caller reach a row of a team   *)
(* that is not his, unless he created it, although the gates look at rows  *)
(* and memberships an await or more before the row is read or written.     *)
THEOREM OnlyOwnTeamIsReachedHolds == Spec => []OnlyOwnTeamIsReached
<1>1. IndInv => OnlyOwnTeamIsReached
  BY DEF IndInv
<1>2. QED
  BY <1>1, Invariance, PTL

(* A request refused with a 4xx, 502 or 503 has written nothing: every     *)
(* check of a handler stands before its first write.                       *)
THEOREM RefusalChangesNothingHolds == Spec => []RefusalChangesNothing
<1>1. IndInv => RefusalChangesNothing
  <2>1. ASSUME IndInv, NEW r \in Requests,
               req[r].answer.status \in (400..499) \cup {502, 503}
        PROVE  ~history[r].changed
    <3>1. Changed(req[r], history[r])
      BY <2>1 DEF IndInv, ChangedInv
    <3>2. QED  BY <2>1, <3>1 DEF Changed, Refusals
  <2>2. QED  BY <2>1 DEF RefusalChangesNothing
<1>2. QED
  BY <1>1, Invariance, PTL

(* Two evaluations share team, name and version only if neither was there  *)
(* when _resolve_version looked for the other.                             *)
THEOREM VersionsUniqueUnlessRacedHolds == Spec => []VersionsUniqueUnlessRaced
<1>1. IndInv => VersionsUniqueUnlessRaced
  BY DEF IndInv
<1>2. QED
  BY <1>1, Invariance, PTL

(* After a 204 the row stays away, with the runs of the evaluation: no     *)
(* start_run that read it before brings a part of it back.                 *)
THEOREM DeletedIsGoneHolds == Spec => []DeletedIsGone
<1>1. IndInv => DeletedIsGone
  BY DEF IndInv
<1>2. QED
  BY <1>1, Invariance, PTL

(* A run launch_run answered with 202 has its cases and its workflow; one  *)
(* without a workflow was answered with 500.                               *)
THEOREM AcceptedRunIsSubmittedHolds == Spec => []AcceptedRunIsSubmitted
<1>1. IndInv => AcceptedRunIsSubmitted
  <2>1. SUFFICES ASSUME IndInv, TemporalConfigured, NEW r \in Requests \cap RunIds
                 PROVE  /\ Answered(r) => IF runs[r].work = "none" THEN req[r].answer = ServerError
                                          ELSE req[r].answer = Success(202) /\ runs[r].cases
                        /\ runs[r].state = "running" => runs[r].cases
    BY DEF AcceptedRunIsSubmitted
  <2>2. Accepted(req[r], runs[r])
    BY <2>1 DEF IndInv, AcceptedInv
  <2>3. QED  BY <2>2 DEF Accepted, Answered
<1>2. QED
  BY <1>1, Invariance, PTL

(* delete_evaluation breaks on the foreign key only where a run was        *)
(* created after it listed them, or one of its calls failed.               *)
THEOREM DeleteFailsOnlyByRaceHolds == Spec => DeleteFailsOnlyByRace
<1>1. IndInv /\ [Next]_vars =>
        [\A r \in Requests :
           /\ req[r].op = "deleteEvaluation" /\ ~Answered(r)
           /\ req'[r].answer = ServerError /\ failures' = failures
           => RunsOfEvaluation(req[r].target) \ history[r].known # {}]_vars
  BY RaceStep DEF IndInv
<1>2. QED
  BY <1>1, Invariance, PTL DEF Spec, DeleteFailsOnlyByRace

-----------------------------------------------------------------------------
(* The refinement of TeamCatalogue.                                        *)

(* What is left of a route has all the writes of its operation, or it is   *)
(* amid them and has nothing else left.                                    *)
Owing(q) ==
  q.todo # <<>> =>
    \/ RangeOf(q.todo) \cap Writes = Catalogue!Owes(q.op)
    \/ q.op = "start" /\ RangeOf(q.todo) \in {{"insert_cases", "submit"}, {"submit"}}
    \/ q.op = "deleteEvaluation" /\ RangeOf(q.todo) = {"cascade"}

(* The target of a run is prepared as its caller, who is of its team.      *)
Prepared(q) ==
  q.todo # <<>> /\ q.op = "start" /\ "prepare" \notin RangeOf(q.todo) => IsMember(q.user, q.team)

OwedInv == \A r \in Requests : Owing(req[r]) /\ Prepared(req[r])

LEMMA StepsOwed ==
  /\ \A op \in Ops : StepsOf(op) \cap Writes = Catalogue!Owes(op)
  /\ Ops = Catalogue!Operations
<1>1. \A op \in Ops : StepsOf(op) \cap Writes = Catalogue!Owes(op)
  BY DEF Ops, EvaluationOps, RunOps, StepsOf, Writes, Catalogue!Owes
<1>2. Ops = Catalogue!Operations
  BY DEF Ops, EvaluationOps, RunOps, Catalogue!Operations
<1>3. QED  BY <1>1, <1>2

LEMMA RouteOwes ==
  ASSUME NEW op, NEW surface, NEW path, IsRoute(op, surface, path)
  PROVE  /\ RangeOf(path) \cap Writes = Catalogue!Owes(op)
         /\ op = "start" => "prepare" \in RangeOf(path)
<1>1. Catalogue!Owes(op) \subseteq RangeOf(path)
  BY DEF IsRoute, Gated, Catalogue!Owes
<1>2. QED
  BY <1>1, StepsOwed DEF IsRoute, Gated

(* A step that is no write leaves all of them, and after a write nothing   *)
(* but writes is left.                                                     *)
LEMMA OwedAfter ==
  ASSUME NEW q, NEW step, NEW rest \in Seq(Steps), rest # <<>>, q.todo # <<>>, Owing(q),
         RangeOf(q.todo) = {step} \cup RangeOf(rest), RangeOf(rest) \subseteq Later(step)
  PROVE  \/ RangeOf(rest) \cap Writes = Catalogue!Owes(q.op)
         \/ q.op = "start" /\ RangeOf(rest) \in {{"insert_cases", "submit"}, {"submit"}}
         \/ q.op = "deleteEvaluation" /\ RangeOf(rest) = {"cascade"}
<1>1. CASE step \notin Writes
  BY <1>1 DEF Owing, Writes
<1>2. CASE step \in {"insert_run", "insert_cases", "list_runs"}
  BY <1>2 DEF Owing, Writes, Later, Catalogue!Owes
<1>3. CASE step \in {"insert", "submit", "cancel", "delete", "cascade"}
  <2>1. RangeOf(rest) = {}
    BY <1>3 DEF Later
  <2>2. Head(rest) \in RangeOf(rest)
    BY DEF RangeOf
  <2>3. QED  BY <2>1, <2>2
<1>4. QED
  BY <1>1, <1>2, <1>3 DEF Writes

(* Who is at the step that prepares the target and goes on was admitted.   *)
LEMMA PreparedEffect ==
  ASSUME Types, PathInv, NEW r \in Requests, Works(r), Passes(r), At(r, "prepare")
  PROVE  IsMember(req[r].user, req[r].team)
<1>1. ~Ends(r)
  BY AnswersAreErrors, AtStep DEF Ends, Passes, Asked
<1>2. ~RequestFails(r) /\ (PrepareTarget(r) => IsMember(req[r].user, req[r].team))
  BY <1>1, FailEffect, PrepareEffect
<1>3. \A step : At(r, step) => step = "prepare"
  BY DEF At
<1>4. PrepareTarget(r)
  BY <1>2, <1>3, WorksAt DEF Works
<1>5. QED
  BY <1>2, <1>4

LEMMA OwedStep ==
  ASSUME Types, PathInv, OwedInv, [Next]_vars
  PROVE  OwedInv'
<1>1. ASSUME NEW r \in Requests PROVE Owing(req'[r]) /\ Prepared(req'[r])
  <2> DEFINE q == req[r]  p == req'[r]
  <2>0. Owing(q) /\ Prepared(q)
    BY DEF OwedInv
  <2>1. CASE p = q
    BY <2>0, <2>1
  <2>2. CASE p.todo = <<>>
    BY <2>2 DEF Owing, Prepared
  <2>3. CASE Arrive(r)
    <3>1. IsRoute(p.op, p.surface, p.todo)
      BY <2>3, ArriveEffect
    <3>2. QED  BY <3>1, RouteOwes DEF Owing, Prepared
  <2>4. CASE Passes(r) /\ Works(r) /\ p.todo # <<>>
    <3>1. PICK step : At(r, step)
      BY <2>4, OwnerEffect
    <3>2. /\ RangeOf(q.todo) = {step} \cup RangeOf(p.todo) /\ RangeOf(p.todo) \subseteq Later(step)
          /\ p.op = q.op /\ p.user = q.user /\ p.team = q.team /\ q.todo # <<>>
          /\ p.todo \in Seq(Steps)
      BY <2>4, <3>1, AtStep DEF Passes
    <3>3. Owing(p)
      BY <2>0, <2>4, <3>2, OwedAfter DEF Owing
    <3>4. CASE step = "prepare"
      <4>1. IsMember(q.user, q.team)
        BY <2>4, <3>1, <3>4, PreparedEffect
      <4>2. QED  BY <3>2, <3>3, <4>1 DEF Prepared
    <3>5. CASE step # "prepare"
      BY <2>0, <3>2, <3>3, <3>5 DEF Prepared
    <3>6. QED  BY <3>4, <3>5
  <2>5. CASE \E x \in q.listed : req' = [req EXCEPT ![r].listed = @ \ {x}]
    <3>1. p.op = q.op /\ p.todo = q.todo /\ p.user = q.user /\ p.team = q.team
      BY <2>5 DEF Types, RequestTypes
    <3>2. QED  BY <2>0, <3>1 DEF Owing, Prepared
  <2>6. Ends(r) => p.todo = <<>>
    BY DEF Ends
  <2>7. QED
    BY <2>1, <2>2, <2>3, <2>4, <2>5, <2>6, RequestStep, WorksEffect, UnauthenticatedEffect
<1>2. QED  BY <1>1 DEF OwedInv

LEMMA OwedInvariant == Spec => []OwedInv
<1>1. Init => OwedInv
  BY NoRequestFacts DEF Init, OwedInv, Owing, Prepared
<1>2. IndInv /\ OwedInv /\ [Next]_vars => OwedInv'
  BY OwedStep DEF IndInv
<1>3. QED
  BY <1>1, <1>2, Invariance, PTL DEF Spec

-----------------------------------------------------------------------------
(* A step of a request as TeamCatalogue sees it.                           *)
LEMMA EndsView ==
  ASSUME Types, PathInv, NEW r \in Requests, Ends(r), req[r].todo # <<>>,
         NEW codes, req'[r].answer.status \in codes
  PROVE  Catalogue!Answers(r, codes)
<1>1. req[r].answer = NoAnswer /\ NoAnswer.status = 0 /\ req[r].op \in Ops
  BY DEF PathInv, Asked, NoAnswer, Answer
<1>2. Status[r] = 0 /\ Status'[r] \in codes /\ Asking[r].op \in Catalogue!Operations
  BY <1>1, StepsOwed DEF Status, Asking
<1>3. \A q \in Requests \ {r} : Status'[q] = Status[q]
  BY DEF Ends, Status
<1>4. Asking' = Asking
  BY DEF Ends, Asking
<1>5. Owed' = [Owed EXCEPT ![r] = {}]
  BY EmptyPath DEF Ends, Owed
<1>6. QED
  BY <1>2, <1>3, <1>4, <1>5 DEF Catalogue!Answers

LEMMA PassesView ==
  ASSUME Types, PathInv, NEW r \in Requests, Passes(r), NEW step, At(r, step)
  PROVE  /\ UNCHANGED <<Asking, Status>>
         /\ Owed' = [Owed EXCEPT ![r] = RangeOf(req'[r].todo) \cap Writes]
         /\ Owed[r] = ({step} \cup RangeOf(req'[r].todo)) \cap Writes
         /\ RangeOf(req'[r].todo) \subseteq Later(step)
         /\ Status[r] = 0
<1>1. UNCHANGED <<Asking, Status>>
  BY DEF Passes, Asking, Status
<1>2. Owed' = [Owed EXCEPT ![r] = RangeOf(req'[r].todo) \cap Writes]
  BY DEF Passes, Owed
<1>3. /\ RangeOf(req[r].todo) = {step} \cup RangeOf(req'[r].todo) /\ Asked(req[r])
      /\ RangeOf(req'[r].todo) \subseteq Later(step)
  BY AtStep DEF Passes
<1>4. Status[r] = 0
  BY <1>3 DEF Asked, Status, NoAnswer, Answer
<1>5. QED
  BY <1>1, <1>2, <1>3, <1>4 DEF Owed

(* What is owed at a step: all, unless the step is amid the writes.        *)
LEMMA OwedAt ==
  ASSUME Types, PathInv, OwedInv, NEW r \in Requests, NEW step, At(r, step)
  PROVE  /\ step \notin {"insert_cases", "submit", "cascade"} => Owed[r] = Catalogue!Owes(req[r].op)
         /\ step = "insert_cases" => Owed[r] = {"insert_cases", "submit"}
         /\ step = "submit" => Owed[r] = {"submit"}
         /\ step = "cascade" => Owed[r] = {"cascade"}
         /\ Asking[r].op = req[r].op /\ Asking[r].target = req[r].target
         /\ Asking[r].user = req[r].user /\ req[r].user \in Users /\ Status[r] = 0
<1> DEFINE path == RangeOf(req[r].todo)
<1>1. /\ req[r].todo # <<>> /\ step \in path /\ path \subseteq {step} \cup Later(step)
      /\ Asked(req[r]) /\ step \in StepsOf(req[r].op)
  BY AtStep
<1>2. /\ Asking[r].op = req[r].op /\ Asking[r].target = req[r].target
      /\ Asking[r].user = req[r].user /\ req[r].user \in Users /\ Status[r] = 0
  BY <1>1 DEF Asked, Asking, Status, NoAnswer, Answer
<1>3. Owing(req[r]) /\ Owed[r] = path \cap Writes
  BY DEF OwedInv, Owed
<1> HIDE DEF path
<1>4. \/ path \cap Writes = Catalogue!Owes(req[r].op)
      \/ req[r].op = "start" /\ path \in {{"insert_cases", "submit"}, {"submit"}}
      \/ req[r].op = "deleteEvaluation" /\ path = {"cascade"}
  BY <1>1, <1>3 DEF Owing, path
<1>5. step \notin {"insert_cases", "submit", "cascade"} => Owed[r] = Catalogue!Owes(req[r].op)
  BY <1>1, <1>3, <1>4
<1>6. CASE step \in {"insert_cases", "submit"}
  <2>1. req[r].op = "start" /\ "insert_run" \notin path
    BY <1>1, <1>6, OpOfStep, LastSteps
  <2>2. path \in {{"insert_cases", "submit"}, {"submit"}}
    BY <1>4, <2>1 DEF Catalogue!Owes, Writes
  <2>3. QED
    BY <1>1, <1>2, <1>3, <1>6, <2>2, LastSteps DEF Writes
<1>7. CASE step = "cascade"
  <2>1. path = {"cascade"}
    BY <1>1, <1>7, LastSteps
  <2>2. QED  BY <1>2, <1>3, <1>7, <2>1 DEF Writes
<1>8. QED
  BY <1>2, <1>5, <1>6, <1>7

-----------------------------------------------------------------------------
(* What the gates answer is a refusal, and what fails a 500.               *)
Refuses(answer) == answer.status \in Catalogue!Refusals

LEMMA GatesRefuse ==
  /\ \A f \in ControlPlaneFailures : Refuses(MapControlPlaneError(f))
  /\ \A user, team : Refuses(RequireEntitled(user, team)) \/ RequireEntitled(user, team) = Admitted
  /\ \A user, team : \/ Refuses(ResolveTeamMembership(user, team))
                     \/ ResolveTeamMembership(user, team) = Admitted
  /\ \A user, team : \/ Refuses(ResolveManagedInstance(user, team))
                     \/ ResolveManagedInstance(user, team) = Admitted
  /\ \A answer \in {Refused(404), Refused(409), EvaluationNotFound, RunNotFound} : Refuses(answer)
  /\ \A status \in {401, 403} :
       NormalizeUnstructuredAuthError(Refused(status)).status \in {401, 403}
  /\ \A status \in {200, 201, 202, 204} : Success(status).status = status
  /\ ServerError.status = 500
<1>1. \A s, c : Answer(s, c).status = s
  BY DEF Answer
<1>2. \A s \in DOMAIN UpstreamStatusMap : Refuses(UpstreamStatusMap[s])
  BY <1>1 DEF UpstreamStatusMap, Refuses, Catalogue!Refusals
<1>3. \A f \in ControlPlaneFailures : Refuses(MapControlPlaneError(f))
  BY <1>1, <1>2 DEF MapControlPlaneError, Unavailable, InvalidResponse, Refuses, Catalogue!Refusals
<1>4. [kind |-> "status", status |-> 403] \in ControlPlaneFailures
  BY DEF ControlPlaneFailures, UpstreamStatusMap
<1>5. \A a \in {Refused(404), Refused(409), EvaluationNotFound, RunNotFound, ApplicationNotGranted,
                TargetForbidden} : Refuses(a)
  BY <1>1 DEF Refused, EvaluationNotFound, RunNotFound, ApplicationNotGranted, TargetForbidden,
              Refuses, Catalogue!Refusals
<1>6. \A status \in {401, 403} :
        NormalizeUnstructuredAuthError(Refused(status)).status \in {401, 403}
  BY <1>1 DEF NormalizeUnstructuredAuthError, Refused
<1>7. \A user, team :
        /\ Refuses(RequireEntitled(user, team)) \/ RequireEntitled(user, team) = Admitted
        /\ Refuses(ResolveTeamMembership(user, team)) \/ ResolveTeamMembership(user, team) = Admitted
        /\ Refuses(ResolveManagedInstance(user, team)) \/ ResolveManagedInstance(user, team) = Admitted
  BY <1>3, <1>4, <1>5 DEF RequireEntitled, ResolveTeamMembership, ResolveManagedInstance
<1>8. ServerError.status = 500 /\ \A status \in {200, 201, 202, 204} : Success(status).status = status
  BY <1>1 DEF Success, ServerError, Refused
<1>9. QED
  BY <1>3, <1>5, <1>6, <1>7, <1>8

(* The verdict of a gate that does not let a request go on.                *)
LEMMA Verdict ==
  ASSUME Types, NEW r \in Requests, req[r].answer = NoAnswer, Ends(r), NEW answer,
         Refuses(answer) \/ answer = Admitted, Gate(r, answer) \/ AsksControlPlane(r, answer)
  PROVE  Refuses(req'[r].answer)
<1>1. req'[r].answer # NoAnswer
  BY AnswersAreErrors DEF Ends
<1>2. ASSUME Goes(r) PROVE FALSE
  BY <1>1, <1>2 DEF Goes, Types, RequestTypes
<1>3. CASE Gate(r, answer)
  BY <1>2, <1>3, ReplyAnswer DEF Gate
<1>4. CASE \E f \in ControlPlaneFailures : Reply(r, MapControlPlaneError(f))
  BY <1>4, ReplyAnswer, GatesRefuse
<1>5. QED
  BY <1>3, <1>4 DEF AsksControlPlane

(* A step that only looks.                                                 *)
Looks(r) ==
  \/ IsEntitled(r) \/ IsMemberOfTeam(r) \/ LoadEvaluation(r) \/ LoadRun(r) \/ ResolveVersion(r)
  \/ PrepareTarget(r) \/ CheckCancel(r) \/ CheckDelete(r)

LEMMA LooksRefuse ==
  ASSUME Types, PathInv, NEW r \in Requests, Looks(r) \/ ListRunsToDelete(r), Ends(r)
  PROVE  Refuses(req'[r].answer)
<1>0. req[r].answer = NoAnswer /\ req'[r].answer # NoAnswer
  BY WorksEffect, PathOf, AnswersAreErrors DEF Looks, Works, Asked, Ends
<1>1. CASE IsEntitled(r)
  <2>1. CASE req[r].team = Personal
    <3>1. Reply(r, ApplicationNotGranted) /\ ApplicationNotGranted = RequireEntitled(req[r].user, Personal)
      BY <1>1, <2>1 DEF IsEntitled, RequireEntitled
    <3>2. ApplicationNotGranted # Admitted
      BY DEF ApplicationNotGranted, Admitted, Answer
    <3>3. QED  BY <3>1, <3>2, ReplyAnswer, GatesRefuse
  <2>2. CASE req[r].team # Personal
    <3>1. AsksControlPlane(r, RequireEntitled(req[r].user, req[r].team))
      BY <1>1, <2>2 DEF IsEntitled
    <3>2. QED  BY <1>0, <3>1, Verdict, GatesRefuse
  <2>3. QED  BY <2>1, <2>2
<1>2. CASE IsMemberOfTeam(r) \/ PrepareTarget(r)
  BY <1>0, <1>2, Verdict, GatesRefuse DEF IsMemberOfTeam, PrepareTarget
<1>3. CASE LoadEvaluation(r)
  <2>1. \/ GoesWith(r, evaluations[req[r].target].team)
        \/ \E answer \in {Refused(404), EvaluationNotFound} : Reply(r, answer)
    BY <1>3 DEF LoadEvaluation, GoesWith
  <2>2. QED
    BY <1>0, <2>1, AnswerKept, ReplyAnswer, GatesRefuse
<1>4. CASE LoadRun(r)
  <2>1. \/ GoesWith(r, runs[req[r].target].team)
        \/ \E answer \in {Refused(404), RunNotFound} : Reply(r, answer)
    BY <1>4 DEF LoadRun, GoesWith
  <2>2. QED
    BY <1>0, <2>1, AnswerKept, ReplyAnswer, GatesRefuse
<1>5. CASE ResolveVersion(r)
  <2>1. \/ \E version : GoesWith(r, version)
        \/ \E answer \in {Refused(409), Admitted} : Gate(r, answer)
    BY <1>5 DEF ResolveVersion, GoesWith
  <2>2. QED
    BY <1>0, <2>1, AnswerKept, Verdict, GatesRefuse
<1>6. CASE CheckCancel(r) \/ CheckDelete(r)
  <2>1. \E answer \in {Refused(404), Refused(409), Admitted} : Gate(r, answer)
    BY <1>6 DEF CheckCancel, CheckDelete
  <2>2. QED
    BY <1>0, <2>1, Verdict, GatesRefuse
<1>7. CASE ListRunsToDelete(r)
  <2>1. \/ Reply(r, Refused(409))
        \/ GoesWith(r, RunsOfEvaluation(req[r].target))
    BY <1>7 DEF ListRunsToDelete, GoesWith
  <2>2. QED
    BY <1>0, <2>1, AnswerKept, ReplyAnswer, GatesRefuse
<1>8. QED
  BY <1>1, <1>2, <1>3, <1>4, <1>5, <1>6, <1>7 DEF Looks

(* A step that answers with rows.                                          *)
Reads(r) ==
  ListTeam(r) \/ ListMine(r) \/ ReadEvaluation(r) \/ ReadRun(r) \/ FetchFromControlPlane(r)

LEMMA ReadsAnswer ==
  ASSUME Types, PathInv, NEW r \in Requests, Reads(r)
  PROVE  Refuses(req'[r].answer) \/ req'[r].answer.status = 200
<1>1. \/ \E answer \in {Success(200), EvaluationNotFound, Refused(404)} : Reply(r, answer)
      \/ \E f \in ControlPlaneFailures : Reply(r, MapControlPlaneError(f))
  BY DEF Reads, ListTeam, ListMine, ReadEvaluation, ReadRun, FetchFromControlPlane
<1>2. QED
  BY <1>1, ReplyAnswer, GatesRefuse

-----------------------------------------------------------------------------
(* Every step is one of TeamCatalogue, or none.                            *)
LEMMA LooksRefine ==
  ASSUME Types, PathInv, OwedInv, NEW r \in Requests, Looks(r)
  PROVE  Catalogue!Refuse(r) \/ UNCHANGED Catalogue!catalogue
<1>1. PICK step : At(r, step) /\ step \notin Writes
  BY WorksAt DEF Looks, Writes
<1>2. UNCHANGED <<evaluations, runs>>
  BY DEF Looks, IsEntitled, IsMemberOfTeam, LoadEvaluation, LoadRun, ResolveVersion, PrepareTarget,
         CheckCancel, CheckDelete, Rows
<1>3. Ends(r) \/ Passes(r)
  BY EntitledEffect, MemberEffect, LoadEvaluationEffect, LoadRunEffect, ResolveVersionEffect,
     PrepareEffect, CheckEffect DEF Looks
<1>4. Owed[r] = Catalogue!Owes(Asking[r].op) /\ req[r].todo # <<>>
  BY <1>1, OwedAt, AtStep DEF Writes
<1>5. CASE Ends(r)
  <2>1. Catalogue!Answers(r, Catalogue!Refusals)
    BY <1>4, <1>5, LooksRefuse, EndsView DEF Refuses
  <2>2. QED
    BY <1>2, <1>4, <2>1 DEF Catalogue!Refuse
<1>6. CASE Passes(r)
  <2>1. /\ UNCHANGED <<Asking, Status>>
        /\ Owed' = [Owed EXCEPT ![r] = RangeOf(req'[r].todo) \cap Writes]
        /\ Owed[r] = RangeOf(req'[r].todo) \cap Writes
    BY <1>1, <1>6, PassesView
  <2>2. Owed' = Owed
    BY <2>1 DEF Owed
  <2>3. QED
    BY <1>2, <2>1, <2>2 DEF Catalogue!catalogue
<1>7. QED
  BY <1>3, <1>5, <1>6

LEMMA ReadsRefine ==
  ASSUME Types, PathInv, OwedInv, NEW r \in Requests, Reads(r)
  PROVE  Catalogue!Refuse(r) \/ Catalogue!Read(r)
<1>1. PICK step \in {"list", "mine", "read_evaluation", "read_run", "fetch"} : At(r, step)
  BY WorksAt DEF Reads
<1>2. UNCHANGED <<evaluations, runs>>
  BY DEF Reads, ListTeam, ListMine, ReadEvaluation, ReadRun, FetchFromControlPlane, Rows
<1>3. Ends(r)
  BY ListTeamEffect, ListMineEffect, ReadEvaluationEffect, ReadRunEffect, FetchEffect DEF Reads
<1>4. /\ Owed[r] = Catalogue!Owes(Asking[r].op) /\ req[r].todo # <<>>
      /\ Asking[r].op = req[r].op
  BY <1>1, OwedAt, AtStep
<1>5. req[r].op \in {"list", "mine", "readEvaluation", "readRun", "choices"}
  BY <1>1, AtStep, OpOfStep
<1>6. Catalogue!Owes(Asking[r].op) = {}
  BY <1>4, <1>5 DEF Catalogue!Owes
<1>7. Catalogue!Answers(r, Catalogue!Refusals) \/ Catalogue!Answers(r, {200})
  BY <1>3, <1>4, ReadsAnswer, EndsView DEF Refuses
<1>8. QED
  BY <1>2, <1>4, <1>6, <1>7 DEF Catalogue!Refuse, Catalogue!Read

LEMMA BreaksRefine ==
  ASSUME Types, PathInv, NEW r \in Requests, Ends(r), req[r].todo # <<>>,
         req'[r].answer = ServerError, UNCHANGED <<evaluations, runs>>
  PROVE  Catalogue!Break(r)
<1>1. Catalogue!Answers(r, {500})
  BY GatesRefuse, EndsView
<1>2. QED
  BY <1>1 DEF Catalogue!Break

(* A row a caller may write is of one of his teams.                        *)
LEMMA OwnRow ==
  ASSUME NEW r \in Requests, NEW row, req[r].user \in Users, row.team \in NamedTeams,
         IsMember(req[r].user, row.team)
  PROVE  Catalogue!Own(r, row)
<1>1. Asking[r].user = req[r].user
  BY DEF Asking
<1>2. QED
  BY <1>1 DEF Catalogue!Own

LEMMA NotStored ==
  ASSUME Types, PathInv, BirthInv, NEW r \in Requests
  PROVE  /\ At(r, "insert") => evaluations[r] = NoRow
         /\ At(r, "insert_run") => runs[r] = NoRow
<1>1. r \in Ids
  BY ApiAssumption
<1>2. At(r, "insert") => r \notin Born
  BY AtStep DEF Born
<1>3. At(r, "insert_run") => r \notin RunBorn
  BY AtStep DEF RunBorn
<1>4. QED
  BY <1>1, <1>2, <1>3 DEF BirthInv, EvaluationIds, RunIds

LEMMA CreatorAdmitted ==
  ASSUME Types, PathInv, GateInv, NEW r \in Requests, At(r, "insert")
  PROVE  IsMember(req[r].user, req[r].team) /\ req[r].team \in NamedTeams
<1>1. /\ RangeOf(req[r].todo) \cap Gates = {} /\ Asked(req[r]) /\ req[r].todo # <<>>
      /\ req[r].op = "create"
  BY OwnerKnown, AtStep, OpOfStep DEF Gates
<1>2. req[r].team \in NamedTeams /\ req[r].owner \in {"none", req[r].team}
  BY <1>1 DEF Asked, NamesATeam, TeamOps
<1>3. Admits(req[r])
  BY DEF GateInv
<1>4. QED
  BY <1>1, <1>2, <1>3 DEF Admits, Gates

LEMMA InsertRefines ==
  ASSUME Types, PathInv, OwedInv, BirthInv, GateInv, NEW r \in Requests, InsertEvaluation(r)
  PROVE  Catalogue!Insert(r)
<1> DEFINE row == [team |-> req[r].team, name |-> req[r].name,
                   version |-> req[r].version, by |-> req[r].user]
<1>1. /\ At(r, "insert") /\ UNCHANGED runs /\ Ends(r) /\ req'[r].answer = Success(201)
      /\ evaluations' = [evaluations EXCEPT ![r] = row] /\ row \in EvaluationRows
  BY InsertEvaluationEffect
<1>2. row.team = req[r].team /\ row.by = req[r].user
  OBVIOUS
<1> HIDE DEF row
<1>3. /\ Owed[r] = Catalogue!Owes(req[r].op) /\ Status[r] = 0 /\ req[r].user \in Users
      /\ Asking[r].op = req[r].op /\ Asking[r].user = req[r].user /\ req[r].todo # <<>>
  BY <1>1, OwedAt, AtStep
<1>4. req[r].op = "create"
  BY <1>1, AtStep, OpOfStep
<1>5. Catalogue!Owing(r, "create", {"insert"})
  BY <1>3, <1>4 DEF Catalogue!Owing, Catalogue!Owes
<1>6. Catalogue!Answers(r, {201})
  BY <1>1, <1>3, GatesRefuse, EndsView
<1>7. ~Catalogue!There(evaluations[r]) /\ Catalogue!There(row)
  BY <1>1, NotStored, SeedAssumption DEF Catalogue!There
<1>8. Catalogue!Own(r, row)
  BY <1>1, <1>2, <1>3, CreatorAdmitted, OwnRow
<1>9. evaluations'[r] = row /\ \A e \in Ids \ {r} : evaluations'[e] = evaluations[e]
  BY <1>1, ApiAssumption DEF Types
<1>10. QED
  BY <1>1, <1>2, <1>3, <1>5, <1>6, <1>7, <1>8, <1>9
     DEF Catalogue!Insert, Catalogue!There, Catalogue!Own

LEMMA InsertRunRefines ==
  ASSUME Types, PathInv, OwedInv, BirthInv, OwnerInv, NEW r \in Requests, InsertRun(r)
  PROVE  Catalogue!InsertRun(r) \/ Catalogue!Break(r)
<1> DEFINE e   == req[r].target
           row == [evaluation |-> req[r].target, team |-> req[r].team, by |-> req[r].user,
                   state |-> "pending", cases |-> FALSE, work |-> "none"]
<1>1. /\ At(r, "insert_run") /\ UNCHANGED evaluations
      /\ \/ e \in EvaluationIds /\ Passes(r) /\ runs' = [runs EXCEPT ![r] = row]
         \/ e \notin EvaluationIds /\ Ends(r) /\ UNCHANGED runs /\ req'[r].answer = ServerError
  <2>1. CASE e \in EvaluationIds
    <3>1. runs' = [runs EXCEPT ![r] = row] /\ Goes(r)
      BY <2>1 DEF InsertRun, RunCanBeCreated, CreateRun
    <3>2. Passes(r)
      BY <3>1, GoesPasses DEF InsertRun, At
    <3>3. QED  BY <2>1, <3>1, <3>2 DEF InsertRun
  <2>2. CASE e \notin EvaluationIds
    <3>1. UNCHANGED runs /\ Reply(r, ServerError)
      BY <2>2 DEF InsertRun, RunCanBeCreated
    <3>2. QED  BY <2>2, <3>1, ReplyEnds, AnswersAreErrors DEF InsertRun
  <2>3. QED  BY <2>1, <2>2
<1>2. /\ Owed[r] = Catalogue!Owes(req[r].op) /\ Status[r] = 0 /\ req[r].user \in Users
      /\ Asking[r].op = req[r].op /\ Asking[r].user = req[r].user /\ Asking[r].target = e
      /\ req[r].todo # <<>> /\ Asked(req[r])
  BY <1>1, OwedAt, AtStep
<1>3. req[r].op = "start" /\ req[r].op \in EvaluationOps
  BY <1>1, AtStep, OpOfStep DEF EvaluationOps
<1>4. CASE e \notin EvaluationIds /\ Ends(r) /\ UNCHANGED runs /\ req'[r].answer = ServerError
  BY <1>1, <1>2, <1>4, BreaksRefine
<1>5. CASE e \in EvaluationIds /\ Passes(r) /\ runs' = [runs EXCEPT ![r] = row]
  <2>1. Catalogue!Owing(r, "start", Catalogue!Owes("start"))
    BY <1>2, <1>3 DEF Catalogue!Owing
  <2>2. evaluations[e] # NoRow
    BY <1>5 DEF EvaluationIds
  <2>3. evaluations[e].team = req[r].team /\ req[r].team \in NamedTeams
    <3>1. req[r].owner # "none" /\ req[r].owner = req[r].team /\ req[r].team \in NamedTeams
      BY <1>1, <1>2, <1>3, OwnerKnown DEF Gates, Asked, NamesATeam
    <3>2. QED  BY <1>3, <2>2, <3>1 DEF OwnerInv, Owned
  <2>4. IsMember(req[r].user, req[r].team)
    <3>1. "prepare" \notin RangeOf(req[r].todo)
      <4>1. RangeOf(req[r].todo) \subseteq {"insert_run"} \cup Later("insert_run")
        BY <1>1, AtStep
      <4>2. QED  BY <4>1, LastSteps
    <3>2. QED  BY <1>2, <1>3, <3>1 DEF OwedInv, Prepared
  <2>5. Catalogue!Own(r, evaluations[e])
    BY <1>2, <2>3, <2>4, OwnRow
  <2>6. Catalogue!Wrote(r, "insert_run")
    <3>1. /\ UNCHANGED <<Asking, Status>>
          /\ Owed' = [Owed EXCEPT ![r] = RangeOf(req'[r].todo) \cap Writes]
          /\ Owed[r] = ({"insert_run"} \cup RangeOf(req'[r].todo)) \cap Writes
          /\ RangeOf(req'[r].todo) \subseteq Later("insert_run")
      BY <1>1, <1>5, PassesView
    <3>2. RangeOf(req'[r].todo) \cap Writes = Owed[r] \ {"insert_run"}
      BY <3>1, LastSteps
    <3>3. QED  BY <3>1, <3>2 DEF Catalogue!Wrote
  <2>7. runs[r] = NoRow
    BY <1>1, NotStored
  <2>8. row = [evaluation |-> e, team |-> evaluations[e].team, by |-> Asking[r].user,
               state |-> "pending", cases |-> FALSE, work |-> "none"]
    BY <1>2, <2>3
  <2> HIDE DEF row, e
  <2>9. QED
    BY <1>1, <1>2, <1>5, <2>1, <2>2, <2>5, <2>6, <2>7, <2>8
       DEF Catalogue!InsertRun, Catalogue!There
<1>6. QED  BY <1>1, <1>4, <1>5

LEMMA InsertCasesRefines ==
  ASSUME Types, PathInv, OwedInv, NEW r \in Requests, InsertCases(r)
  PROVE  Catalogue!InsertCases(r) \/ Catalogue!Break(r)
<1>1. /\ At(r, "insert_cases") /\ UNCHANGED evaluations
      /\ \/ r \in RunIds /\ runs' = [runs EXCEPT ![r].cases = TRUE] /\ Passes(r)
         \/ Ends(r) /\ req'[r].answer = ServerError /\ UNCHANGED runs
  BY InsertCasesEffect
<1>2. /\ Owed[r] = {"insert_cases", "submit"} /\ Status[r] = 0
      /\ Asking[r].op = req[r].op /\ req[r].todo # <<>> /\ req[r].op = "start"
  BY <1>1, OwedAt, AtStep, OpOfStep
<1>3. CASE Ends(r) /\ req'[r].answer = ServerError /\ UNCHANGED runs
  BY <1>1, <1>2, <1>3, BreaksRefine
<1>4. CASE r \in RunIds /\ runs' = [runs EXCEPT ![r].cases = TRUE] /\ Passes(r)
  <2>1. /\ UNCHANGED <<Asking, Status>>
        /\ Owed' = [Owed EXCEPT ![r] = RangeOf(req'[r].todo) \cap Writes]
        /\ Owed[r] = ({"insert_cases"} \cup RangeOf(req'[r].todo)) \cap Writes
        /\ RangeOf(req'[r].todo) \subseteq Later("insert_cases")
    BY <1>1, <1>4, PassesView
  <2>2. RangeOf(req'[r].todo) \cap Writes = Owed[r] \ {"insert_cases"}
    BY <2>1, LastSteps
  <2>3. Catalogue!Wrote(r, "insert_cases")
    BY <2>1, <2>2 DEF Catalogue!Wrote
  <2>4. QED
    BY <1>1, <1>2, <1>4, <2>3
       DEF Catalogue!InsertCases, Catalogue!Owing, Catalogue!There, RunIds
<1>5. QED  BY <1>1, <1>3, <1>4

LEMMA SubmitRefines ==
  ASSUME Types, PathInv, OwedInv, NEW r \in Requests, StartWorkflow(r)
  PROVE  Catalogue!Submit(r)
<1>1. /\ At(r, "submit") /\ UNCHANGED evaluations /\ Ends(r) /\ req'[r].answer = Success(202)
      /\ runs' = IF TemporalConfigured /\ r \in RunIds
                 THEN [runs EXCEPT ![r].work = "submitted"] ELSE runs
  BY StartEffect
<1>2. /\ Owed[r] = {"submit"} /\ Status[r] = 0
      /\ Asking[r].op = req[r].op /\ req[r].todo # <<>> /\ req[r].op = "start"
  BY <1>1, OwedAt, AtStep, OpOfStep
<1>3. Catalogue!Answers(r, {202})
  BY <1>1, <1>2, GatesRefuse, EndsView
<1>4. r \in RunIds <=> Catalogue!There(runs[r])
  BY ApiAssumption DEF RunIds, Catalogue!There
<1>5. QED
  BY <1>1, <1>2, <1>3, <1>4 DEF Catalogue!Submit, Catalogue!Owing

(* The run a request cancels or deletes is of a team of its caller.        *)
LEMMA OwnTarget ==
  ASSUME Types, PathInv, OwnerInv, GateInv, NEW r \in Requests,
         At(r, "cancel") \/ At(r, "delete"), runs[req[r].target] # NoRow
  PROVE  Catalogue!Own(r, runs[req[r].target])
<1> DEFINE x == req[r].target
<1>1. PICK step \in {"cancel", "delete"} : At(r, step)
  OBVIOUS
<1>2. req[r].op \in RunOps /\ req[r].op \notin {"start", "mine"}
  BY <1>1, AtStep, OpOfStep DEF RunOps
<1>3. Asked(req[r]) /\ req[r].owner # "none" /\ IsMember(req[r].user, req[r].owner)
  BY <1>1, <1>2, OwnerKnown, AdmittedToTeam DEF Gates
<1>4. x \in RunIds /\ req[r].user \in Users
  BY <1>2, <1>3 DEF RunIds, Asked
<1>5. runs[x].team = req[r].owner /\ runs[x].team \in NamedTeams
  BY <1>2, <1>3, <1>4, RowTypes, RowsTyped DEF OwnerInv, Owned
<1>6. QED
  BY <1>3, <1>4, <1>5, OwnRow

LEMMA CancelRefines ==
  ASSUME Types, PathInv, OwedInv, OwnerInv, GateInv, NEW r \in Requests, CancelRun(r)
  PROVE  Catalogue!Cancel(r)
<1> DEFINE x == req[r].target
<1>1. /\ At(r, "cancel") /\ UNCHANGED evaluations /\ Ends(r) /\ req'[r].answer = Success(202)
      /\ IF x \in RunIds THEN runs' = [runs EXCEPT ![x].state = "cancelled"] ELSE UNCHANGED runs
  BY CancelEffect
<1>2. /\ Owed[r] = {"cancel"} /\ Status[r] = 0 /\ Asking[r].target = x
      /\ Asking[r].op = req[r].op /\ req[r].todo # <<>> /\ req[r].op = "cancelRun" /\ x \in Ids
  BY <1>1, OwedAt, AtStep, OpOfStep DEF Catalogue!Owes, Asked, RunOps
<1>3. Catalogue!Answers(r, {202})
  BY <1>1, <1>2, GatesRefuse, EndsView
<1>4. x \in RunIds <=> Catalogue!There(runs[x])
  BY <1>2 DEF RunIds, Catalogue!There
<1>5. Catalogue!There(runs[x]) => Catalogue!Own(r, runs[x])
  BY <1>1, OwnTarget DEF Catalogue!There
<1> HIDE DEF x
<1>6. QED
  BY <1>1, <1>2, <1>3, <1>4, <1>5 DEF Catalogue!Cancel, Catalogue!Owing

LEMMA DeleteRefines ==
  ASSUME Types, PathInv, OwedInv, OwnerInv, GateInv, NEW r \in Requests, EraseRun(r)
  PROVE  Catalogue!Delete(r)
<1> DEFINE x == req[r].target
<1>1. /\ At(r, "delete") /\ UNCHANGED evaluations /\ Ends(r) /\ req'[r].answer = Success(204)
      /\ runs' = [runs EXCEPT ![x] = NoRow]
  BY EraseRunEffect DEF Erased
<1>2. /\ Owed[r] = {"delete"} /\ Status[r] = 0 /\ Asking[r].target = x
      /\ Asking[r].op = req[r].op /\ req[r].todo # <<>> /\ req[r].op = "deleteRun"
  BY <1>1, OwedAt, AtStep, OpOfStep DEF Catalogue!Owes
<1>3. Catalogue!Answers(r, {204})
  BY <1>1, <1>2, GatesRefuse, EndsView
<1>4. Catalogue!There(runs[x]) => Catalogue!Own(r, runs[x])
  BY <1>1, OwnTarget DEF Catalogue!There
<1> HIDE DEF x
<1>5. QED
  BY <1>1, <1>2, <1>3, <1>4 DEF Catalogue!Delete, Catalogue!Owing

LEMMA RunsOfTarget ==
  \A e : Catalogue!RunsOf(e) = RunsOfEvaluation(e)
BY DEF Catalogue!RunsOf, Catalogue!There, RunsOfEvaluation, RunIds

LEMMA ListRunsRefines ==
  ASSUME Types, PathInv, OwedInv, NEW r \in Requests, ListRunsToDelete(r)
  PROVE  Catalogue!ListRuns(r) \/ Catalogue!Refuse(r)
<1> DEFINE found == RunsOfEvaluation(req[r].target)
<1>1. At(r, "list_runs") /\ UNCHANGED <<evaluations, runs>> /\ (Ends(r) \/ Passes(r))
  BY ListRunsEffect DEF Rows
<1>2. /\ Owed[r] = Catalogue!Owes(req[r].op) /\ Status[r] = 0 /\ Asking[r].target = req[r].target
      /\ Asking[r].op = req[r].op /\ req[r].todo # <<>> /\ req[r].op = "deleteEvaluation"
      /\ req[r].answer = NoAnswer
  BY <1>1, OwedAt, AtStep, OpOfStep DEF Asked
<1>3. CASE Ends(r)
  <2>1. Catalogue!Answers(r, Catalogue!Refusals)
    BY <1>2, <1>3, LooksRefuse, EndsView DEF Refuses
  <2>2. QED
    BY <1>1, <1>2, <2>1 DEF Catalogue!Refuse
<1>4. CASE Passes(r)
  <2>1. \A x \in found : runs[x].state # "running"
    <3>1. SUFFICES ASSUME \E x \in found : runs[x].state = "running" PROVE FALSE
      OBVIOUS
    <3>2. Ends(r)
      BY <3>1, ReplyEnds, AnswersAreErrors DEF ListRunsToDelete
    <3>3. QED
      BY <1>2, <1>4, <3>2, AnswersAreErrors DEF Ends, Passes
  <2>2. /\ UNCHANGED <<Asking, Status>>
        /\ Owed' = [Owed EXCEPT ![r] = RangeOf(req'[r].todo) \cap Writes]
        /\ Owed[r] = ({"list_runs"} \cup RangeOf(req'[r].todo)) \cap Writes
        /\ RangeOf(req'[r].todo) \subseteq Later("list_runs")
    BY <1>1, <1>4, PassesView
  <2>3. RangeOf(req'[r].todo) \cap Writes = Owed[r] \ {"list_runs"}
    BY <2>2 DEF Later
  <2>4. Catalogue!Wrote(r, "list_runs")
    BY <2>2, <2>3 DEF Catalogue!Wrote
  <2>5. QED
    BY <1>1, <1>2, <2>1, <2>4, RunsOfTarget DEF Catalogue!ListRuns, Catalogue!Owing
<1>5. QED  BY <1>1, <1>3, <1>4

(* What a cascade deletes is of a team of the caller.                      *)
LEMMA OwnCascade ==
  ASSUME Types, PathInv, OwnerInv, GateInv, NEW r \in Requests, At(r, "cascade")
  PROVE  /\ \A x \in RunsOfEvaluation(req[r].target) : Catalogue!Own(r, runs[x])
         /\ req[r].target \in EvaluationIds => Catalogue!Own(r, evaluations[req[r].target])
         /\ \A x \in req[r].listed \cap RunIds : x \in RunsOfEvaluation(req[r].target)
<1> DEFINE e == req[r].target
<1>1. req[r].op \in EvaluationOps /\ req[r].op \notin {"start", "mine"}
  BY AtStep, OpOfStep DEF EvaluationOps
<1>2. /\ Asked(req[r]) /\ req[r].owner # "none" /\ IsMember(req[r].user, req[r].owner)
      /\ req[r].user \in Users
  BY <1>1, OwnerKnown, AdmittedToTeam DEF Gates, Asked
<1>3. Owned(req[r], evaluations, runs)
  BY DEF OwnerInv
<1>4. e \in EvaluationIds => evaluations[e].team = req[r].owner /\ evaluations[e].team \in NamedTeams
  BY <1>1, <1>2, <1>3, RowTypes, RowsTyped DEF Owned, EvaluationIds
<1>5. \A x \in RunsOfEvaluation(e) : runs[x].team = req[r].owner /\ runs[x].team \in NamedTeams
  BY <1>4 DEF OwnerInv, RunsOfEvaluation
<1>6. \A x \in req[r].listed \cap RunIds : x \in RunsOfEvaluation(e)
  BY <1>3 DEF Owned, RunIds, RunsOfEvaluation
<1>7. QED
  BY <1>2, <1>4, <1>5, <1>6, OwnRow

LEMMA DeleteOneRefines ==
  ASSUME Types, PathInv, OwedInv, OwnerInv, GateInv, NEW r \in Requests, DeleteListedRun(r)
  PROVE  Catalogue!DeleteOne(r) \/ UNCHANGED Catalogue!catalogue
<1>1. PICK x \in req[r].listed :
        /\ At(r, "cascade") /\ UNCHANGED evaluations /\ runs' = [runs EXCEPT ![x] = NoRow]
        /\ req' = [req EXCEPT ![r].listed = @ \ {x}]
  BY DeleteListedEffect DEF Erased
<1>2. UNCHANGED <<Asking, Owed, Status>>
  <2>1. \A q \in Requests : /\ req'[q].op = req[q].op /\ req'[q].user = req[q].user
                            /\ req'[q].target = req[q].target /\ req'[q].todo = req[q].todo
                            /\ req'[q].answer = req[q].answer
    BY <1>1 DEF Types, RequestTypes
  <2>2. QED  BY <2>1 DEF Asking, Owed, Status
<1>3. /\ Owed[r] = {"cascade"} /\ Status[r] = 0 /\ Asking[r].target = req[r].target
      /\ Asking[r].op = req[r].op /\ req[r].op = "deleteEvaluation"
  BY <1>1, OwedAt, AtStep, OpOfStep
<1>4. CASE x \in RunIds
  <2>1. x \in RunsOfEvaluation(req[r].target) /\ Catalogue!Own(r, runs[x])
    BY <1>1, <1>4, OwnCascade
  <2>2. QED
    BY <1>1, <1>2, <1>3, <2>1, RunsOfTarget DEF Catalogue!DeleteOne, Catalogue!Owing
<1>5. CASE x \notin RunIds
  <2>1. x \in Ids
    BY DEF Types, RequestTypes
  <2>2. runs' = runs
    BY <1>1, <1>5, <2>1 DEF RunIds, Types
  <2>3. QED
    BY <1>1, <1>2, <2>2 DEF Catalogue!catalogue
<1>6. QED  BY <1>4, <1>5

LEMMA DeleteEvaluationRefines ==
  ASSUME Types, PathInv, OwedInv, OwnerInv, GateInv, NEW r \in Requests, DeleteEvaluationRow(r)
  PROVE  Catalogue!DeleteEvaluation(r) \/ Catalogue!Break(r)
<1> DEFINE e == req[r].target
<1>1. /\ At(r, "cascade") /\ UNCHANGED runs /\ Ends(r)
      /\ \/ /\ RunsOfEvaluation(e) = {} /\ evaluations' = [evaluations EXCEPT ![e] = NoRow]
            /\ req'[r].answer = Success(204)
         \/ UNCHANGED evaluations /\ req'[r].answer = ServerError
  BY DeleteRowEffect
<1>2. /\ Owed[r] = {"cascade"} /\ Status[r] = 0 /\ Asking[r].target = e
      /\ Asking[r].op = req[r].op /\ req[r].op = "deleteEvaluation" /\ req[r].todo # <<>>
      /\ e \in Ids
  BY <1>1, OwedAt, AtStep, OpOfStep DEF Asked, EvaluationOps
<1>3. CASE UNCHANGED evaluations /\ req'[r].answer = ServerError
  BY <1>1, <1>2, <1>3, BreaksRefine
<1>4. CASE /\ RunsOfEvaluation(e) = {} /\ evaluations' = [evaluations EXCEPT ![e] = NoRow]
           /\ req'[r].answer = Success(204)
  <2>1. Catalogue!Answers(r, {204})
    BY <1>1, <1>2, <1>4, GatesRefuse, EndsView
  <2>2. Catalogue!There(evaluations[e]) => Catalogue!Own(r, evaluations[e])
    BY <1>1, <1>2, OwnCascade DEF Catalogue!There, EvaluationIds
  <2> HIDE DEF e
  <2>3. QED
    BY <1>1, <1>2, <1>4, <2>1, <2>2, RunsOfTarget DEF Catalogue!DeleteEvaluation, Catalogue!Owing
<1>5. QED  BY <1>1, <1>3, <1>4

LEMMA ArriveRefines ==
  ASSUME Types, PathInv, NEW r \in Requests, Arrive(r)
  PROVE  Catalogue!Ask(r)
<1>1. /\ req[r] = NoRequest /\ UNCHANGED <<evaluations, runs>>
      /\ \A q \in Requests \ {r} : req'[q] = req[q]
      /\ req'[r].op \in Ops /\ req'[r].user \in Users /\ req'[r].answer = NoAnswer
      /\ IsRoute(req'[r].op, req'[r].surface, req'[r].todo)
  BY ArriveEffect DEF Rows
<1>2. /\ Asking[r].op = "none" /\ Asking'[r].op = req'[r].op /\ Asking'[r].user = req'[r].user
      /\ \A q \in Requests \ {r} : Asking'[q] = Asking[q]
  BY <1>1, NoRequestFacts DEF Asking
<1>3. Owed' = [Owed EXCEPT ![r] = Catalogue!Owes(Asking'[r].op)]
  <2>1. Owed'[r] = Catalogue!Owes(Asking'[r].op)
    BY <1>1, <1>2, RouteOwes DEF Owed
  <2>2. \A q \in Requests \ {r} : Owed'[q] = Owed[q]
    BY <1>1 DEF Owed
  <2>3. QED
    BY <2>1, <2>2 DEF Owed
<1>4. UNCHANGED Status
  BY <1>1, NoRequestFacts DEF Status
<1>5. QED
  BY <1>1, <1>2, <1>3, <1>4, StepsOwed DEF Catalogue!Ask, Catalogue!Asks

LEMMA UnauthenticatedRefines ==
  ASSUME Types, PathInv, NEW r \in Requests, Unauthenticated(r)
  PROVE  Catalogue!TurnAway(r)
<1>1. /\ req[r] = NoRequest /\ UNCHANGED <<evaluations, runs>>
      /\ \A q \in Requests \ {r} : req'[q] = req[q]
      /\ req'[r].op = "refused" /\ req'[r].todo = <<>>
  BY UnauthenticatedEffect DEF Rows
<1>2. req'[r].answer.status \in {401, 403}
  <2>1. PICK status \in {401, 403} :
          req' = [req EXCEPT ![r] =
                    [NoRequest EXCEPT !.op = "refused",
                       !.answer = NormalizeUnstructuredAuthError(Refused(status))]]
    BY DEF Unauthenticated
  <2>2. req'[r].answer = NormalizeUnstructuredAuthError(Refused(status))
    BY <2>1, NoRequestFacts DEF Types, RequestTypes
  <2>3. QED  BY <2>2, GatesRefuse
<1>3. /\ Asking[r].op = "none" /\ Asking'[r].op = "refused"
      /\ \A q \in Requests \ {r} : Asking'[q] = Asking[q]
  BY <1>1, NoRequestFacts DEF Asking
<1>4. UNCHANGED Owed
  BY <1>1, NoRequestFacts DEF Owed
<1>5. \E code \in {401, 403} : Status' = [Status EXCEPT ![r] = code]
  <2> DEFINE code == req'[r].answer.status
  <2>1. Status'[r] = code /\ \A q \in Requests \ {r} : Status'[q] = Status[q]
    BY <1>1 DEF Status
  <2>2. code \in {401, 403}
    BY <1>2
  <2> HIDE DEF code
  <2>3. Status' = [Status EXCEPT ![r] = code]
    BY <2>1 DEF Status
  <2> WITNESS code \in {401, 403}
  <2>4. QED  BY <2>3
<1>6. QED
  BY <1>1, <1>3, <1>4, <1>5 DEF Catalogue!TurnAway, Catalogue!Asks

LEMMA WorkerRefines ==
  ASSUME WorkerStep
  PROVE  \E x \in Ids : \/ Catalogue!Executed(x, "submitted", "running", "begun")
                        \/ Catalogue!Executed(x, "begun", "completed", "ended")
<1>1. PICK x \in Ids : WorkerStarts(x) \/ WorkerEnds(x)
  BY DEF WorkerStep
<1>2. UNCHANGED <<Asking, Owed, Status>>
  BY <1>1 DEF WorkerStarts, WorkerEnds, Asking, Owed, Status
<1>3. QED
  BY <1>1, <1>2 DEF WorkerStarts, WorkerEnds, Catalogue!Executed, Catalogue!There, RunIds

LEMMA CatalogueStep ==
  ASSUME IndInv, OwedInv, [Next]_vars
  PROVE  [Catalogue!Next]_Catalogue!catalogue
<1>0. Types /\ PathInv /\ BirthInv /\ OwnerInv /\ GateInv
  BY DEF IndInv
<1>1. CASE \E r \in Requests : Arrive(r)
  BY <1>0, <1>1, ArriveRefines DEF Catalogue!Next
<1>2. CASE \E r \in Requests : Unauthenticated(r)
  BY <1>0, <1>2, UnauthenticatedRefines DEF Catalogue!Next
<1>3. CASE \E r \in Requests : Looks(r)
  BY <1>0, <1>3, LooksRefine DEF Catalogue!Next
<1>4. CASE \E r \in Requests : Reads(r)
  BY <1>0, <1>4, ReadsRefine DEF Catalogue!Next
<1>5. CASE \E r \in Requests : RequestFails(r)
  <2>1. PICK r \in Requests : RequestFails(r)
    BY <1>5
  <2>2. Catalogue!Break(r)
    BY <1>0, <2>1, FailEffect, BreaksRefine DEF Rows
  <2>3. QED  BY <2>2 DEF Catalogue!Next
<1>6. CASE \E r \in Requests : InsertEvaluation(r)
  BY <1>0, <1>6, InsertRefines DEF Catalogue!Next
<1>7. CASE \E r \in Requests : InsertRun(r) \/ InsertCases(r) \/ StartWorkflow(r)
  BY <1>0, <1>7, InsertRunRefines, InsertCasesRefines, SubmitRefines DEF Catalogue!Next
<1>8. CASE \E r \in Requests : CancelRun(r) \/ EraseRun(r)
  BY <1>0, <1>8, CancelRefines, DeleteRefines DEF Catalogue!Next
<1>9. CASE \E r \in Requests : ListRunsToDelete(r) \/ DeleteListedRun(r) \/ DeleteEvaluationRow(r)
  BY <1>0, <1>9, ListRunsRefines, DeleteOneRefines, DeleteEvaluationRefines DEF Catalogue!Next
<1>10. CASE WorkerStep
  BY <1>10, WorkerRefines DEF Catalogue!Next
<1>11. CASE UNCHANGED vars
  BY <1>11 DEF vars, Catalogue!catalogue, Asking, Owed, Status
<1>12. QED
  BY <1>1, <1>2, <1>3, <1>4, <1>5, <1>6, <1>7, <1>8, <1>9, <1>10, <1>11, NextCases
     DEF Works, Looks, Reads

LEMMA CatalogueInit == Init => Catalogue!Init
<1> SUFFICES ASSUME Init PROVE Catalogue!Init
  OBVIOUS
<1>0. Types /\ OwnerInv
  BY InitIndInv DEF IndInv
<1>1. \A x \in Ids : Catalogue!There(runs[x]) =>
        /\ Catalogue!There(evaluations[runs[x].evaluation])
        /\ runs[x].team = evaluations[runs[x].evaluation].team
  BY <1>0 DEF Catalogue!There, OwnerInv, RunIds, EvaluationIds
<1>2. ASSUME NEW r \in Requests
      PROVE  /\ ~Catalogue!There(evaluations[r]) /\ ~Catalogue!There(runs[r])
             /\ Asking[r].op = "none" /\ Owed[r] = {} /\ Status[r] = 0
  <2>1. evaluations[r] = NoRow /\ runs[r] = NoRow
    BY ApiAssumption DEF Init, CatalogInit
  <2>2. req[r] = NoRequest
    BY DEF Init
  <2>3. NoAnswer.status = 0
    BY DEF NoAnswer, Answer
  <2>4. QED
    BY <2>1, <2>2, <2>3, NoRequestFacts, EmptyPath
       DEF Catalogue!There, Asking, Owed, Status
<1>3. QED
  BY <1>1, <1>2 DEF Catalogue!Init

(* For any teams, callers, requests and failures, what three surfaces show *)
(* of the rows is what TeamCatalogue promises: a request is refused before *)
(* its first write, does its writes in their order and is answered after   *)
(* the last, and each row it writes is, at that moment, of a team of its   *)
(* caller.                                                                 *)
THEOREM CatalogueImplemented == Spec => ImplementsCatalogue
<1>1. IndInv /\ OwedInv /\ [Next]_vars => [Catalogue!Next]_Catalogue!catalogue
  BY CatalogueStep
<1>2. QED
  BY <1>1, CatalogueInit, Invariance, OwedInvariant, PTL
     DEF Spec, ImplementsCatalogue, Catalogue!Spec
=============================================================================
