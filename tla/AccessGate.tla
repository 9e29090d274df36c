------------------------------ MODULE AccessGate ------------------------------
(***************************************************************************)
(* Who may do what, and how a refusal is worded: the answers of the        *)
(* evaluator (execution/evaluator_errors.py) and the decisions its gates   *)
(* take from one reply of the Control Plane (execution/team_resolver.py,   *)
(* execution/runtime_resolver.py, hosted/entitlement.py).  The Control     *)
(* Plane itself is external: it knows the members of a team and the teams  *)
(* the application is granted to, or it fails in one of the ways the       *)
(* client tells apart.                                                     *)
(***************************************************************************)
EXTENDS Naturals, FiniteSets

CONSTANTS Users,
          Teams,            \* the teams the Control Plane knows
          Personal,         \* PERSONAL_TEAM_ALIAS, every caller's own team
          Members,          \* the teams of each user
          Granted           \* the teams granted the evaluation application

ASSUME AccessAssumption ==
  /\ Members \in [Users -> SUBSET Teams]
  /\ Granted \subseteq Teams
  /\ Personal \notin Teams

NamedTeams == Teams \cup {Personal}

IsMember(user, team) == team = Personal \/ team \in Members[user]

-----------------------------------------------------------------------------
(* Answers: a status and the code of an EvaluatorErrorDetail; "text" is an *)
(* HTTPException with a bare string, "none" a body that is not an error.   *)
Answer(status, code) == [status |-> status, code |-> code]

Success(status)       == Answer(status, "none")
Refused(status)       == Answer(status, "text")
ServerError           == Refused(500)
EvaluationNotFound    == Answer(404, "evaluation_not_found")
RunNotFound           == Answer(404, "run_not_found")
ApplicationNotGranted == Answer(403, "application_not_granted")
TargetForbidden       == Answer(403, "target_forbidden")

(* A gate either lets the request go on or answers it.                     *)
Admitted == Answer(0, "admitted")

(* Mutant of NormalizeUnstructuredAuthError: the handler is not installed. *)
NormalizeNothing(answer) == answer

(* What fred-core raises before any route has a bare string: a 401 or 403  *)
(* of that kind gets a code, everything else is left as it is.             *)
NormalizeUnstructuredAuthError(answer) ==
  IF answer.code # "text" THEN answer
  ELSE CASE answer.status = 401 -> Answer(401, "authentication_required")
         [] answer.status = 403 -> Answer(403, "access_forbidden")
         [] OTHER               -> answer

-----------------------------------------------------------------------------
(* The ways a call fails: an error status (400 stands for a status without *)
(* a meaning here, 500 for any 5xx), a timeout, a broken connection, or a  *)
(* 2xx body that makes no sense.                                           *)
UpstreamStatusMap ==
  [status \in {401, 403, 404, 409, 422} |->
     Answer(status,
            CASE status = 401 -> "control_plane_authentication_failed"
              [] status = 403 -> "target_forbidden"
              [] status = 404 -> "target_not_found"
              [] status = 409 -> "target_unavailable"
              [] status = 422 -> "target_invalid")]

ControlPlaneFailures ==
  [kind : {"status"}, status : DOMAIN UpstreamStatusMap \cup {400, 500}]
    \cup [kind : {"timeout", "transport", "invalid_response"}, status : {0}]

Unavailable     == Answer(503, "control_plane_unavailable")
InvalidResponse == Answer(502, "control_plane_invalid_response")

MapControlPlaneError(failure) ==
  CASE failure.kind = "invalid_response"          -> InvalidResponse
    [] failure.kind \in {"timeout", "transport"}  -> Unavailable
    [] failure.status \in DOMAIN UpstreamStatusMap -> UpstreamStatusMap[failure.status]
    [] failure.status \in 500..599                -> Unavailable
    [] OTHER                                      -> InvalidResponse

-----------------------------------------------------------------------------
(* get_team: is_member decides.                                            *)
ResolveTeamMembership(user, team) ==
  IF IsMember(user, team) THEN Admitted ELSE TargetForbidden

(* require_entitled: the alias is refused unasked; the Control Plane       *)
(* refuses a non-member and lists the applications of the team otherwise.  *)
RequireEntitled(user, team) ==
  IF team = Personal THEN ApplicationNotGranted
  ELSE IF ~IsMember(user, team) THEN MapControlPlaneError([kind |-> "status", status |-> 403])
  ELSE IF team \notin Granted THEN ApplicationNotGranted
  ELSE Admitted

(* prepare-execution: the Control Plane refuses a caller who is not of the *)
(* team of the instance.                                                   *)
ResolveManagedInstance(user, team) ==
  IF IsMember(user, team) THEN Admitted
  ELSE MapControlPlaneError([kind |-> "status", status |-> 403])

Answers ==
  {Success(s) : s \in {200, 201, 202, 204}}
    \cup {Refused(s) : s \in {404, 409, 500}}
    \cup {EvaluationNotFound, RunNotFound, ApplicationNotGranted}
    \cup {MapControlPlaneError(f) : f \in ControlPlaneFailures}
    \cup {Answer(401, "authentication_required"), Answer(403, "access_forbidden")}
=============================================================================
