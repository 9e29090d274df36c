---------------------------- MODULE MCEvaluationApi ----------------------------
(***************************************************************************)
(* An instance of EvaluationApi: an evaluation of each of two teams, a     *)
(* user of each, and only the first team granted the application.  The     *)
(* first evaluation has a run the worker is about to start, created by the *)
(* user of the other team before he left this one.                         *)
(***************************************************************************)
EXTENDS EvaluationApi

CONSTANTS q1, q2, e1, e2, x1, t1, t2, u1, u2

MCIds     == {q1, q2, e1, e2, x1}
MCTeams   == {t1, t2}
MCMembers == u1 :> {t1} @@ u2 :> {t2}
MCSeedEvaluations ==
  e1 :> [team |-> t1, name |-> "set", version |-> Version("v", 1), by |-> u1]
    @@ e2 :> [team |-> t2, name |-> "set", version |-> Version("v", 1), by |-> u2]
MCSeedRuns ==
  x1 :> [evaluation |-> e1, team |-> t1, by |-> u2, state |-> "pending",
         cases |-> TRUE, work |-> "submitted"]
MCDeclared == {Version("v", 2), Version("label", 0)}

RequestSymmetry == Permutations({q1, q2})
=============================================================================
