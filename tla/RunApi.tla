-------------------------------- MODULE RunApi --------------------------------
(***************************************************************************)
(* The API process: start_run, cancel_run and delete_run (runs/service.py, *)
(* runs/api.py).  A handler is a coroutine that awaits the database, so    *)
(* each await is a step of its own and any other process may run between   *)
(* two of them.  A handler that stops between two steps is a crash of the  *)
(* API process or a database call that raised: nothing undoes what the     *)
(* earlier steps committed.                                                *)
(***************************************************************************)
EXTENDS RunStore

CONSTANTS Cancels,          \* the POST /runs/{run_id}/cancel requests
          Deletes           \* the DELETE /runs/{run_id} requests

ASSUME RequestsAssumption == Cancels \cap Deletes = {}

VARIABLES
  launch,       \* progress of start_run / launch_run
  request       \* progress of each cancel or delete request

api == <<launch, request>>

LaunchStates  == {"new", "creating", "created", "submitted", "failed"}
RequestStates == {"idle", "checked", "done", "refused"}

-----------------------------------------------------------------------------
(* start_run: the run row is committed first, the cases one by one after.  *)
StartRun ==
  /\ launch = "new"
  /\ launch' = "creating"
  /\ CreateRun
  /\ UNCHANGED request

StartRunCreatesCase(c) ==
  /\ launch = "creating"
  /\ ~CaseExists(c)
  /\ CreateCase(c)
  /\ launch' = IF CaseRowsOf \cup {c} = Cases THEN "created" ELSE "creating"
  /\ UNCHANGED request

(* create_case raises: the database is unreachable, or the run it belongs  *)
(* to has been deleted in the meantime.  The committed rows stay.          *)
StartRunFails ==
  /\ launch = "creating"
  /\ launch' = "failed"
  /\ UNCHANGED <<db, request>>

-----------------------------------------------------------------------------
(* cancel_run: read the row, refuse 404 or 409, then write "cancelled".    *)
CancelChecks(r) ==
  /\ request[r] = "idle"
  /\ request' = [request EXCEPT ![r] =
                   IF RunExists /\ run.state \notin TerminalRunStates
                   THEN "checked" ELSE "refused"]
  /\ UNCHANGED <<db, launch>>

CancelWrites(r) ==
  /\ request[r] = "checked"
  /\ UpdateRunState("cancelled")
  /\ request' = [request EXCEPT ![r] = "done"]
  /\ UNCHANGED launch

(* delete_run: read the row, refuse 404 or (only while "running") 409,     *)
(* then delete everything of the run in one transaction.                   *)
DeleteChecks(r) ==
  /\ request[r] = "idle"
  /\ request' = [request EXCEPT ![r] =
                   IF RunExists /\ run.state # "running"
                   THEN "checked" ELSE "refused"]
  /\ UNCHANGED <<db, launch>>

DeleteWrites(r) ==
  /\ request[r] = "checked"
  /\ DeleteRun
  /\ request' = [request EXCEPT ![r] = "done"]
  /\ UNCHANGED launch

-----------------------------------------------------------------------------
InitApi ==
  /\ launch = "new"
  /\ request = [r \in Cancels \cup Deletes |-> "idle"]

(* Requests name a run id, so none is made before the run row exists.      *)
ApiStep ==
  \/ StartRun
  \/ \E c \in Cases : StartRunCreatesCase(c)
  \/ StartRunFails
  \/ /\ launch # "new"
     /\ \/ \E r \in Cancels : CancelChecks(r)
        \/ \E r \in Cancels : CancelWrites(r)
        \/ \E r \in Deletes : DeleteChecks(r)
        \/ \E r \in Deletes : DeleteWrites(r)

ApiTypeOK ==
  /\ launch \in LaunchStates
  /\ request \in [Cancels \cup Deletes -> RequestStates]
=============================================================================
