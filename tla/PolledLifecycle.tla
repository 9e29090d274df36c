---------------------------- MODULE PolledLifecycle ----------------------------
(***************************************************************************)
(* What the polling engine promises of one run, without its tasks,         *)
(* coroutines, semaphores and rows.  MemoryRunner implements it.           *)
(*                                                                         *)
(* The run is offered by being shown as pending; a look at it and the      *)
(* claim that follows are two steps, and the claim does not look again: a  *)
(* run that was executed in between is executed once more.  That nobody    *)
(* claims a run while it is being executed, that an ending is shown with   *)
(* nothing in flight, and that an orderly execution leaves only what has   *)
(* ended, is the promise; a crash keeps the first two.                     *)
(***************************************************************************)
EXTENDS Naturals, FiniteSets

CONSTANTS Jobs,             \* the cases of the run
          Width             \* how many of them may be in flight at once

VARIABLES
  offered,      \* has the run been created?
  shown,        \* operational_state; "none": there is no row
  seen,         \* has it been seen pending, and not acted upon?
  phase,        \* of the execution; "idle": there is none
  waiting,      \* cases not taken yet
  inflight      \* cases being executed

job  == <<offered, shown, seen, phase, waiting, inflight>>
work == <<waiting, inflight>>

Over == {"completed", "cancelled", "error"}

Init ==
  /\ offered = FALSE
  /\ shown = "none"
  /\ seen = FALSE
  /\ phase = "idle"
  /\ waiting = {} /\ inflight = {}

-----------------------------------------------------------------------------
(* Clients.                                                                *)

Create ==
  /\ ~offered
  /\ offered' = TRUE
  /\ shown' = "pending"
  /\ UNCHANGED <<seen, phase, work>>

(* What is shown changes, as long as there is a row.                       *)
Shows(s) == shown # "none" /\ shown' = s

Cancel == Shows("cancelled") /\ UNCHANGED <<offered, seen, phase, work>>
Delete == Shows("none")      /\ UNCHANGED <<offered, seen, phase, work>>

-----------------------------------------------------------------------------
(* The poller.                                                             *)

See ==
  /\ ~seen /\ shown = "pending"
  /\ seen' = TRUE
  /\ UNCHANGED <<offered, shown, phase, work>>

Claim ==
  /\ seen /\ phase = "idle"
  /\ seen' = FALSE
  /\ phase' = "starting"
  /\ UNCHANGED <<offered, shown, work>>

(* Only a run that is being executed is passed over.                       *)
PassOver ==
  /\ seen /\ phase # "idle"
  /\ seen' = FALSE
  /\ UNCHANGED <<offered, shown, phase, work>>

-----------------------------------------------------------------------------
(* The execution: what it does within a phase ...                          *)

(* A write to a row that is gone goes unnoticed.                           *)
Writes(s) == Shows(s) \/ (shown = "none" /\ UNCHANGED shown)

ShowRunning == phase = "starting" /\ Writes("running") /\ UNCHANGED work

Take(j) ==
  /\ phase = "executing"
  /\ j \in waiting /\ Cardinality(inflight) < Width
  /\ waiting' = waiting \ {j}
  /\ inflight' = inflight \cup {j}
  /\ UNCHANGED shown

Settle(j) ==
  /\ phase = "executing"
  /\ j \in inflight
  /\ inflight' = inflight \ {j}
  /\ UNCHANGED <<shown, waiting>>

Works ==
  /\ \/ ShowRunning
     \/ \E j \in Jobs : Take(j) \/ Settle(j)
  /\ UNCHANGED <<offered, seen, phase>>

(* ... and how it goes from phase to phase.                                *)
Enters(from, to) == phase \in from /\ phase' = to

(* Start on the cases there are rows of, once the start has been shown.    *)
Begin(J) ==
  /\ Enters({"starting"}, "executing")
  /\ shown \notin {"completed", "error"}
  /\ waiting' = J
  /\ UNCHANGED <<shown, inflight>>

(* Nothing is left to do.                                                  *)
Close ==
  /\ Enters({"executing"}, "closing")
  /\ waiting = {} /\ inflight = {}
  /\ UNCHANGED <<shown, work>>

Complete == Enters({"closing"}, "closed") /\ Writes("completed") /\ UNCHANGED work

(* A call raised: before the cases, after them, or after the run was shown *)
(* as completed, never amid them.                                          *)
Fail ==
  /\ Enters({"starting", "closing", "closed"}, "failing")
  /\ UNCHANGED <<shown, work>>

ShowError == Enters({"failing"}, "leaving") /\ Writes("error") /\ UNCHANGED work

Finish == Enters({"closed"}, "leaving") /\ UNCHANGED <<shown, work>>

(* An execution in order leaves a run that shows an ending, or is gone ... *)
Leave ==
  /\ Enters({"leaving"}, "idle")
  /\ shown \in Over \cup {"none"}
  /\ UNCHANGED <<shown, work>>

(* ... or gives up, the one way to leave a run unended.                    *)
GiveUp  == Enters({"failing"}, "lost") /\ UNCHANGED <<shown, work>>
Abandon == Enters({"lost"}, "idle") /\ UNCHANGED <<shown, work>>

Moves ==
  /\ phase' # phase
  /\ \/ \E J \in SUBSET Jobs : Begin(J)
     \/ Close \/ Complete \/ Finish \/ Fail \/ ShowError
     \/ Leave \/ GiveUp \/ Abandon
  /\ UNCHANGED <<offered, seen>>

(* The process dies: no row is touched, and all it knew is forgotten.      *)
Crash ==
  /\ seen' = FALSE
  /\ phase' = "idle"
  /\ waiting' = {} /\ inflight' = {}
  /\ UNCHANGED <<offered, shown>>

Next == Create \/ Cancel \/ Delete \/ See \/ Claim \/ PassOver \/ Works \/ Moves \/ Crash

Spec == Init /\ [][Next]_job
=============================================================================
