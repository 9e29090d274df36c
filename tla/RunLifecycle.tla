----------------------------- MODULE RunLifecycle -----------------------------
(***************************************************************************)
(* What the Temporal engine promises of one run, without its activities,   *)
(* attempts, retries and rows: the state a client of the API sees, and the *)
(* work it stands for.  TemporalRun implements it as long as no attempt    *)
(* outlives its timeout.                                                   *)
(*                                                                         *)
(* The workflow goes through phases; the state shown is written apart from *)
(* them, by the engine and by clients, so the promise is about what may be *)
(* written in which phase.  A client may write "cancelled" at any time and *)
(* the engine does not look: that the engine then writes over it is part   *)
(* of the contract.                                                        *)
(***************************************************************************)
EXTENDS Naturals, FiniteSets

CONSTANTS Jobs,             \* the cases of the run
          Width             \* how many of them may be in flight at once

VARIABLES
  phase,        \* of the workflow
  shown,        \* operational_state; "none": there is no row
  waiting,      \* cases not taken yet
  inflight,     \* cases being executed
  settled       \* cases executed, or given up

job == <<phase, shown, waiting, inflight, settled>>

Gone == {"none"}
Over == {"completed", "failed", "cancelled", "error"}

Init ==
  /\ phase = "new"
  /\ shown = "none"
  /\ waiting = {}
  /\ inflight = {}
  /\ settled = {}

Create ==
  /\ phase = "new"
  /\ phase' = "accepted"
  /\ shown' = "pending"
  /\ UNCHANGED <<waiting, inflight, settled>>

(* The workflow exists from here on.                                       *)
Submit ==
  /\ phase = "accepted"
  /\ phase' = "starting"
  /\ UNCHANGED <<shown, waiting, inflight, settled>>

(* All the cases of the run, unless it was deleted in the meantime.        *)
Plan(J) ==
  /\ phase = "starting"
  /\ shown = "none" \/ J = Jobs
  /\ phase' = "executing"
  /\ waiting' = J
  /\ UNCHANGED <<shown, inflight, settled>>

Take(j) ==
  /\ phase = "executing"
  /\ j \in waiting
  /\ Cardinality(inflight) < Width
  /\ waiting' = waiting \ {j}
  /\ inflight' = inflight \cup {j}
  /\ UNCHANGED <<phase, shown, settled>>

Settle(j) ==
  /\ j \in inflight
  /\ inflight' = inflight \ {j}
  /\ settled' = settled \cup {j}
  /\ UNCHANGED <<phase, shown, waiting>>

(* Nothing is left to do.                                                  *)
Close ==
  /\ phase = "executing"
  /\ waiting = {} /\ inflight = {}
  /\ phase' = "closing"
  /\ UNCHANGED <<shown, waiting, inflight, settled>>

(* The engine could not go on, before or after the cases, never amid them. *)
Fail ==
  /\ phase \in {"starting", "closing"}
  /\ phase' = "failing"
  /\ UNCHANGED <<shown, waiting, inflight, settled>>

(* The workflow returns only once its run shows an ending, or is gone; ... *)
Return ==
  /\ phase \in {"closing", "failing"}
  /\ shown \in Over \cup Gone
  /\ phase' = "over"
  /\ UNCHANGED <<shown, waiting, inflight, settled>>

(* ... or it gives up, which is the one way to leave a run unended.        *)
GiveUp ==
  /\ phase = "failing"
  /\ phase' = "abandoned"
  /\ UNCHANGED <<shown, waiting, inflight, settled>>

-----------------------------------------------------------------------------
(* What is shown, as long as there is a row.                               *)

Shows(s) ==
  /\ shown # "none"
  /\ shown' = s
  /\ UNCHANGED <<phase, waiting, inflight, settled>>

ShowProgress  == phase \in {"starting", "executing"} /\ Shows("running")
ShowCompleted == phase = "closing" /\ Shows("completed")
ShowFailed    == phase = "failing" /\ Shows("failed")
Cancel        == Shows("cancelled")
Delete        == Shows("none")

Next ==
  \/ Create \/ Submit
  \/ \E J \in SUBSET Jobs : Plan(J)
  \/ \E j \in Jobs : Take(j) \/ Settle(j)
  \/ Close \/ Fail \/ Return \/ GiveUp
  \/ ShowProgress \/ ShowCompleted \/ ShowFailed
  \/ Cancel \/ Delete

Spec == Init /\ [][Next]_job
=============================================================================
