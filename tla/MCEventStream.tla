----------------------------- MODULE MCEventStream -----------------------------
(***************************************************************************)
(* Small instances of EventStream for TLC.                                 *)
(***************************************************************************)
EXTENDS EventStream, TLC

CaseSymmetry == Permutations(Cases)
=============================================================================
