---------------------------- MODULE MCMemoryRunner ----------------------------
(***************************************************************************)
(* Small instances of MemoryRunner for TLC.  One result of scoring is      *)
(* enough: errors supply a second verdict and a second set of counters.    *)
(***************************************************************************)
EXTENDS MemoryRunner, TLC

OneResult ==
  {[outcome |-> "success", verdict |-> "passed", scoring_errors |-> FALSE]}

CaseSymmetry == Permutations(Cases)
=============================================================================
