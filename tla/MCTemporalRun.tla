---------------------------- MODULE MCTemporalRun ----------------------------
(***************************************************************************)
(* Small instances of TemporalRun for TLC.  One result of scoring is       *)
(* enough: a case that ends in error has another verdict and counts in     *)
(* other columns, so tallies taken at different moments differ.            *)
(***************************************************************************)
EXTENDS TemporalRun, TLC

OneResult ==
  {[outcome |-> "success", verdict |-> "passed", scoring_errors |-> FALSE]}

CaseSymmetry == Permutations(Cases)
=============================================================================
