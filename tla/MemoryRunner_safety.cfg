SPECIFICATION Spec
CONSTANTS
  Cases = {c1, c2}
  Cancels = {cancel}
  Deletes = {}
  CaseAttempts = 2
  MaxConcurrency = 1
  MaxMetrics = 1
  MaxCrashes = 1
  Results <- OneResult
SYMMETRY CaseSymmetry
INVARIANTS
  TypeOK
  OneExecution
  CompletedFiguresAreTrue
  CompletedRunHasResults
  OrphanedOnlyByFault
CHECK_DEADLOCK FALSE
