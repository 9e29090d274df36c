SPECIFICATION Spec
CONSTANTS
  Cases = {c1, c2}
  Cancels = {}
  Deletes = {}
  CaseAttempts = 1
  MaxConcurrency = 1
  MaxMetrics = 0
  MaxCrashes = 0
  Results <- OneResult
INVARIANTS
  CompletedRunIsComplete
CHECK_DEADLOCK FALSE
