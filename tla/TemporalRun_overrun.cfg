SPECIFICATION Spec
CONSTANTS
  Cases = {c1, c2}
  Cancels = {}
  Deletes = {}
  CaseAttempts = 2
  ShortAttempts = 1
  MaxConcurrency = 1
  MaxMetrics = 0
  Results <- OneResult
  Overruns = {c1}
INVARIANTS
  Pacing
  NoEarlyEnding
CHECK_DEADLOCK FALSE
