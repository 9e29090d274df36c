SPECIFICATION Spec
CONSTANTS
  Cases = {c1}
  Cancels = {}
  Deletes = {}
  CaseAttempts = 2
  ShortAttempts = 1
  MaxConcurrency = 1
  MaxMetrics = 1
  Results <- OneResult
  Overruns = {}
INVARIANTS
  ErrorCasesHaveNoMetrics
CHECK_DEADLOCK FALSE
