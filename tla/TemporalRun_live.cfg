SPECIFICATION FairSpec
CONSTANTS
  Cases = {c1, c2}
  Cancels = {}
  Deletes = {delete}
  CaseAttempts = 2
  ShortAttempts = 2
  MaxConcurrency = 1
  MaxMetrics = 1
  Results <- OneResult
  Overruns = {}
PROPERTIES
  WorkflowEnds
  RunSettles
CHECK_DEADLOCK FALSE
