SPECIFICATION FairSpec
CONSTANTS
  Cases = {c1, c2}
  Cancels = {}
  Deletes = {}
  CaseAttempts = 2
  MaxConcurrency = 1
  MaxMetrics = 0
  MaxCrashes = 1
  Results <- OneResult
PROPERTIES
  ImplementsPolledLifecycle
  PendingIsPickedUp
  TasksEnd
CHECK_DEADLOCK FALSE
