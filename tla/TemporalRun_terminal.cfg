SPECIFICATION Spec
CONSTANTS
  Cases = {c1}
  Cancels = {cancel}
  Deletes = {}
  CaseAttempts = 1
  ShortAttempts = 1
  MaxConcurrency = 1
  MaxMetrics = 0
  Results <- OneResult
  Overruns = {}
PROPERTIES
  TerminalNeverChanges
CHECK_DEADLOCK FALSE
