SPECIFICATION Spec
CONSTANTS
  Cases = {c1, c2}
  Cancels = {cancel}
  Deletes = {delete}
  CaseAttempts = 2
  ShortAttempts = 2
  MaxConcurrency = 2
  MaxMetrics = 1
  Results <- OneResult
  Overruns = {}
SYMMETRY CaseSymmetry
INVARIANTS
  TypeOK
  NoCaseIsLeftOut
  FinishedRunIsTerminal
  FinalFiguresAreTrue
  MetricsNotDuplicated
  ReportedCasesAreRecorded
PROPERTIES
  EndedStaysEnded
  ImplementsLifecycle
CHECK_DEADLOCK FALSE
