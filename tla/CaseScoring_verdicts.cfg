SPECIFICATION Spec
CONSTANTS
  TraceSteps <- MCTraceSteps
  Tags <- MCTags
  Selectable = {"answer_relevancy", "contextual_recall"}
  MaxSelected = 2
  MaxCustom = 1
  Total = 4
INVARIANTS
  SqlErrorIsNeverPassed
  EveryMetricIsReported
  FailedHasACause
  PassedRunHasMajority
CHECK_DEADLOCK FALSE
