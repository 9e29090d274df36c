SPECIFICATION FairSpec
CONSTANTS
  Cases = {c1}
  Attempts = 1
  MaxFailures = 0
  Streams = {}
  TaskStreams = {}
  Analysts = {r1, r2}
  MaxClients = 2
PROPERTIES
  AnalysisWrittenOnce
CHECK_DEADLOCK FALSE
