SPECIFICATION FairSpec
CONSTANTS
  Cases = {c1, c2}
  Attempts = 2
  MaxFailures = 2
  Streams = {s}
  TaskStreams = {t}
  Analysts = {r}
  MaxClients = 1
INVARIANTS
  TypeOK
  ToldOnce
  OnlyOvertakenIsMissed
  OnlyCasesAreOvertaken
  TaskStreamTellsFinalCounters
  AnalysisIsOfThisRun
PROPERTIES
  StreamsEnd
  TaskStreamsEnd
CHECK_DEADLOCK FALSE
