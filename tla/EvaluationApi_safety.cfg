SPECIFICATION Spec
CONSTANTS
  q1 = q1
  q2 = q2
  e1 = e1
  e2 = e2
  x1 = x1
  t1 = t1
  t2 = t2
  u1 = u1
  u2 = u2
  Requests = {q1, q2}
  Ids <- MCIds
  Users = {u1, u2}
  Teams <- MCTeams
  Personal = personal
  Members <- MCMembers
  Granted = {t1}
  SeedEvaluations <- MCSeedEvaluations
  SeedRuns <- MCSeedRuns
  NoRow = NoRow
  Names = {"set"}
  Declared <- MCDeclared
  TemporalConfigured = TRUE
  MaxFailures = 1
SYMMETRY RequestSymmetry
INVARIANTS
  TypeOK
  OnlyOwnTeamIsReached
  RefusalChangesNothing
  VersionsUniqueUnlessRaced
  DeletedIsGone
  AcceptedRunIsSubmitted
PROPERTIES
  DeleteFailsOnlyByRace
  ImplementsCatalogue
CHECK_DEADLOCK FALSE
