SPECIFICATION FairSpec
CONSTANTS
  None = None
  Run = {r1, r2}
  Score = {5, 6, 9}
  Threshold = 8
  StagnationLimit = 2
  HardLimit = 5
  AskedIterations = {0, 2, 9}
  ProviderFails = TRUE
  MayDisconnect = TRUE
CONSTRAINTS LongRunsAreAlone MiddleScoresAreAlone
CHECK_DEADLOCK FALSE
INVARIANTS ProgressIsConsistent CompletedHasResult
PROPERTIES RunsAreGuarded CancelHolds EveryRunEnds
