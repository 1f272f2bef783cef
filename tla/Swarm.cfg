SPECIFICATION FairSpec
CONSTANTS
  NoText = NoText
  NoRow = NoRow
  NoReport = NoReport
  Alike <- SameText
  Run = {r1}
  Subtask = {1, 2}
  Answer = {a, b}
  AskedCounts = {1, 3}
  MinGroup = 1
  MaxGroup = 5
  MinWorkers = 2
  MaxWorkers = 4
  ResizeCounts = {}
  ClientStatuses = {"cancelled"}
  MayDisconnect = TRUE
  MaxRow = 4
  MaxIndex = 4
  MaxSwarm = 1
CHECK_DEADLOCK FALSE
INVARIANTS TypeOK CompletedReportCoversPlan AnswersAreCounted ConsensusIsUnique
PROPERTIES AnnouncedCompletionHolds EveryRunIsAnnounced SwarmSettles
