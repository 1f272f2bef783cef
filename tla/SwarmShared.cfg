SPECIFICATION Spec
CONSTANTS
  NoText = NoText
  NoRow = NoRow
  NoReport = NoReport
  Alike <- SameText
  Run = {r1, r2}
  Subtask = {1}
  Answer = {}
  AskedCounts = {1}
  MinGroup = 1
  MaxGroup = 5
  MinWorkers = 1
  MaxWorkers = 2
  ResizeCounts = {1, 2}
  ClientStatuses = {}
  MayDisconnect = FALSE
  MaxSwarm = 2
  MaxRow = 2
  MaxIndex = 1
CHECK_DEADLOCK FALSE
VIEW RowsAndTasks
SYMMETRY Streams
CONSTRAINT ResizeBesideOne
INVARIANTS RunningRowsAreExecuted PendingRowsAreUntouched
