SPECIFICATION FairStreamSpec
CONSTANTS
  Type = {"first", "second", "both"}
  PatternLists <- AnyPatterns
  Matched <- AnyMatched
  QueueMax = 2
  ReplayMax = 3
  MaxEvents = 4
  MergedMax = 4
  MayRestart = TRUE
  MayReconnect = TRUE
  MaxSplits = 1
CHECK_DEADLOCK FALSE
INVARIANTS OnlyDuplicatesAreIgnored NothingIsLostWithinLimits
PROPERTIES LiveStreamCatchesUp
