SPECIFICATION FairSpec
CONSTANTS
  None = None
  NodeCount = 3
  EdgeLists <- SmallEdgeLists
  Checkpoints = {1, 2}
  MaxRuns = 2
CHECK_DEADLOCK FALSE
INVARIANTS SortIsTopological FinishedMeansSettled
PROPERTIES InputsAreOfThisRun CheckpointKeepsOutput RunsEnd
