SPECIFICATION Spec
CONSTANTS
  None = None
  Task = {t1}
  Run = {e1, e2}
  Undoing = {u1}
  Plans <- SomePlans
  MaxTriggers = 1
  MaxFaults = 2
SYMMETRY Symmetry
CONSTRAINT LongPlansRunAlone
CHECK_DEADLOCK FALSE
INVARIANTS StopIsHonoured AuditTellsTheRuns FailedRunsAreUndone
