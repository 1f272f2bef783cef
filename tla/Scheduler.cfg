SPECIFICATION SchedulerSpec
CONSTANTS
  None = None
  Request = {r1, r2}
  MaxRequests = 4
  MaxId = 2
  Content = {c1, c2, bad}
  Valid = {c1, c2}
  HistoryMax = 1
  MayFire = {1}
SYMMETRY Symmetry
CHECK_DEADLOCK FALSE
INVARIANTS QuietJobsAgree EnabledJobsAreScheduled
