SPECIFICATION Spec
CONSTANTS
  MaxProc = 4
  MaxRetries = 3
  NoProcess = NoProcess
CHECK_DEADLOCK FALSE
INVARIANTS NothingOutlivesTheShell
