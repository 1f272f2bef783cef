SPECIFICATION FairSpec
CONSTANTS
  MaxProc = 5
  MaxRetries = 3
  NoProcess = NoProcess
CHECK_DEADLOCK FALSE
INVARIANTS TypeOK HandshakeIsTheChilds NoSecondSidecar
PROPERTIES CrashesAreRepaired QuitCompletes
