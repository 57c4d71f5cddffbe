SPECIFICATION Spec
CONSTANTS
  Workers = {1, 2}
  Creators = {0, 2}
  Exiters = {0}
  Sampling = TRUE
  MemoryCollect = FALSE
  MaxTicks = 1
  MaxCreated = 2
INVARIANTS
  TypeOK
  StoresDoNotNest
  MemoryFaultsNeedSignals
  ThreadsAreTheLive
  QuietExitIsClean
  ExitLosesNothing
CHECK_DEADLOCK FALSE
