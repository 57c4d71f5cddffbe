SPECIFICATION Spec
CONSTANTS
  Workers = {1, 2}
  Creators = {0}
  Exiters = {0}
  Sampling = TRUE
  MemoryCollect = FALSE
  MaxTicks = 1
  MaxCreated = 2
INVARIANTS
  SamplingIsPeriodic
CHECK_DEADLOCK FALSE
