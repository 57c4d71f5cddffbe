SPECIFICATION FairSpec
CONSTANTS
  p1 = p1
  p2 = p2
  t1 = t1
  t2 = t2
  t3 = t3
  Procs = {p1, p2}
  Creator = p1
  Threads = {t1, t2, t3}
  ProcOf <- ProcOfThree
  BlocksPerPage = 2
  Killable = {p1}
  MaxRun = 3
  MaxBlocks = 5
INVARIANTS
  TypeOK
  MappedIsBacked
  UseIsMapped
  MappingBound
PROPERTIES
  FileNeverShrinks
  LoadReturns
CHECK_DEADLOCK FALSE
