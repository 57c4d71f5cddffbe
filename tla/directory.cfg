SPECIFICATION FairSpec
CONSTANTS
  t1 = t1
  t2 = t2
  Threads = {t1, t2}
  Ops <- OpsFour
  Direct = 1
  Entries = 1
  MaxTables = 2
  Half = 100
  Killable = {t1}
INVARIANTS
  TypeOK
  OneSectionPerDesc
  IterationFindsSections
PROPERTIES
  ImplementsDirectory
  HolderReturns
CHECK_DEADLOCK FALSE
