SPECIFICATION FairSpec
CONSTANTS
  w1 = w1
  w2 = w2
  w3 = w3
  r1 = r1
  Writers = {w1, w2, w3}
  Readers = {r1}
  Creator = w1
  BlocksPerPage = 2
  LateJoin = FALSE
  Killable = {w1, w2}
  MaxBlocks = 4
INVARIANTS
  TypeOK
  CounterCoversOpen
  NobodyFails
  WrittenIsKept
  MappingsAreBacked
  ClosedFileIsTrimmed
PROPERTY
  OpenReturns
CHECK_DEADLOCK FALSE
