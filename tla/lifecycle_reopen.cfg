SPECIFICATION FairSpec
CONSTANTS
  w1 = w1
  w2 = w2
  w3 = w3
  r1 = r1
  Writers = {w1, w2}
  Readers = {}
  Creator = w1
  BlocksPerPage = 2
  LateJoin = TRUE
  Killable = {}
  MaxBlocks = 3
PROPERTY
  OpenReturns
CHECK_DEADLOCK FALSE
