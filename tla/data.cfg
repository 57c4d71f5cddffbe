SPECIFICATION FairSpec
CONSTANTS
  s1 = s1
  s2 = s2
  Secs = {s1, s2}
  BlockSize = 2
  BlocksPerPage = 2
  HeaderLen = 1
  HeadLength = 2
  Lens = {5}
  Word = 64
  Direct = 1
  Fan = 2
  Levels = 2
  Beyond = FALSE
  Offsets = {1}
  MaxSize = 7
INVARIANTS
  TypeOK
  WrittenIsReadable
  BlocksAreDisjoint
  CopyIsMapped
PROPERTY
  WriteReturns
CHECK_DEADLOCK FALSE
