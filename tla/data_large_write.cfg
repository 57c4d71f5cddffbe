SPECIFICATION Spec
CONSTANTS
  s1 = s1
  s2 = s2
  Secs = {s1, s2}
  BlockSize = 2
  BlocksPerPage = 2
  HeaderLen = 1
  HeadLength = 2
  Lens = {11}
  Word = 64
  Direct = 6
  Fan = 2
  Levels = 2
  Beyond = FALSE
  Offsets = {}
  MaxSize = 11
INVARIANT
  CopyIsMapped
CHECK_DEADLOCK FALSE
