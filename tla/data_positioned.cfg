SPECIFICATION Spec
CONSTANTS
  s1 = s1
  s2 = s2
  Secs = {s1}
  BlockSize = 2
  BlocksPerPage = 2
  HeaderLen = 1
  HeadLength = 2
  Lens = {1, 5}
  Word = 64
  Direct = 1
  Fan = 2
  Levels = 2
  Beyond = TRUE
  Offsets = {0, 5}
  MaxSize = 6
INVARIANT
  WrittenIsReadable
CHECK_DEADLOCK FALSE
