\* p1 runs move_file(), whose filewrite() and fileclose() call begin_op() again.
SPECIFICATION FairSpec
CONSTANTS
  Proc = {p1, p2}
  Block = {b1, b2}
  NoBlock = none
  Val = {0}
  MAXOPBLOCKS = 2
  LOGSIZE = 4
  OpMax = 1
  Nesters = {p1}
  MaxDepth = 2
  MaxCrash = 0
PROPERTY WaitersWoken
CHECK_DEADLOCK FALSE
