\* Programs that move files.
SPECIFICATION MoveSpec
CONSTANTS
  Proc = {p1, p2}
  Init1 = p1
  NFILE = 3
  NOFILE = 2
  Pipe = {q1}
  Inode = {i1}
  PIPESIZE = 2
  W = 4
  Message <- Messages
  Programs <- Moving
  MaxRead = 2
  MaxKill = 1
  None = none
INVARIANT NoClosePanic
CHECK_DEADLOCK FALSE
