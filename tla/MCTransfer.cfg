\* Two processes that share pipes of two bytes whose counters wrap at four; files of up to
\* four blocks of two bytes, two direct and two indirect.
SPECIFICATION MSpec
CONSTANTS
  f1 = f1
  f2 = f2
  Proc = {p1, p2}
  Init1 = p1
  NFILE = 3
  NOFILE = 2
  Pipe = {q1}
  Inode = {i1}
  PIPESIZE = 2
  W = 4
  Message <- Messages
  Programs <- ProgramSets
  MaxRead = 2
  MaxKill = 1
  None = none
  Inum = {1, 2}
  Fd = {f1, f2}
  Opens <- Ways
  Data <- Letters
  BSIZE = 2
  NDIRECT = 2
  NINDIRECT = 2
  NBLOCKS = 10
  MAXOPBLOCKS = 6
  UINT = 65536
  Reads = {3}
  Writes = {7}
  MaxTrunc = 1
INVARIANTS RefCounts NoSleeperLost Content BitmapExact OpFits
PROPERTIES FIFO KilledLeaves
\* The programs may all exit, or wait for one another's writes.
CHECK_DEADLOCK FALSE
