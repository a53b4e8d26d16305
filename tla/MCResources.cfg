\* Two processes, two blocks, a log of six entries, two crashes; two processes, six user
\* pages in two page tables, and so few physical pages that every allocation fails
\* somewhere; a heap of fourteen units; three inodes and two names; lines of five
\* characters, and the shell with five slots for processes.
SPECIFICATION MSpec
CONSTANTS
  p1 = p1
  p2 = p2
  Proc = {p1, p2}
  Block = {b1, b2}
  NoBlock = none
  Val = {0, 1}
  MAXOPBLOCKS = 3
  LOGSIZE = 6
  OpMax = 2
  Nesters = {}
  MaxDepth = 1
  MaxCrash = 2
  Init1 = p1
  NPAGE = 11
  PGSIZE = 2
  NPTE = 3
  NTAB = 2
  KVPAGES = 1
  W = 32
  Id = {1, 2}
  Entry = {0, 1}
  ProgSize = {1}
  Incr <- Increments
  Orderly = TRUE
  HeapMax = 14
  Least = 4
  Units = {2, 3, 5}
  NINODES = 3
  MaxLink = 3
  Name = {"a", "b"}
  Prog <- Programs
  Scripts <- Lines
  MaxLine = 5
  MAXARGS = 3
  NPROC = 6
  NOFILE = 6
INVARIANTS  NothingLost    HeapWhole LinkCount LiveRefs Tree
           ParsesGrammar Plumbed
PROPERTIES WaitersWoken AtomicCommit
\* create() and unlink() of one name can deadlock (MCInodesLock.cfg).
CHECK_DEADLOCK FALSE
