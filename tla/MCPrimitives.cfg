\* Two CPUs and two locks; two processes, three buffers for four blocks, one pinned at a
\* time; Fibonacci numbers up to the third; three jobs; lines of up to six characters and
\* two earlier lines.
SPECIFICATION MSpec
CONSTANTS
  CPU = {c1, c2}
  NoCPU = NoCPU
  Lock = {1, 2}
  Proc = {p1, p2}
  NBUF = 3
  Written = {0, 1}
  Block = {0, 1, 2, 3}
  Val = {0, 1}
  NoProc = none
  NoBlock = none
  NoBuf = none
  NoReq = none
  MaxPinned = 1
  NPROC = 3
  INF = 4
  Bursts <- SmallBursts
  INPUT_BUF = 8
  N_HISTORY = 3
  Keyboards <- Boards
  ReadSizes = {1, 8}
  Index = {0, 1, 2, 3}
SYMMETRY ProcSymmetry
INVARIANTS LockSafety IntrRestored SeesLatest  PicksWell FibRight
 
