CONSTANTS
  CPU = {c1, c2}
  NoCPU = NoCPU
  NPROC = 3
  MaxPid = 4
  KillPids = {0, 2, 3}
SPECIFICATION Spec
SYMMETRY CPUSymmetry
INVARIANTS StackExclusive StackAlive NoSchedPanic IntenaIsThreads NoLostWakeup ParentAlive
PROPERTY LifeCycle
