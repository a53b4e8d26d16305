CONSTANTS
  CPU = {c1}
  NoCPU = NoCPU
  NPROC = 2
  MaxPid = 3
  KillPids = {0, 2}
SPECIFICATION Spec
INVARIANT KillHitsProcess
