CONSTANTS
  CPU = {c1}
  NoCPU = NoCPU
  NPROC = 3
  MaxPid = 3
  KillPids = {3}
SPECIFICATION FairSpec
PROPERTIES OrphansReaped 
