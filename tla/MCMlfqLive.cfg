\* One CPU; two processes start in queue 2.
CONSTANTS
  CPU = {c1}
  Boot = c1
  NoCPU = NoCPU
  NPROC = 3
  time_slice = 1
  rr_timeq = 1
  MAX_WAIT_TIME = 2
  StartQueues = {2}
  QueueArgs = {}
  MaxCalls = 0
SPECIFICATION FairSpec
PROPERTY NoStarvation
