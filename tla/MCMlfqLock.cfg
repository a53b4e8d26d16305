CONSTANTS
  CPU = {c1, c2}
  Boot = c1
  NoCPU = NoCPU
  NPROC = 2
  time_slice = 1
  rr_timeq = 2
  MAX_WAIT_TIME = 2
  StartQueues = {0, 2}
  QueueArgs = {}
  MaxCalls = 0
SPECIFICATION BadPidSpec
CHECK_DEADLOCK FALSE
PROPERTY NoStarvation
