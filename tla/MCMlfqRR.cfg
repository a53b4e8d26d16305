\* Two CPUs share the round-robin index; one fork() or set_queue() call.
CONSTANTS
  CPU = {c1, c2}
  Boot = c1
  NoCPU = NoCPU
  NPROC = 3
  time_slice = 1
  rr_timeq = 1
  MAX_WAIT_TIME = 2
  StartQueues = {0}
  QueueArgs = {0, 2}
  MaxCalls = 1
SPECIFICATION HSpec
PROPERTY RoundRobin
INVARIANTS SliceKept AgingKeepsUp
