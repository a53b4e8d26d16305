\* Processes that make and remove the same names.
SPECIFICATION Spec
CONSTANTS
  p1 = p1
  p2 = p2
  Proc = {p1, p2}
  NINODES = 4
  MaxLink = 3
  Name = {"a", "b"}
  Prog <- Programs
INVARIANT NoLockCycle
CHECK_DEADLOCK FALSE
