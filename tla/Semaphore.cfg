SPECIFICATION Spec
CHECK_DEADLOCK FALSE
CONSTANTS
  NPROC = 3
  CPUs = {c1, c2}
  NoProc = NoProc
  NoCpu = NoCpu
  NoChan = NoChan
  NoSem = NoSem
  Sems = {s1}
  InitCount = 1
  MaxCount = 2
INVARIANTS
  TypeOK
  OneStackOneCpu
  SwitchHoldsOnlyPlock
  NoLostWakeup
PROPERTIES
  ImplementsSemSpec
