SPECIFICATION Spec
CONSTANTS
  NPROC = 3
  CPUs = {c1, c2}
  NoProc = NoProc
  NoCpu = NoCpu
  NoChan = NoChan
  MaxPid = 4
  KillPids = {0, 2, 3, 4}
INVARIANTS
  OnlyTheNamedAreKilled
SYMMETRY AnyCpu
