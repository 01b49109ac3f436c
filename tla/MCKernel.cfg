SPECIFICATION KernelSpec
VIEW KernelView
ACTION_CONSTRAINT FirstFit
SYMMETRY Alike
CONSTANTS
  NPROC = 3
  CPUs = {c1, c2}
  NoProc = NoProc
  NoCpu = NoCpu
  NoChan = NoChan
  MaxPid = 4
  KillPids = {3, 4}
  Tasks = {p1, p2, p3}
  inittask = p1
  NFRAMES = 7
  NPAGES = 2
  ExecPages = 1
  NoTask = NoTask
  Nowhere = Nowhere
  Discipline = TRUE
INVARIANTS
  TypeOK
  ParentIsAlive
  FreeSlotIsOffCpu
  NoExitIsMissed
  OnlyTheNamedAreKilled
  MemTypeOK
  NoDanglingRefs
  NoLeak
  Ownership
  NoPanic
