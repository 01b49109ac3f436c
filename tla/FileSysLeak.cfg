SPECIFICATION FsSpec
SYMMETRY Interchangeable
CONSTANTS
  Procs = {p1, p2}
  Inums = {root, i2, i3}
  Root = root
  Names = {dir, file}
  dir = dir
  file = file
  Workloads <- MCWorkloads
  NoProc = NoProc
  Null = Null
  RemoveBusy = FALSE
INVARIANT
  InodesFreed
