SPECIFICATION FilesSimsSpec
VIEW FilesSimsView
SYMMETRY Interchangeable
CONSTANTS
  Simulations <- MCSimulations
  Inputs <- MCInputs
  Procs = {p1, p2}
  Inums = {root, i2, i3}
  Root = root
  Names = {dir, file}
  dir = dir
  file = file
  Workloads <- MCWorkloads
  NoProc = NoProc
  Null = Null
  RemoveBusy = FALSE
INVARIANTS
  LinkCount
  RefCount
  CoreIsDisk
  NoInodeLost
  NoFsPanic
  NoLockCycle
  NoCircle
  BestRun
  InOnePlace
  WaitingShown
  EndsInTime
