SPECIFICATION MemSpec
VIEW Shape
ACTION_CONSTRAINT FirstFit
SYMMETRY Slots
CONSTANTS
  Tasks = {p1, p2, p3}
  inittask = p1
  NFRAMES = 7
  NPAGES = 2
  ExecPages = 1
  NoTask = NoTask
  Nowhere = Nowhere
  Discipline = TRUE
INVARIANT SharesAddressSpace
