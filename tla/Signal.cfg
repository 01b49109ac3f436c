SPECIFICATION Spec
CHECK_DEADLOCK FALSE
CONSTANTS
  Procs = {p1, p2}
  Targets = {p1}
  NSIG = 3
  SIGKILL = 2
  Nobody = Nobody
INVARIANTS
  TypeOK
  HandlersDoNotNest
PROPERTIES
  HandlerIsTransparent
  KilledDies
  PendingIsActedOn
