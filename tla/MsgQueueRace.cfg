SPECIFICATION Spec
CONSTANTS
  Procs = {p1, p2}
  Early = {p1, p2}
  NUM_QUEUES = 1
  MAX_MSGS = 2
  Msgs = {m1, m2}
  Nobody = Nobody
  Garbage = Garbage
  NoCall = NoCall
  Failed = Failed
  Done = Done
INVARIANTS
  OneAtATime
