SPECIFICATION IoSpec
CONSTANTS
  Procs = {p1, p2}
  Early = {p1}
  NUM_QUEUES = 1
  MAX_MSGS = 2
  Msgs = {m1, m2}
  Nobody = Nobody
  Garbage = Garbage
  NoCall = NoCall
  Failed = Failed
  Done = Done
  Ops = {o1, o2}
  Home = {a, b}
  Data = {0, 1}
  MAXOPBLOCKS = 2
  OpWrites = 2
  LOGBLOCKS = 4
  NoOp = NoOp
  NotCached = NotCached
  Bufs = {b1, b2, b3}
  NUM = 8
  NoBuf = NoBuf
  NoDesc = NoDesc
  Readers = {r1, r2}
  INPUT_BUF_SIZE = 2
  CWRAP = 4
  Letters = {"a"}
  Counts = {2}
  NoReader = NoReader
  Writers = {w1, w2}
  Lengths = {2}
  TXFIFO = 3
  Users = {1, 2}
  PIPESIZE = 2
  WRAP = 4
  Bytes = {0, 1}
  MAXREF = 2
  Victims = {2}
  NoUser = 0
  Scribes = {s1, s2}
  Files = {f1, f2}
  Blocks = {1, 2, 3}
  BSIZE = 2
  NDIRECT = 1
  NINDIRECT = 3
  LOGRESERVE = 6
  Offsets = {0, 3}
  Sizes = {7}
  NoScribe = NoScribe
  NoFile = NoFile
INVARIANTS
  QueuesWork
  LogWorks
  DiskWorks
  PipeWorks
  ConsoleWorks
  FilesKeepBlocks
  SleepersHaveCause
PROPERTIES
  ImplementsFifo
  CrashAtomic
