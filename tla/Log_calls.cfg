SPECIFICATION FairSpec
CONSTANTS
  p1 = p1
  p2 = p2
  b1 = b1
  b2 = b2
  b3 = b3
  Procs = {p1, p2}
  InitProc = p1
  Blocks = {b1, b2, b3}
  Vals = {0, 1}
  InitVal = 0
  NoBuf = NoBuf
  MAXOPBLOCKS = 1
  LOGSIZE = 2
  LogBlocks = 3
  OpWrites = 1
INVARIANTS
  LogFits DurableWhenQuiet
PROPERTIES
  CrashAtomic SleepersWake
