SPECIFICATION Spec
CONSTANTS
  p1 = p1
  p2 = p2
  p3 = p3
  b1 = b1
  b2 = b2
  b3 = b3
  b4 = b4
  Procs = {p1, p2, p3}
  InitProc = p1
  Blocks = {b1, b2, b3, b4}
  Vals = {0}
  InitVal = 0
  NoBuf = NoBuf
  MAXOPBLOCKS = 1
  LOGSIZE = 3
  LogBlocks = 3
  OpWrites = 1
INVARIANT NoPanic
