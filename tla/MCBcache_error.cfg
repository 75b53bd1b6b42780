SPECIFICATION Spec
CONSTANTS
  Procs = {p1}
  NoProc = NoProc
  Blocks = {b1, b2}
  NoBlock = NoBlock
  Vals = {0, 1}
  InitVal = 0
  NBUF = 1
  Written = {b1, b2}
  Pinned = {}
  DiskErrors = TRUE
INVARIANTS
  CleanIsDisk
