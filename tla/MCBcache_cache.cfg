SPECIFICATION Spec
CONSTANTS
  Procs = {p1, p2}
  NoProc = NoProc
  Blocks = {b1, b2, b3, b4}
  NoBlock = NoBlock
  Vals = {0, 1}
  InitVal = 0
  NBUF = 3
  Written = {b1, b2}
  Pinned = {b1}
  DiskErrors = FALSE
SYMMETRY BcacheSymmetry
INVARIANTS
  SleepersHaveWakers
PROPERTIES
  Transparent
