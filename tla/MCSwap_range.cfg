SPECIFICATION Spec
CONSTANTS
  p1 = p1
  p2 = p2
  p3 = p3
  NoProc = NoProc
  Procs = {p1}
  SWAPBASE = 2
  SWAPMAX = 7
  FSSIZE = 8
  PGBLOCKS = 2
  Slots <- Tall
  Pages <- SomePages
  MaxCalls = 4
INVARIANTS
  InRangeWorks
CHECK_DEADLOCK FALSE
