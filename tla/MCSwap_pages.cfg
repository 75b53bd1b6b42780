SPECIFICATION Spec
CONSTANTS
  p1 = p1
  p2 = p2
  p3 = p3
  NoProc = NoProc
  Procs = {p1, p2, p3}
  SWAPBASE = 2
  SWAPMAX = 7
  FSSIZE = 9
  PGBLOCKS = 2
  Slots <- Neighbours
  Pages <- SomePages
  MaxCalls = 4
CHECK_DEADLOCK FALSE
INVARIANTS
  PageBack
