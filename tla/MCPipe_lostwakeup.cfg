SPECIFICATION Spec
CONSTANTS
  Procs = {p1, p2}
  First = p1
  Bytes = {0, 1}
  PIPESIZE = 2
  W = 4
  MaxN = 3
  Buffers <- SomeBuffers
  Killable = {p1}
CHECK_DEADLOCK FALSE
INVARIANTS
  ReaderNotStuck
