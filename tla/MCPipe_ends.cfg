SPECIFICATION Spec
CONSTANTS
  Procs = {p1, p2, p3}
  First = p1
  Bytes = {0, 1}
  PIPESIZE = 2
  W = 4
  MaxN = 2
  Buffers <- SomeBuffers
  Killable = {p3}
CHECK_DEADLOCK FALSE
INVARIANTS
  FreedOnce WriterNotStuck ReaderStuckByKillOnly
PROPERTIES
  InOrder
