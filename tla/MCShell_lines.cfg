SPECIFICATION ShSpec
CONSTANTS
  Procs = {1, 2, 3, 4, 5, 6}
  First = 1
  NFILE = 4
  NOFILE = 5
  Pages = {g1, g2}
  MAXARGS = 3
  PIPESIZE = 1
  Output = 2
  Sessions <- SomeSessions
CHECK_DEADLOCK FALSE
INVARIANTS
  RefExact ObjectsOwned StdioOnly LinesParse
PROPERTIES
  CommandsEnd
