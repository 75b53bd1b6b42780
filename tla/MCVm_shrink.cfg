CONSTANTS
  A = A  B = B  C = C
  Procs = {A, B, C}
  First = A
  NPAGES = 21
  PGSIZE = 2
  NPTENTRIES = 2
  NPDENTRIES = 3
  KTABLES = 1
  W = 32
  WORD = 2
  HEADER = 8
  UINT = 256
  NALLOC = 4
  HEAP = 2
  TOP = 17
  Requests = {1, 8, 9, 30}
  Gaps = {1}
  MaxOps = 6
  Growths <- SomeGrowths
  Images <- SomeImages
SPECIFICATION Spec
SYMMETRY Perms
VIEW Shape
INVARIANT FailureKeepsMemory
