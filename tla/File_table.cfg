SPECIFICATION Spec
CONSTANTS
  Procs = {p1, p2}
  First = p1
  NFILE = 3
  NOFILE = 2
  Pages = {g1}
INVARIANTS
  RefExact ObjectsOwned
