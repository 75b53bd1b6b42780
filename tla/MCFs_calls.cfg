SPECIFICATION Spec
CONSTANTS
  Procs = {p1, p2}
  NoProc = NoProc
  NINODES = 4
  NINODE = 5
  NOFILE = 1
  Names = {"a", "b", "c"}
  Loads <- FilesOrTree
VIEW LiveState
CHECK_DEADLOCK FALSE
SYMMETRY ProcSymmetry
INVARIANTS
  RefExact LinksCounted StuckByIputOnly NoneLeakedAlone
