SPECIFICATION Spec
CONSTANTS
  Procs = {p1, p2}
  NoProc = NoProc
  Chars = {"a"}
  INPUT_BUF = 2
  W = 4
  MaxN = 3
  Killable = {p1}
INVARIANTS
  NobodyStuck
PROPERTIES
  InOrder EofIsEmptyRead
