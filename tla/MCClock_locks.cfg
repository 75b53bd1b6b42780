SPECIFICATION Spec
CONSTANTS
  p1 = p1
  p2 = p2
  Procs = {p1, p2}
  CPUs = {c0, c1}
  Cpu0 = c0
  NoCpu = NoCpu
  W = 3
  Calls <- SomeCalls
VIEW View
INVARIANTS
  NoPanic InterruptsRestored SleeperNotLate
