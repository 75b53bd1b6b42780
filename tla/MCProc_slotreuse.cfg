SPECIFICATION Spec
CONSTANTS
  CPUs = {c1}
  NoCpu = NoCpu
  NPROC = 2
  Calls = {"fork", "wait", "exit", "kill"}
  KillPids = {0, 2}
  MaxPid = 3
PROPERTIES
  BornUnkilled
