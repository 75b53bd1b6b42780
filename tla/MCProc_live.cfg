SPECIFICATION FairSpec
CONSTANTS
  CPUs = {c1}
  NoCpu = NoCpu
  NPROC = 3
  Calls = {"fork", "wait", "exit", "kill"}
  KillPids = {2}
  MaxPid = 3
PROPERTIES
  RunnableRuns KilledDies OrphansReaped
