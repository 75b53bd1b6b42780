SPECIFICATION Spec
CONSTANTS
  CPUs = {c1, c2}
  NoCpu = NoCpu
  NPROC = 3
  Calls = {"fork", "wait", "exit", "kill", "io"}
  KillPids = {0, 2, 3}
  MaxPid = 3
SYMMETRY CPUSymmetry
INVARIANTS
  StackAlive WaitNotStuck
