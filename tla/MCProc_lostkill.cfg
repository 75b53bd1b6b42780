SPECIFICATION Spec
CONSTANTS
  CPUs = {c1, c2}
  NoCpu = NoCpu
  NPROC = 2
  Calls = {"fork", "kill", "io"}
  KillPids = {2}
  MaxPid = 2
SYMMETRY CPUSymmetry
INVARIANTS
  KilledAwake
