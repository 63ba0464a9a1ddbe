SPECIFICATION Spec
CONSTANTS
  Procs = {init, a, b}
  CPUs = {c1, c2}
  InitProc = init
  None = None
  MaxPid = 4
  KillPids = {0, 2}
SYMMETRY CPUSymmetry
INVARIANTS KilledByPid
