CONSTANTS
  NPROC = 3
  CPUS = {c1, c2}
  NoCpu = NoCpu
  MaxPid = 3
  KillPids = {2, 3}
SPECIFICATION Spec
SYMMETRY Symmetry
INVARIANTS KernelStackExclusive NoLostExitWakeup ChildHasLiveParent
