CONSTANTS
  NPROC = 3
  CPUS = {c1}
  NoCpu = NoCpu
  MaxPid = 3
  KillPids = {3}
SPECIFICATION FairSpec
PROPERTIES
  WaitReturns
  RunnableRuns
