SPECIFICATION Spec
CONSTANTS
  p1 = p1
  p2 = p2
  Procs = {p1, p2}
  init = p1
  None = None
  Names = {"a", "b"}
  ninodes = 4
  NINODE = 3
  NOFILE = 2
  NFILE = 1
  Calls <- MCCalls
INVARIANTS
  UnlinkedFreed
