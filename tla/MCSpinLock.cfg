CONSTANTS
  c1 = c1
  c2 = c2
  t1 = t1
  t2 = t2
  CPUs = {c1, c2}
  NoCpu = NoCpu
  Threads = {t1, t2}
  Devs = {1}
SYMMETRY Symmetry
SPECIFICATION Spec
INVARIANTS HoldingIsExact IntrRestored
