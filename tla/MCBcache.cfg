CONSTANTS
  t1 = t1
  t2 = t2
  k1 = k1
  k2 = k2
  k3 = k3
  k4 = k4
  Threads = {t1, t2}
  Blocks = {k1, k2, k3, k4}
  Vals = {0, 1}
  NBUF = 3
  MaxPins = 1
  None = None
SYMMETRY Symmetry
SPECIFICATION Spec
INVARIANTS RefcntExact SleepLockSound
PROPERTY CacheIsMemory
