CONSTANTS
  t1 = t1
  t2 = t2
  t3 = t3
  b1 = b1
  b2 = b2
  b3 = b3
  Threads = {t1, t2, t3}
  Blocks = {b1, b2}
  Vals = {0, 1}
  None = None
  MAXOPBLOCKS = 3
  LOGSIZE = 6
  size = 6
  OpBlocks = 2
  MaxCrash = 2
SYMMETRY Symmetry
SPECIFICATION Spec
PROPERTY CrashAtomic
