CONSTANTS
  t1 = t1
  t2 = t2
  t3 = t3
  b1 = b1
  b2 = b2
  b3 = b3
  Threads = {t1, t2, t3}
  Blocks = {b1, b2, b3}
  Vals = {0}
  None = None
  MAXOPBLOCKS = 2
  LOGSIZE = 4
  size = 4
  OpBlocks = 1
  MaxCrash = 0
SPECIFICATION FairSpec
INVARIANTS NoLogPanic
PROPERTIES SleeperWakes
