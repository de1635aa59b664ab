CONSTANTS
  t1 = t1
  t2 = t2
  t3 = t3
  x = x
  y = y
  Threads = {t1, t2, t3}
  Vals = {x, y}
  NUM = 7
  U16 = 7
  None = None
SYMMETRY Symmetry
SPECIFICATION Spec
INVARIANTS DescsAccounted NoLostDiskWakeup
PROPERTY RequestsServed
