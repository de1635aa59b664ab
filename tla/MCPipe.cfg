CONSTANTS
  w = w
  r = r
  b = b
  Procs = {w, r, b}
  NoProc = NoProc
  PIPESIZE = 2
  UINT = 4
  Bytes = {0, 1}
  MaxN = 3
  FirstEnds <- TwoAndBoth
  Killable = {b}
SPECIFICATION Spec
INVARIANTS FreedLast NoLostPipeWakeup
PROPERTIES PipeIsQueue ZeroMeansEof
\* All ends are closed at last, or a reader waits for bytes that only it could
\* write.
CHECK_DEADLOCK FALSE
