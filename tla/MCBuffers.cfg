SPECIFICATION BuffersSpec
CONSTANTS
  p1 = p1
  p2 = p2
  MemorySizes = {9, 12, 15, 19}
  FileCalls = 5
  VmCalls = 4
  Readers = {1, 2}
  INPUT_BUF_SIZE = 3
  UINT = 6
  Letters = {"x"}
  Newline = "n"
  EOF = "D"
  MaxRead = 2
INVARIANTS BlocksOwnedOnce WritesFitLog PagesAccounted OutputInOrder TtyNeverStuck
PROPERTIES FilesAreBytes MemoryIsImages ConsoleIsLines
\* The number of calls is bounded.
CHECK_DEADLOCK FALSE
