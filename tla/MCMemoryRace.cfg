CONSTANTS
  a = a
  b = b
  p = p
  q = q
  NULL = NULL
  Threads = {a, p}
  Procs = {p}
  W = 2
  KLen = 2
  ULen = 1
  VLen = 2
  PTPages = 2
  MaxCnt = 2
SPECIFICATION Spec
INVARIANT FramesUnshared
CHECK_DEADLOCK FALSE
