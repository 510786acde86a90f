CONSTANTS
  a = a
  b = b
  p = p
  q = q
  NULL = NULL
  Threads = {a, b, p, q}
  Procs = {p, q}
  W = 2
  KLen = 2
  ULen = 1
  VLen = 2
  PTPages = 2
  MaxCnt = 2
SPECIFICATION Spec
SYMMETRY Symmetry
INVARIANTS
  MemoryTypeOK
  FramesExact
  PagesExact
  LocksHeldByCalls
  StopsOnlyWhenFull
  MappedInBitmap
CHECK_DEADLOCK FALSE
