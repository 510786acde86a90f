CONSTANTS
  main = main
  a = a
  p = p
  q = q
  NULL = NULL
  Threads = {main, a, p, q}
  Main = main
  Procs = {p, q}
  Prio <- MCPrio
SPECIFICATION RRFairSpec
INVARIANTS
  TypeOK
  ReadyListExact
  OneRunning
  OwnAddressSpace
  FramesResumable
  NoPanic
  ThdListComplete
PROPERTIES
  OneSliceEach
  ReadyRuns
