CONSTANTS
  main = main
  a = a
  b = b
  p = p
  l1 = l1
  NULL = NULL
  Threads = {main, a, b, p}
  Main = main
  Procs = {p}
  Prio <- MCPrio
  Locks = {l1}
  MaxNest = 2
SPECIFICATION SyncSpec
INVARIANTS
  SyncTypeOK
  NoPanic
  MutualExclusion
  HolderTold
  WaitersExact
  NoLostWakeup
PROPERTIES
  ThreadSafety
  ImplementsMutex
