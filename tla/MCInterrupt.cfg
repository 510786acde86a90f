CONSTANTS
  main = main
  a = a
  p = p
  Main = main
  Threads = {main, a, p}
  Procs = {p}
  Lines = {0, 12}
  Exceptions = {14}
  MemSizes <- MCMemSizes
  StackBound = 24
SPECIFICATION Spec
INVARIANTS
  InterruptTypeOK
  OwnContext
  NothingInService
  HandlerOfLine
  PoolLayout
PROPERTIES
  ClockComes
