CONSTANTS
  main = main
  a = a
  b = b
  console = console
  a1 = a1
  a2 = a2
  b1 = b1
  NL = NL
  Blank = Blank
  NULL = NULL
  Threads = {main, a, b}
  Main = main
  Procs = {}
  Prio <- MCPrio
  Locks = {console}
  MaxNest = 1
  Text <- MCText
  Cols = 3
  Rows = 3
  Base = 4
SPECIFICATION ConsoleSpec
INVARIANTS
  TextsWhole
  CursorAtEnd
PROPERTIES
  LockGoesOn
