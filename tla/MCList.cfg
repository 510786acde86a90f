CONSTANTS
  a = a
  b = b
  ready = ready
  waiters = waiters
  n1 = n1
  n2 = n2
  n3 = n3
  NULL = NULL
  Threads = {a, b}
  Lists = {ready, waiters}
  Nodes = {n1, n2, n3}
SPECIFICATION Spec
SYMMETRY Symmetry
INVARIANTS
  BothWays
PROPERTIES
  ImplementsQueues
