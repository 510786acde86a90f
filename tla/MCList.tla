------------------------------- MODULE MCList --------------------------------
EXTENDS List

CONSTANTS a, b, ready, waiters, n1, n2, n3

Symmetry == Permutations({n1, n2, n3}) \cup Permutations({a, b})
              \cup Permutations({ready, waiters})
=============================================================================
