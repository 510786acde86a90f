------------------------------ MODULE MCMemory ------------------------------
EXTENDS Memory, TLC

CONSTANTS a, b, p, q

Symmetry == Permutations({a, b}) \cup Permutations({p, q})
=============================================================================
