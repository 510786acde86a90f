---------------------------- MODULE MCRoundRobin -----------------------------
EXTENDS RoundRobin

CONSTANTS main, a, p, q

MCPrio == [t \in Threads |-> IF t \in {main, a} THEN 1 ELSE 0]
=============================================================================
