------------------------------- MODULE MCSync -------------------------------
EXTENDS Sync

CONSTANTS main, a, b, p, l1

MCPrio == [t \in Threads |-> 0]
=============================================================================
