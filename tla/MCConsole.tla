------------------------------ MODULE MCConsole ------------------------------
EXTENDS Console

CONSTANTS main, a, b, console, a1, a2, b1

MCPrio == [t \in Threads |-> 0]
MCText == [t \in Threads |-> CASE t = main -> <<>>
                               [] t = a -> <<a1, a2>>
                               [] t = b -> <<b1, NL>>]
=============================================================================
