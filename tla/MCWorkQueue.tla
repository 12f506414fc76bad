---------------------------- MODULE MCWorkQueue ----------------------------
EXTENDS WorkQueue

CONSTANT Low   \* the entries of low priority

MCPrio == [e \in Entries |-> IF e \in Low THEN 2 ELSE 0]
=============================================================================
