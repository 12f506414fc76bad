---------------------------- MODULE MCCpuWorker ----------------------------
EXTENDS CpuWorker, TLC

\* Handshakes are WQ_PRI_HIGH, the other users' tasks WQ_PRI_LOW.
MCPrio == [e \in Entries |-> IF e \in Circuits THEN 0 ELSE 2]

Symmetry == Permutations(Threads) \cup Permutations(Circuits \ Taps)
=============================================================================
