SPECIFICATION FairPoolSpec
CONSTANTS
  Threads = {w1, w2}
  Entries = {e1, e2, e3}
  Low = {e3}
  NoEntry = NoEntry
  Prio <- MCPrio
  MaxGen = 1
INVARIANTS NoLostWakeup NoLostAnswer OnePlace FreshState
PROPERTY WorkIsDone
