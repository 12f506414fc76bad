SPECIFICATION Spec
CONSTANTS
  Threads = {w1, w2}
  Entries = {c1, c2, c3, t1}
  NoEntry = NoEntry
  Circuits = {c1, c2, c3}
  Tasks = {t1}
  Taps = {c3}
  Prio <- MCPrio
  MaxGen = 0
  MaxTasks = {1, 2}
  NtorsPerTap = 1
SYMMETRY Symmetry
INVARIANTS CountersAgree NoDanglingCircuit NoneStranded
PROPERTIES RefillComplete
CHECK_DEADLOCK FALSE
