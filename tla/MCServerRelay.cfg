CONSTANTS
  u1 = u1
  u2 = u2
  u3 = u3
  a1 = a1
  a2 = a2
  b = b
  c = c
  None = None
  All = All
  Users = {u1, u2}
  Conns = {a1, a2, b}
  Owner <- TwoOwners
  MaxWrites <- TwoToU1
  MayBreak = {a1, a2, b}
SPECIFICATION FairSpec
CHECK_DEADLOCK FALSE
INVARIANTS NothingLostInside ReceivedInOrder
PROPERTIES WorkingReadersKept BrokenReadersStop MessagesMoveOn
