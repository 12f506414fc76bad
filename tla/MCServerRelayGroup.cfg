CONSTANTS
  u1 = u1
  u2 = u2
  u3 = u3
  a1 = a1
  a2 = a2
  b = b
  c = c
  None = None
  All = All
  Users = {u1, u2, u3}
  Conns = {a1, b, c}
  Owner <- ThreeOwners
  MaxWrites <- TwoSend
  MayBreak = {a1}
SPECIFICATION Spec
CHECK_DEADLOCK FALSE
INVARIANTS ForwardedInOrder
