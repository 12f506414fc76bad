CONSTANTS
  Conns = {c1, c2}
  Users = {u1, u2}
  Groups = {g1}
  WDB = WDB
  SDB = SDB
  None = None
SPECIFICATION FairSpec
CHECK_DEADLOCK FALSE
PROPERTY ReconnectedReaderStarts
