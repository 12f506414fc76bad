CONSTANTS
  Conns = {c1, c2}
  Users = {u1, u2}
  Groups = {g1, g2}
  WDB = WDB
  SDB = SDB
  None = None
SPECIFICATION FairSpec
CHECK_DEADLOCK FALSE
INVARIANTS NoDeadlock WriterHasChannel CopyIsComplete ReceiptsHaveChannel ChannelsLeadToMembers
PROPERTIES MembersAreKept HandlersFinish
