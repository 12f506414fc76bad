SPECIFICATION FairSpec
CONSTANTS
  s1 = s1
  s2 = s2
  StreamList <- TwoStreams
  NoStream = NoStream
  CircStart = 4
  CircInc = 2
  CircWindow = 2
  StreamStart = 2
  StreamInc = 1
  SendmeInc = 2
  Cwnds = {2, 4}
  CellqHigh = 3
  CellqLow = 1
  XoffLimit = 0
  Burst = 0
  OutbufLimit = 0
  Data <- MoreOnOne
  MaxControl = 1
CHECK_DEADLOCK FALSE
INVARIANTS CircuitStaysOpen CreditConserved DigestsInOrder XoffObeyed
  OnlyXoffInRounds
PROPERTY AllDelivered
