CONSTANTS
  a = a
  b = b
  Peers = {a, b}
  MaxMessages <- OneEach
  MaxFaults = 1
SPECIFICATION FairSpec
CHECK_DEADLOCK FALSE
PROPERTIES MessagesLeave MessagesAreRead
