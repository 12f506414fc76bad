CONSTANTS
  a = a
  b = b
  Peers = {a, b}
  MaxMessages <- OneEach
  MaxFaults = 0
SPECIFICATION FairSpec
CHECK_DEADLOCK FALSE
PROPERTY GivenSocketsAreRead
