CONSTANTS
  Users = {u1, u2}
  I = {0, 2}
  W = {1, 2}
  As = {1}
  Ar = {0, 1}
  MaxId = 2
SPECIFICATION FairSpec
INVARIANTS ReceiptsMatch 
PROPERTIES EventuallyAcknowledged
