CONSTANTS
  Senders = {s1, s2}
  Receivers = {r1, r2}
  Dedicated = {r1}
  Free = Free
  MaxSends = 3
SPECIFICATION FairSpec
INVARIANTS NoLostWakeup
PROPERTIES ImplementsMailbox
