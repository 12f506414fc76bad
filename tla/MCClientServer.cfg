CONSTANTS
  MaxBreaks = 2
  MaxMessages = 1
  MaxSent = 2
SPECIFICATION FairSysSpec
CHECK_DEADLOCK FALSE
INVARIANTS HalvesAreServed ReconnectsBounded NotStranded
PROPERTIES HalvesGetSockets ServerIsHeard
