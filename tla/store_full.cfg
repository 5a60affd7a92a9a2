\* Three torn updates leave as many records as two pages hold.
SPECIFICATION FairSpec
CONSTANTS
  VirtualPages = 3
  Cap = 2
  MaxId = 12
  MaxCuts = 3
CHECK_DEADLOCK FALSE
PROPERTY WriteAlwaysReturns
