\* Power is lost once between the erase and the promotion.
SPECIFICATION Spec
CONSTANTS
  VirtualPages = 3
  Cap = 2
  MaxId = 7
  MaxCuts = 1
CHECK_DEADLOCK FALSE
INVARIANT SwapAfterInit
