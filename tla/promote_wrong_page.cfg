\* The collected page comes before the swap page, which comes last.
SPECIFICATION Spec
CONSTANTS
  VirtualPages = 3
  Cap = 2
  MaxId = 11
  MaxCuts = 1
CHECK_DEADLOCK FALSE
INVARIANT PromoteTakesErased
