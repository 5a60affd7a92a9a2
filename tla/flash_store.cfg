\* Updates until every page was collected several times, power lost at any three writes:
\* three torn updates fill the two data pages of two records each.
\* The bound of ids stops the updates.
SPECIFICATION FairSpec
CONSTANTS
  VirtualPages = 3
  Cap = 2
  MaxId = 16
  MaxCuts = 3
CHECK_DEADLOCK FALSE
INVARIANT TypeOK
INVARIANT OneSwap
INVARIANT UpdateFindsRecord
INVARIANT AckedIsHeld
INVARIANT OrphansAreCounted
PROPERTY StoresRecords
PROPERTY WriteReturns
