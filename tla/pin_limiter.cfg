\* Counters scaled so that the last suspension overflows the retry counter (2^4 > 15).
SPECIFICATION Spec
CONSTANTS
  SuspendAt = 3
  MaxFailures = 4
  MaxRetry = 15
  Pow2 <- MCPow2
INVARIANT TypeOK
INVARIANT ToldIsStored
PROPERTY SuspensionIsServed
PROPERTY SuspensionGrows
