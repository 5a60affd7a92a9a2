\* Power lost between the two updates that reset the counters.
SPECIFICATION Spec
CONSTANTS
  SuspendAt = 3
  MaxFailures = 4
  MaxRetry = 15
  Pow2 <- MCPow2
PROPERTY BootShortensSuspension
