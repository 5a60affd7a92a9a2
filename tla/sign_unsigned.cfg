\* SIGN answers SUCCESS to a hash of no byte or of too many, unsigned.
SPECIFICATION Spec
CONSTANTS
  Commands = {"SIGN"}
  Pins = {}
  QueueSize = 4
  SuspendAt = 1
  MaxFailures = 1
  MaxDenied = 1
  Penalty <- MCPenalty
INVARIANT SuccessIsDone
