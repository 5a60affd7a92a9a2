\* UNLOCK answers SUCCESS although the fingerprints were not erased.
SPECIFICATION Spec
CONSTANTS
  Commands = {"UNLOCK"}
  Pins = {}
  QueueSize = 4
  SuspendAt = 1
  MaxFailures = 1
  MaxDenied = 1
  Penalty <- MCPenalty
INVARIANT SuccessIsDone
