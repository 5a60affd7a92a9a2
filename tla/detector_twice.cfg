\* A field event starts a detector inside the main loop's own start of one.
SPECIFICATION Spec
CONSTANTS
  Commands = {"CANCEL"}
  Pins = {}
  QueueSize = 4
  SuspendAt = 1
  MaxFailures = 1
  MaxDenied = 1
  Penalty <- MCPenalty
INVARIANT DetectorIsAlone
