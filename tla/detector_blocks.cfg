\* A request is handed over behind a detector nobody stops.
SPECIFICATION Spec
CONSTANTS
  Commands = {"CANCEL"}
  Pins = {}
  QueueSize = 4
  SuspendAt = 1
  MaxFailures = 1
  MaxDenied = 1
  Penalty <- MCPenalty
INVARIANT DetectorYields
