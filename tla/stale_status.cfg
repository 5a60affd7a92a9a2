\* The status of a SET command is the one the command before it left.
SPECIFICATION Spec
CONSTANTS
  Commands = {"SET_PIN"}
  Pins = {"match"}
  QueueSize = 4
  SuspendAt = 1
  MaxFailures = 1
  MaxDenied = 1
  Penalty <- MCPenalty
INVARIANT FailIsRefused
