\* A request written over an unread result is published as that result.
SPECIFICATION Spec
CONSTANTS
  Commands = {"CANCEL", "LOCK"}
  Pins = {}
  QueueSize = 4
  SuspendAt = 1
  MaxFailures = 1
  MaxDenied = 1
  Penalty <- MCPenalty
INVARIANT ResultBelongsToCommand
