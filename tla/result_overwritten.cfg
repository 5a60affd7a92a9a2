\* A reader writes over an unread result and reads its own request: the result is taken for read.
SPECIFICATION Spec
CONSTANTS
  Commands = {"CANCEL"}
  Pins = {}
  QueueSize = 4
  SuspendAt = 1
  MaxFailures = 1
  MaxDenied = 1
  Penalty <- MCPenalty
PROPERTY ReadIsOfResult
