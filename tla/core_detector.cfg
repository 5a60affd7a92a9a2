\* The detector and the queue, two denials, and the changes a touch or a request makes.
SPECIFICATION Spec
CONSTANTS
  Commands = {"UNLOCK", "SET_PIN"}
  Pins = {"match"}
  QueueSize = 3
  SuspendAt = 1
  MaxFailures = 1
  MaxDenied = 1
  Penalty <- MCPenalty
INVARIANT OneDetector
INVARIANT DeniedIsBounded
PROPERTY ConfigChangeIsAuthorized
