\* The control core implements the session a reader is promised, and makes progress.
SPECIFICATION FairSpec
CONSTANTS
  Commands = {"UNLOCK", "CANCEL", "RESET"}
  Pins = {}
  QueueSize = 3
  SuspendAt = 1
  MaxFailures = 1
  MaxDenied = 0
  Penalty <- MCPenalty
PROPERTY ImplementsSession
PROPERTY RequestIsServed
PROPERTY SecurityShutsDown
