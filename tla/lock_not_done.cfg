\* LOCK answers SUCCESS and enrols nobody.
SPECIFICATION Spec
CONSTANTS
  Commands = {"LOCK"}
  Pins = {}
  QueueSize = 4
  SuspendAt = 1
  MaxFailures = 1
  MaxDenied = 1
  Penalty <- MCPenalty
INVARIANT SuccessIsDone
