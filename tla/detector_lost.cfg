\* The field comes and goes before the detector looks: nobody restarts it.
SPECIFICATION Spec
CONSTANTS
  Commands = {"CANCEL"}
  Pins = {}
  QueueSize = 4
  SuspendAt = 1
  MaxFailures = 1
  MaxDenied = 1
  Penalty <- MCPenalty
INVARIANT StandbyDetects
