\* Detectors fill the queue, the stop task of a request handed over is dropped.
SPECIFICATION FairSpec
CONSTANTS
  Commands = {"UNLOCK"}
  Pins = {}
  QueueSize = 4
  SuspendAt = 1
  MaxFailures = 1
  MaxDenied = 1
  Penalty <- MCPenalty
PROPERTY HandOverIsKept
