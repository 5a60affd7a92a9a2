\* Requests, results and authorisations, one request without and one with a change;
\* PIN failures over several power cycles, up to a suspension of four reboots.
SPECIFICATION Spec
CONSTANTS
  Commands = {"SIGN", "SET_PIN"}
  Pins = {"match", "wrong"}
  QueueSize = 2
  SuspendAt = 1
  MaxFailures = 2
  MaxDenied = 0
  Penalty <- MCPenalty
INVARIANT TypeOK
INVARIANT OneChangePerGrant
INVARIANT ReadWasTheResult
INVARIANT RefusalIsTold
PROPERTY SuspensionHolds
PROPERTY RejectedPublishesNothing
