\* Two NFC_stop(true) are queued: the second stops NFC for good.
SPECIFICATION Spec
CONSTANTS
  Commands = {"CANCEL"}
  Pins = {}
  QueueSize = 4
  SuspendAt = 1
  MaxFailures = 1
  MaxDenied = 1
  Penalty <- MCPenalty
INVARIANT NfcRestarts
