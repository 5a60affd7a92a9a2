\* Power is lost between an update's last header word and its dirty mark.
SPECIFICATION Spec
CONSTANTS
  VirtualPages = 3
  Cap = 2
  MaxId = 6
  MaxCuts = 2
CHECK_DEADLOCK FALSE
INVARIANT LoadIsLatest
