\* A reset of a device whose unlock was cut short.
SPECIFICATION Spec
CONSTANTS
  Paths = {p1, p2}
  Mute = FALSE
INVARIANT ResetClearsAll
