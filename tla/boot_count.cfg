\* A sensor that does not answer the count at boot.
SPECIFICATION Spec
CONSTANTS
  Paths = {p1, p2}
  Mute = TRUE
INVARIANT BootShowsLockState
