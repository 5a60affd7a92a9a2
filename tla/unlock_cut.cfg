\* Power lost between the erase and the two saves of an unlock.
SPECIFICATION Spec
CONSTANTS
  Paths = {p1, p2}
  Mute = FALSE
INVARIANT UnlockClearsAll
