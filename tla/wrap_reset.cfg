\* A touch lasts over the wrap of the counter.
SPECIFICATION Spec
CONSTANTS
  Short = 2
  Long = 6
  Debounce = 3
  Wrap = 11
  MaxPoll = 2
  MaxTime = 24
INVARIANT ResetIsHeld
