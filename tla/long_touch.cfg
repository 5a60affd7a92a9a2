\* The counter wraps twice in the time; a long touch fits between two wraps.
SPECIFICATION Spec
CONSTANTS
  Short = 2
  Long = 6
  Debounce = 3
  Wrap = 13
  MaxPoll = 2
  MaxTime = 28
INVARIANT TypeOK
INVARIANT LongIsHeld
INVARIANT ShortIsHeld
INVARIANT HeldIsServed
