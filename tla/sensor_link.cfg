\* Any answer may come late, up to four in the time the device is powered; the
\* sensor is reset at least once in a long touch.
SPECIFICATION Spec
CONSTANTS
  Fingers = {f1, f2}
  Late = {"level", "reset", "count", "capture", "match", "enroll", "erase"}
  MaxTimeouts = 4
  RxFrames = 4
  TouchResets = 1
  Debounce = 3
  MinCaptures = 3
  MaxCaptures = 5
  MaxFails = 5
INVARIANT TypeOK
INVARIANT LeftByTimeouts
INVARIANT ValidatedIsReal
INVARIANT LockedHasPrint
INVARIANT EnrolledIsReal
