\* Only the answer to the enrolment comes late.
SPECIFICATION Spec
CONSTANTS
  Fingers = {f1, f2}
  Late = {"enroll"}
  MaxTimeouts = 1
  RxFrames = 4
  TouchResets = 4
  Debounce = 3
  MinCaptures = 3
  MaxCaptures = 5
  MaxFails = 5
INVARIANT FailedIsNotEnrolled
