\* Every operation cut short anywhere, with a sensor that may not answer.
SPECIFICATION Spec
CONSTANTS
  Paths = {p1, p2}
  Mute = TRUE
INVARIANT TypeOK
INVARIANT UnlockedIsClear
INVARIANT LockFlagIsCurrent
PROPERTY ChangeIsAuthorized
