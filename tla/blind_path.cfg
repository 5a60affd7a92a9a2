\* SET_KEY without data.
SPECIFICATION Spec
CONSTANTS
  Base <- MCBase
  MaxWord <- MCMaxWord
  MaxLen <- MCMaxLen
  Depth = 2
  PinNumerals <- MCPinNumerals
  KeyNumerals <- MCKeyNumerals
  Stack <- MCStack
INVARIANT KeyFollowsPath
