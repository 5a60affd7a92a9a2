\* A number that does not fit, with the tail of the largest word.
SPECIFICATION Spec
CONSTANTS
  Base <- MCBase
  MaxWord <- MCMaxWord
  MaxLen <- MCMaxLen
  Depth = 2
  PinNumerals <- MCPinNumerals
  KeyNumerals <- MCKeyNumerals
  Stack <- MCStack
INVARIANT PinTakesEffect
