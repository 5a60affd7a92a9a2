\* Every short PIN, and the key paths at the limits, in any order.
SPECIFICATION Spec
CONSTANTS
  Base <- MCBase
  MaxWord <- MCMaxWord
  MaxLen <- MCMaxLen
  Depth = 2
  PinNumerals <- MCPinNumerals
  KeyNumerals <- MCKeyNumerals
  Stack <- MCStack
INVARIANT TypeOK
INVARIANT KeyIsAsked
INVARIANT PinIsOwners
