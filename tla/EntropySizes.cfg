SPECIFICATION Spec
CONSTANTS
  SymbolBits = 3
  LengthBits = 3
  MaxListed = 3
  Inputs <- LargeSizes
INVARIANTS
  LargeSizeRefused
CHECK_DEADLOCK FALSE
