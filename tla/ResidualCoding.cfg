SPECIFICATION CodingSpec
CONSTANTS
  SymbolBits = 3
  LengthBits = 3
  MaxListed = 3
  Limit = 8
  TileSize = 4
  BLOCK_SIZE = 4
  Inputs <- AllInputs
  Logarithm <- LogarithmTable
  Configurations <- AllConfigurations
INVARIANTS
  TypeOK
  RoundTrip
  TreesAgree
  SymbolsUsedUp
  DecoderReconstructsEncoder
  ShownWithinSteps
PROPERTIES
  AllDecoded
CHECK_DEADLOCK FALSE
