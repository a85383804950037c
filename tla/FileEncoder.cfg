SPECIFICATION FairSpec
CONSTANTS
  Streams <- SixStreams
  MaxGroups = 3
  MaxPictures = 20
  MaxSPSCount = 2
  MaxPPSCount = 2
  Word = 65536
  SourceLength = 20
  Limit = 19
INVARIANTS
  TypeOK
  WrittenInCodingOrder
  WrittenWithOwnEnhancement
  EncodedInDisplayOrder
  NothingLeftBehind
PROPERTIES
  Terminates
CHECK_DEADLOCK FALSE
