SPECIFICATION Spec
CONSTANTS
  Streams <- MCStreams
  SplicedStreams <- MCSplicedStreams
  Contents = {"Sparse", "Busy"}
  Content <- MCContent
  BaseUnit <- MCBaseUnit
  MaxPictures = 3
  MaxStreams = 2
INVARIANTS
  TypeOK
  NothingRefused
  EnhancementFoundAgain
  ConfigurationArrives
  SymbolsArrive
  MatricesAgree
  SizesAgree
  OutputHasSourceSize
CHECK_DEADLOCK FALSE
