SPECIFICATION Spec
CONSTANTS
  Streams <- ShortGroups
  MaxGroups = 3
  MaxPictures = 5
  MaxSPSCount = 2
  MaxPPSCount = 2
  Word = 65536
  SourceLength = 8
  Limit = 100
INVARIANTS
  PocIncreasesAcrossIdr
CHECK_DEADLOCK FALSE
