SPECIFICATION FairSpec
CONSTANTS
  Streams <- TwoStreams
  MaxGroups = 13
  MaxPictures = 11
  MaxSPSCount = 1
  MaxPPSCount = 1
  Word = 65536
  Limit = 10
  NumReorder = 2
  RingCapacity = 2
INVARIANTS
  TypeOK
  DeliveredInDisplayOrder
  PairedWithOwnEnhancement
  EnhancementAtHand
  AllDelivered
PROPERTIES
  Terminates
CHECK_DEADLOCK FALSE
