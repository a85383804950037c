SPECIFICATION Spec
CONSTANTS
  NumPlanes = 2
  Blocks = {b1, b2}
  Modulus = 3
  Symbols = {"zero", "some"}
  Recon <- SmallRecon
  Empty = Empty
  Configurations <- Carried
INVARIANTS
  TypeOK
  NoDrift
  BuffersAgree
  PlanesUniform
  SignallingAgrees
