SPECIFICATION Spec
CONSTANTS
  p1 = p1
  p2 = p2
  c1 = c1
  c2 = c2
  d1 = d1
  d2 = d2
  NoData = NoData
  Data = {d1, d2}
  Threads = {p1, p2, c1}
  Capacity = 2
  MaxPushes = 2
  Ops <- Everything
  Wanted <- WantsFirst
INVARIANTS
  NothingLostOrReordered
  FreeSlotsReleased
PROPERTIES
  ImplementsBoundedFifo
CHECK_DEADLOCK FALSE
