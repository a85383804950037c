SPECIFICATION FairSpec
CONSTANTS
  p1 = p1
  p2 = p2
  c1 = c1
  c2 = c2
  d1 = d1
  d2 = d2
  NoData = NoData
  Data = {d1, d2}
  Threads = {p1, c1, c2}
  Capacity = 2
  MaxPushes = 3
  Ops <- PopIfAndPop
  Wanted <- WantsFirst
PROPERTIES
  DataReachesPopIf
CHECK_DEADLOCK FALSE
