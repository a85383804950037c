SPECIFICATION Spec
CONSTANTS
  p1 = p1
  p2 = p2
  c1 = c1
  c2 = c2
  d1 = d1
  d2 = d2
  NoData = NoData
  Data = {d1, d2}
  Threads = {p1, c1}
  Capacity = 1
  MaxPushes = 3
  Ops <- TimedPushAndPop
  Wanted <- WantsFirst
INVARIANTS
  AssertionsHold
CHECK_DEADLOCK FALSE
