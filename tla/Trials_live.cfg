SPECIFICATION LockedFairSpec
CONSTANTS
  c1 = c1
  c2 = c2
  p1 = p1
  p2 = p2
  Trials <- SafePairs
  Clients = {c1}
  Procs = {p1}
  Home <- OneThread
  Workers = {w1}
  Ids = {i1}
  Values = {v1}
  Bounded = FALSE
  NumRequests = 0
  MaxDraws = 1
  DrawnOps = {"READ"}
  CollidingIds = FALSE
PROPERTIES
  ServerEnds
  ClientEnds
  RequestsSettled
CHECK_DEADLOCK FALSE
