SPECIFICATION FairSpec
CONSTANTS
  c1 = c1
  c2 = c2
  p1 = p1
  p2 = p2
  Clients = {c1, c2}
  Procs = {p1}
  Home <- OneProcess
  Workers = {w1, w2}
  Ids = {i1}
  Values = {v1}
  Bounded = FALSE
  NumRequests = 0
  DrawnOps = {"READ"}
  CollidingIds = TRUE
PROPERTY SigintAlwaysEnds
CHECK_DEADLOCK FALSE
