SPECIFICATION LifeSpec
CONSTANTS
  c1 = c1
  c2 = c2
  p1 = p1
  p2 = p2
  Clients = {c1, c2}
  Procs = {p1, p2}
  Home <- TwoProcesses
  Workers = {w1}
  Ids = {i1, i2}
  Values = {v1}
  Bounded = TRUE
  NumRequests = 1
  DrawnOps = {"READ"}
  CollidingIds = FALSE
  MaxLaunches = 2
  MaxSignals = 3
SYMMETRY Symmetry
INVARIANTS
  LifeTypeOK
  LifeIInv
  LifeCopyInv
  SlotsExclusive
  RequestsKept
  PermitsRestored
  ExitsOnlyWhenThreadsLeft
CHECK_DEADLOCK FALSE
