SPECIFICATION LockedSpec
CONSTANTS
  c1 = c1
  c2 = c2
  p1 = p1
  p2 = p2
  Trials <- AllPairs
  Clients = {c1, c2}
  Procs = {p1, p2}
  Home <- TwoProcesses
  Workers = {w1}
  Ids = {i1, i2}
  Values = {v1}
  Bounded = FALSE
  NumRequests = 0
  MaxDraws = 2
  DrawnOps = {"DELETE"}
  CollidingIds = TRUE
SYMMETRY Symmetry
INVARIANTS
  LockedTypeOK
  LockedIInv
  QueuesExclusive
  NoPopFromEmptyQueue
  RequestPermitKept
  ResponsePermitKept
  RequestLockFree
  TicketsCounted
  ServerExitsLast
CONSTRAINT FewSteps
CHECK_DEADLOCK FALSE
