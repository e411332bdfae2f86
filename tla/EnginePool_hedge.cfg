\* Hedged requests with one retry on a fixed list of two single-slot workers.
CONSTANTS
  r1 = r1  r2 = r2  r3 = r3  a = a  a2 = a2  b = b  c = c
  Url <- MCUrl
  AutoQueue = AutoQueue
  Requests = {r1, r2, r3}
  Workers = {a, b}
  InitialPool = {a, b}
  Concurrency = 1
  RetryMax = 1
  Hedging = TRUE
  MaxQueue = 0
  FailThreshold = 2
  NewLists <- NoLists
SPECIFICATION Spec
SYMMETRY FixedSymmetry
INVARIANTS
  TypeOK
  SlotsOK
  OutstandingExact
  InFlightExact
  NobodyForgotten
  NoOrphanCalls
PROPERTIES
  HedgeLoserBlameless
  NothingStartsAfterTimeout
