\* A URL that leaves the registry and comes back.
CONSTANTS
  r1 = r1  r2 = r2  r3 = r3  a = a  a2 = a2  b = b  c = c
  Url <- MCUrl
  AutoQueue = AutoQueue
  Requests = {r1, r2}
  Workers = {a, a2, b}
  InitialPool = {a, b}
  Concurrency = 1
  RetryMax = 1
  Hedging = FALSE
  MaxQueue = AutoQueue
  FailThreshold = 2
  NewLists <- FlappingLists
SPECIFICATION Spec
INVARIANTS
  PerWorkerCap
