\* The worker list loses a worker while hedged requests run.
CONSTANTS
  r1 = r1  r2 = r2  r3 = r3  a = a  a2 = a2  b = b  c = c
  Url <- MCUrl
  AutoQueue = AutoQueue
  Requests = {r1, r2}
  Workers = {a, b}
  InitialPool = {a, b}
  Concurrency = 1
  RetryMax = 1
  Hedging = TRUE
  MaxQueue = AutoQueue
  FailThreshold = 1
  NewLists <- ShrinkingLists
SPECIFICATION FairSpec
PROPERTIES
  SlotsPromise
  EveryRequestAnswered
  EveryCallEnds
