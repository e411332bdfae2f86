\* Four settings: the lock with Redis up and computations that end before it
\* expires, with and without coalescing; everything that can fail; and neither
\* lock nor coalescing.
CONSTANTS
  q1 = q1  q2 = q2  q3 = q3  p1 = p1  p2 = p2
  Nobody = Nobody
  ProcessOf <- TwoTogether
  Callers = {q1, q2, q3}
  Processes = {p1, p2}
  Settings <- FourSettings
SPECIFICATION FairSpec
INVARIANTS
  Coalesced
  FailsOnlyByCompute
  NoStampede
PROPERTIES
  EveryCallReturns
\* all calls may have returned
CHECK_DEADLOCK FALSE
