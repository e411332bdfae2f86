CONSTANTS
  a = a  b = b  c = c  e1 = e1  e2 = e2  p1 = p1  p2 = p2  w1 = w1  w2 = w2  q1 = q1  q2 = q2

  Workers = {e1, e2}
  Identities = {a, c}
  TimetableOf <- HashOf
  OwnTimetable = "own"
  Default = Default  Down = Down  Nothing = Nothing
  Queries = {q1, q2}
  Warmers = {w1, w2}
  Procs = {p1, p2}
  Asked = {q1}
  MaxChanges = 1
  Plan <- TwoQueries
  Casts <- Parts
SPECIFICATION Spec
INVARIANTS TypeOK RendersOwnTimetable OneWarmer WarmedOnce
\* The deployment may be stopped, and a warmer ends.
CHECK_DEADLOCK FALSE
PROPERTIES AllServe StopEnds WarmersEnd
