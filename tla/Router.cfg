\* Every timetable of four trains of the pool, under three combinations of the
\* limits.
CONSTANTS
  Day = 10
  Stations = {1, 2, 3, 4, 5}
  NoStation = 0
  Source = 1
  Destination = 4
  QueryTime = 2
  Weekday = 0
  Horizon = 18
  TR = 1
  PruneStayOn = TRUE
  PruneBoardEarlier = TRUE
  Timetables <- Quadruples
  Limits <- ThreeKinds
SPECIFICATION Spec
INVARIANTS
  BoundAdmissible
  AnswerComplete
  AnswerSound
PROPERTIES
  EnumerationPromise
\* the search ends
CHECK_DEADLOCK FALSE
