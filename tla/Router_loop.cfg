\* A train that passes a station twice.
CONSTANTS
  Day = 10
  Stations = {1, 2, 3, 4, 5}
  NoStation = 0
  Source = 1
  Destination = 4
  QueryTime = 2
  Weekday = 0
  Horizon = 18
  TR = 1
  PruneStayOn = TRUE
  PruneBoardEarlier = TRUE
  Timetables <- LoopTimetable
  Limits <- Unlimited
SPECIFICATION Spec
INVARIANT DominanceSound
\* the search ends
CHECK_DEADLOCK FALSE
