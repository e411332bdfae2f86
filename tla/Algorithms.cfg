CONSTANTS
  Day = 3
  Stations = {0, 1, 2, 3}
  NoStation <- MinusOne
  MaxJourney = 10
  LongDwell = 1
  Slack = 25
  MinEdges = 2
  Passes = 3
  PortBase = 7070
  GoodFor = 3
  Unset = Unset
  MaxScan = 4
  Hours = 4
  ChangeHour = 2
  Spare = 1
  Jobs <- AllJobs
SPECIFICATION Spec
INVARIANTS TimetableSound CoordinatesSound RolloutSound AnalysisSound ReplySound ChoiceSound
\* A program ends.
CHECK_DEADLOCK FALSE
