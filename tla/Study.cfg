CONSTANTS
  Variants <- Three
  Fleet = 2
  MaxFailures = 1
  MaxRestarts = 1
SPECIFICATION Spec
INVARIANTS FaultsUndone MeasuredAsPlanned ExitHonest
PROPERTIES StudyEnds
\* The study ends.
CHECK_DEADLOCK FALSE
