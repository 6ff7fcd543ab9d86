SPECIFICATION FairSpec
CONSTANTS
  MaxSeats = 3
  Attempts = 3
INVARIANTS
  JudgedByAll
  NoCallIsLeftBehind
PROPERTIES
  TimedStagesEnd
  GoneEnds
CHECK_DEADLOCK FALSE
