SPECIFICATION FairSpec
CONSTANTS
  Starts = {s1, s2}
  Stops = {k1}
  Faults = {"start", "exit", "hang", "deadline"}
INVARIANTS
  NoChildIsForgotten
  ReadyIsAlive
PROPERTIES
  StopReturns
  AbandonedEnds
CHECK_DEADLOCK FALSE
