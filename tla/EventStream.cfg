SPECIFICATION FairSpec
CONSTANTS
  MaxEvents = 5
  Page = 2
  Faults = {"read", "restart", "drop"}
INVARIANTS
  OrderedOnce
  NothingSkipped
PROPERTY CatchesUp
CHECK_DEADLOCK FALSE
