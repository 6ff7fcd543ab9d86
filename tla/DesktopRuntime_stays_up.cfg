SPECIFICATION Spec
CONSTANTS
  Starts = {s1}
  Stops = {k1}
  Faults = {}
INVARIANT StaysUp
CHECK_DEADLOCK FALSE
