SPECIFICATION Spec
CONSTANTS
  A = A
  C = C
  D = D
  f = f
  g = g
  Calls = {c1, c2}
  Requests = {A, C, D}
  Paths = {f, g}
  Patches <- PlansACD
  Mismatched = {D}
  Faults = {"row", "file", "crash"}
SYMMETRY Symmetry
INVARIANTS AnsweredIsFinal RunningHasOwner EndsAsReported OneExecutes
PROPERTIES ClaimedOnce ImplementsLedger
