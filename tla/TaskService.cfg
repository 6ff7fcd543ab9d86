SPECIFICATION Spec
CONSTANTS
  p = p
  q = q
  Calls = {a, b, c, d}
  Contents = {p, q}
  Versions = {0, 1, 2}
  Drafts <- MCDrafts
SYMMETRY Symmetry
INVARIANTS
  HistoryIsLegal
  StartedOnce
  RanWasApproved
PROPERTY ImplementsLifecycle
CHECK_DEADLOCK FALSE
