SPECIFICATION Spec
CONSTANTS
  A = A
  C = C
  D = D
  f = f
  g = g
  Calls = {c1, c2}
  Requests = {C}
  Paths = {f, g}
  Patches <- PlansC
  Mismatched = {}
  Faults = {}
PROPERTY ExecutedOnce
