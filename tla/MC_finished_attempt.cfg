CONSTANTS
  None = None
  Flows = {f1}
  Slots = {x, y}
  Shutters = {s1, s2}
  Ids = {i1, i2}
SPECIFICATION SensibleSpec
SYMMETRY Symmetry
INVARIANT FinishedIsForgotten
