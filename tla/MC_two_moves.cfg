CONSTANTS
  None = None
  Bridges = {A, B}
  Slots = {x, y}
  Shutters = {s1}
  Tasks = {t1, t2}
  Tokens = {k1, k2}
SPECIFICATION Spec
SYMMETRY Symmetry
INVARIANT SingleOwner
