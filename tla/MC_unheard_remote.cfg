CONSTANTS
  None = None
  Bridges = {A, B}
  Shutters = {s1}
  MaxPresses = 1
  MaxReports = 2
  SeqMod = 4
  Window = 1
  Cache = 2
  MaxDelay = 2
SPECIFICATION Spec
SYMMETRY Symmetry
INVARIANT EveryTarget
CHECK_DEADLOCK FALSE
