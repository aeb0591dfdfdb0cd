CONSTANTS
  None = None
  Bridges = {A, B}
  Shutters = {s1}
  MaxPresses = 2
  MaxReports = 2
  SeqMod = 4
  Window = 1
  Cache = 2
  MaxDelay = 2
SPECIFICATION Spec
SYMMETRY Symmetry
INVARIANTS
  TypeOK
  OneEvent
  UpdatesOnce
  EstimatorOnce
CHECK_DEADLOCK FALSE
