CONSTANTS
  None = None
  Tasks = {t1, t2}
  Primary = P
  Secondary = S
  MaxDrops = 1
SPECIFICATION Spec
SYMMETRY Symmetry
INVARIANTS
  TypeOK
  PrimaryOnce
  RelayExact
  OneTransmitter
  OwnAnswer
  ToldTruth
  LocksServe
CHECK_DEADLOCK FALSE
