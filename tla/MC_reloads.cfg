CONSTANTS
  None = None
  Objects = {g1, g2}
  MaxArchives = 1
  MaxTasks = 2
SPECIFICATION LiveSpec
INVARIANTS
  TypeOK
  UnderWayIsKnown
  BackupFits
PROPERTIES
  StaysCleared
  EndsCleared
