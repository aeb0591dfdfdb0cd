CONSTANTS
  None = None
  Bridges = {A, B}
  Slots = {x, y}
  Shutters = {s1}
  Tasks = {t1}
  Tokens = {k1, k2}
SPECIFICATION RetrySpec
INVARIANTS
  ArchivedIsJournaled
  MetadataAgrees
  RejectedIsUndone
PROPERTIES
  RowsFollowOwner
  ArchiveEnds
