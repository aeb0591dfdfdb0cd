CONSTANTS
  None = None
  Bridges = {A, B, C}
  Slots = {x}
  Shutters = {s1, s2}
  Tasks = {t1, t2}
  Tokens = {k1, k2}
SPECIFICATION OrderlySpec
SYMMETRY Symmetry
INVARIANTS
  SingleOwner
  IdentityHeld
  CommitProved
  LocksServe
PROPERTY KeepsPromise
