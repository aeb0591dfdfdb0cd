CONSTANTS
  None = None
  Bridges = {A}
  Generations = {g, h}
  Remotes = {r}
  Workers = {w1, w2}
  MaxRetries = 2
SPECIFICATION LiveSpec
INVARIANTS
  TypeOK
  Converged
PROPERTY WorkerEnds
