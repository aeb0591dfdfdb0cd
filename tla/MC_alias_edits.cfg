CONSTANTS
  None = None
  Bridges = {A, B}
  Generations = {g}
  Remotes = {r}
  Workers = {w1, w2}
  MaxRetries = 1
SPECIFICATION SteadySpec
SYMMETRY Symmetry
INVARIANTS
  OneWorker
  Converged
