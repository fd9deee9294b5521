SPECIFICATION Spec
CONSTANTS
  HasJobs = FALSE
  Runner = {r1, r2}
  Worker = {w1, w2}
  Slot = {s1, s2, s3}
  MinRunners = 0
  MaxRunners = 1
  Fallible = {"fence"}
  MaxAssigned = 1
  MaxGeneration = 1
  MaxRestarts = 0
  Stoppable = FALSE
SYMMETRY Permuted

INVARIANTS CeilingUpToContested
