SPECIFICATION Spec
CONSTANTS
  HasJobs = TRUE
  Runner = {r1, r2}
  Worker = {w1}
  Slot = {s1, s2}
  MinRunners = 0
  MaxRunners = 1
  Fallible = {}
  MaxAssigned = 1
  MaxGeneration = 1
  MaxRestarts = 0
  Stoppable = FALSE
SYMMETRY Permuted

INVARIANT HardCeiling
