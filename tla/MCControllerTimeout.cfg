SPECIFICATION Spec
CONSTANTS
  HasJobs = TRUE
  Runner = {r1}
  Worker = {w1}
  Slot = {s1, s2}
  MinRunners = 1
  MaxRunners = 1
  Fallible = {}
  MaxAssigned = 0
  MaxGeneration = 1
  MaxRestarts = 0
  Stoppable = TRUE
SYMMETRY Permuted
CHECK_DEADLOCK FALSE
INVARIANT TimeoutBlamesBackend
