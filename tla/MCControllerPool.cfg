SPECIFICATION Spec
CONSTANTS
  HasJobs = FALSE
  Runner = {r1, r2}
  Worker = {w1, w2}
  Slot = {s1, s2, s3}
  MinRunners = 1
  MaxRunners = 1
  Fallible = {"list", "create", "delete"}
  MaxAssigned = 0
  MaxGeneration = 0
  MaxRestarts = 1
  Stoppable = FALSE
SYMMETRY Permuted
CHECK_DEADLOCK FALSE
INVARIANTS TypeOK OperationsAccounted NoUncountedVM CeilingUpToContested
