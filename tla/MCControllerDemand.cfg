SPECIFICATION Spec
CONSTANTS
  HasJobs = TRUE
  Runner = {r1}
  Worker = {w1, w2}
  Slot = {s1, s2, s3}
  MinRunners = 0
  MaxRunners = 1
  Fallible = {"list", "create", "fence", "delete"}
  MaxAssigned = 1
  MaxGeneration = 2
  MaxRestarts = 1
  Stoppable = FALSE
SYMMETRY Permuted
CHECK_DEADLOCK FALSE
INVARIANTS ScaleDownAuthority FencedUnregistered
