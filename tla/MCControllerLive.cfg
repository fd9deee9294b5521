SPECIFICATION FairSpec
CONSTANTS
  HasJobs = TRUE
  Runner = {r1}
  Worker = {w1, w2}
  Slot = {s1, s2, s3}
  MinRunners = 1
  MaxRunners = 1
  Fallible = {}
  MaxAssigned = 0
  MaxGeneration = 0
  MaxRestarts = 0
  Stoppable = TRUE
CHECK_DEADLOCK FALSE
INVARIANT CleanStop
PROPERTIES EndedIsDeleted FloorRestored
