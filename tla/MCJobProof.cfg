SPECIFICATION FairSpec
CONSTANTS
  Runner = {r1}
  Job = {j1, j2}
  QueueCapacity = 1
  MaxEvents = 4
  MaxUUID = 3
  MaxRestarts = 1
CHECK_DEADLOCK FALSE
INVARIANTS CommittedIsOwn SuccessIsCommitted HelperHandsOwn
PROPERTIES CommittedIsImmutable EventsAreProcessed
