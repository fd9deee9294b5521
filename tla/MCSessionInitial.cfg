SPECIFICATION Spec
CONSTANTS
  Runner = {r1}
  MaxAssigned = 0
  MaxGeneration = 1
  ReconnectInitial = 1
  ReconnectMaximum = 3
  QueueCapacity = 1
CHECK_DEADLOCK FALSE
INVARIANT InitialFailureIsFatal
