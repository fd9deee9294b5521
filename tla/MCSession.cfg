SPECIFICATION FairSpec
CONSTANTS
  Runner = {r1, r2}
  MaxAssigned = 0
  MaxGeneration = 2
  ReconnectInitial = 1
  ReconnectMaximum = 3
  QueueCapacity = 1
CHECK_DEADLOCK FALSE
INVARIANTS NoPhantomBusy NewestDemandWins SessionReleased
PROPERTIES BackoffUntilContact ImplementsFeed Reconnects StopsWhenCanceled
