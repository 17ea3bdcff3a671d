SPECIFICATION Spec
CONSTANTS
  MaxRequests = 2
  PoolSize = 1
  MaxThreads = 4
  MaxFaults = 1
  MaxConfig = 0
  Cancellable = {1, 2}
  Polled = {}
  Reporting = {}
  Punctual = FALSE
INVARIANT
  NoGhostWork
