SPECIFICATION Spec
CONSTANTS
  MaxRequests = 1
  PoolSize = 1
  MaxThreads = 1
  MaxFaults = 0
  MaxConfig = 1
  Cancellable = {1}
  Polled = {}
  Reporting = {}
  Punctual = TRUE
INVARIANT
  FreshConfig
