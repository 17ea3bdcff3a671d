SPECIFICATION Spec
CONSTANTS
  MaxRequests = 3
  PoolSize = 2
  MaxThreads = 4
  MaxFaults = 2
  MaxConfig = 0
  Cancellable = {2}
  Polled = {}
  Reporting = {}
  Punctual = TRUE
INVARIANTS
  RequestConserved
  NoLostWakeup
  NoLeakedThread
  CurrentInFlight
