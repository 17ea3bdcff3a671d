SPECIFICATION Spec
CONSTANTS
  MaxRequests = 3
  PoolSize = 1
  MaxThreads = 5
  MaxFaults = 2
  MaxConfig = 0
  Cancellable = {}
  Polled = {}
  Reporting = {}
  Punctual = FALSE
INVARIANT
  SomeoneAnswers
