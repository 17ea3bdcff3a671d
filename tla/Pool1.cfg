SPECIFICATION FairSpec
CONSTANTS
  MaxRequests = 2
  PoolSize = 1
  MaxThreads = 3
  MaxFaults = 2
  MaxConfig = 1
  Cancellable = {1, 2}
  Polled = {2}
  Reporting = {1}
  Punctual = TRUE
INVARIANTS
  TypeOK
  NoGhostWork
  CancelledOnRequest
  CancelReachesThread
  ProgressReachesOwner
PROPERTIES
  MissedOnlyWhileStarting
  EveryRequestSettles
  ThreadsReclaimed
  ImplementsJobService
