SPECIFICATION Spec
CONSTANTS
  N = 3
  BacklogLimit = 0
  InitialWorkers = 2
  MaxWorkers = 3
  WorkerIds = 3
  ReaskAfter = 0
  WriterMayFail = TRUE
INVARIANTS TypeOK BacklogMatchesRequests NoMasterPanic NoEarlyStop
PROPERTY ImplementsDelivery
