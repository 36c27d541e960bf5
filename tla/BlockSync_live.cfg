SPECIFICATION FairSpec
CONSTANTS
  N = 3
  BacklogLimit = 0
  InitialWorkers = 1
  MaxWorkers = 2
  WorkerIds = 2
  ReaskAfter = 1
  WriterMayFail = FALSE
PROPERTY SyncCompletes
