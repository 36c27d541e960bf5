SPECIFICATION FairSpec
CONSTANTS
  N = 6
  MAX_BLOCKS_PER_FLUSH = 3
  DiskMayFail = TRUE
INVARIANTS TypeOK DependenciesFound BuffersIntact BatchStartsEmpty MarkedInOrder AllFlushed
PROPERTY WriterEnds
CHECK_DEADLOCK FALSE
