SPECIFICATION Spec
CONSTANTS
  N = 3
  MAX_BLOCKS_PER_FLUSH = 2
  DiskMayFail = FALSE
INVARIANT AllFlushed
CHECK_DEADLOCK FALSE
