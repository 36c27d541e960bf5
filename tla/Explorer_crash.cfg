CONSTANTS
  m1 = m1
  Blocks = {1, 2, 3, 4}
  Genesis = 1
  Parent <- MCParent
  Work <- MCWork
  Time <- MCTime
  Txs <- MCTxs
  Miners = {m1}
  Unknown = unknown
  Owner <- MCOwner
  Tables = {txs, block_txs}
  RECENT_WINDOW = 2
  PAGE = 2
  MaxBatch = 2
  MaxStops = 1
  MaxPending <- MCMaxPending
  MaxEvents = 1
  Unreadable <- MCUnreadable
SPECIFICATION Spec
SYMMETRY TableSymmetry
INVARIANTS TypeOK PagePanicsOnlyByRace FlaggedIsStored CountedOnce CountsMatchRecent PageCurrent
CHECK_DEADLOCK FALSE
