SPECIFICATION Spec
CONSTANTS
  Headers <- MCHeaders
  Genesis = 0
  Parent <- MCParent
  Number <- MCNumber
  TotalWork <- MCTotalWork
  WrongBits = {8}
  NoHash = NoHash
  Recent <- MCRecent
  Startups = {"stale", "synced"}
  MaxInFlight = 1
  U64 = 16
INVARIANTS TypeOK FetchedClosed NothingForgotten DownloadedExact MostWorkExact
CHECK_DEADLOCK FALSE
