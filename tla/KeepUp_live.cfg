SPECIFICATION FairSpec
CONSTANTS
  Headers <- SmallHeaders
  Genesis = 0
  Parent <- SmallParent
  Number <- SmallNumber
  TotalWork <- SmallTotalWork
  WrongBits = {}
  NoHash = NoHash
  Recent <- SmallRecent
  Startups = {"stale", "synced"}
  MaxInFlight = 1
  U64 = 16
PROPERTY KeepsUp
CHECK_DEADLOCK FALSE
