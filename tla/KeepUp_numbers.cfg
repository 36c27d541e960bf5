SPECIFICATION Spec
CONSTANTS
  Headers <- MCHeaders
  Genesis = 0
  Parent <- MCParent
  Number <- MCNumber
  TotalWork <- MCTotalWork
  WrongBits = {8}
  NoHash = NoHash
  Recent <- MCRecent
  Startups = {"synced"}
  MaxInFlight = 1
  U64 = 16
INVARIANT NumberToHashOnChain
CHECK_DEADLOCK FALSE
