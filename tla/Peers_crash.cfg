CONSTANTS
  p1 = p1
  p2 = p2
  Foreign = foreign
  Peers <- MCPeersSet
  AddrPackets <- MCAddrPackets
  MAX_FAILS = 2
  MIN_PACKETS = 1
  MaxTasks = 2
  MaxStops = 1
SPECIFICATION FairSpec
INVARIANTS TypeOK SingleCrawl InsertsFresh BannedDeserved TableCatchesUp
PROPERTY CheckedPeersCrawled
CHECK_DEADLOCK FALSE
