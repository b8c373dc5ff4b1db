SPECIFICATION Spec
CONSTANTS
  client = client
  server = server
  End = {client, server}
  Peer <- MCPeer
  HdrLen = 2
  MacLen = 1
  MaxContent = 2
  WriteLens = {0, 1, 3}
  ReadLens = {1, 2}
  MaxRecords <- MCBothWays
  MayBlock = FALSE
  ShortHeader = TRUE
  HelloFrom = {}
INVARIANTS
  DeliveredInOrder
  EofMeansEnd
CHECK_DEADLOCK FALSE
