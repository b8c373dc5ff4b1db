SPECIFICATION Spec
CONSTANTS
  client = client
  server = server
  End = {client, server}
  Peer <- MCPeer
  HdrLen = 2
  MacLen = 1
  MaxContent = 2
  WriteLens = {2}
  ReadLens = {1}
  MaxRecords <- MCOneWay
  MayBlock = FALSE
  ShortHeader = FALSE
  HelloFrom = {server}
INVARIANT
  DeliveredInOrder
CHECK_DEADLOCK FALSE
