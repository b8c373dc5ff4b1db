SPECIFICATION FairSpec
CONSTANTS
  client = client
  server = server
  End = {client, server}
  Peer <- MCPeer
  HdrLen = 2
  MacLen = 1
  MaxContent = 2
  WriteLens = {3}
  ReadLens = {1, 2}
  MaxRecords <- MCOneWay
  MayBlock = TRUE
  ShortHeader = FALSE
  HelloFrom = {}
INVARIANTS
  NeverRefused
  IInv
PROPERTIES
  ImplementsByteStream
  AckedArrives
CHECK_DEADLOCK FALSE
