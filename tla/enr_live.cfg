SPECIFICATION FairSpec
CONSTANTS
  pzp1 = pzp1
  pzp2 = pzp2
  printer = printer
  Peers = {pzp1, printer}
  Owner <- MCOwner
  Records <- MCRecords
  UpAtStart = {pzp1, printer}
  LossyFrom = {}
  BindFails = FALSE
  MaxRuns = 2
  Crashes = FALSE
  HubFails = TRUE
  SplitReply = FALSE
PROPERTIES
  Enrols
  RunEnds
CHECK_DEADLOCK FALSE
