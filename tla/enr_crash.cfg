SPECIFICATION Spec
CONSTANTS
  pzp1 = pzp1
  pzp2 = pzp2
  printer = printer
  Peers = {pzp1, pzp2}
  Owner <- MCOwner
  Records <- MCRecordsAny
  UpAtStart = {pzp1}
  LossyFrom = {pzp1, pzp2}
  BindFails = TRUE
  MaxRuns = 2
  Crashes = TRUE
  HubFails = TRUE
  SplitReply = TRUE
INVARIANTS
  TypeOK
  RequestsOwnKey
  ReachesItsAddressee
  IInv
PROPERTY
  SavesOwnCertificate
CHECK_DEADLOCK FALSE
