SPECIFICATION Spec
CONSTANTS
  pzp1 = pzp1
  pzp2 = pzp2
  printer = printer
  Peers = {pzp1, pzp2, printer}
  Owner <- MCOwner
  Records <- MCRecords
  UpAtStart = {printer}
  LossyFrom = {pzp2, printer}
  BindFails = FALSE
INVARIANTS
  ReturnsOnePeer
PROPERTIES
  RunningPeerIsFound
  AnswerEndsSearch
CHECK_DEADLOCK FALSE
