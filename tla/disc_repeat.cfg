SPECIFICATION Spec
CONSTANTS
  pzp1 = pzp1
  pzp2 = pzp2
  printer = printer
  Peers = {pzp1, printer}
  Owner <- MCOwner
  Records <- MCRecords
  UpAtStart = {pzp1}
  LossyFrom = {pzp1, printer}
  BindFails = FALSE

PROPERTY
  LooksAgainAfterTimeout
CHECK_DEADLOCK FALSE
