SPECIFICATION FairSpec
CONSTANTS
  MaxSkip = 2
  MaxDepth = 5
  MinChunk = 8
  Granule = 4
  Configs <- MCConfigs
  Csrs <- MCCsrs
  Machines <- MCMachines
  Replies <- MCReplies
  Device <- MCDevice
  Programs = {p1, p2}
CHECK_DEADLOCK FALSE
INVARIANTS
  ParsedAsMeant
  WireIsMeant
  SavesTheCertificate
  TreeIsPrefix
  OneCreates
PROPERTIES
  NeverRepaired
  ParseEnds
