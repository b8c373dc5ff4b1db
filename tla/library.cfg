\* The parts of the library that serve the handshake and the files, one at a time.
SPECIFICATION Spec
CONSTANTS
  RpKinds <- MCKinds
  RpTypes = {"data", "alert"}
  RpLengths = {0, 11, 12}
  RpStray = {0, 11, 15, 255}
  RpMaxSent = 4
  RpMaxFaults = 1
  RpExposed = 2
  RdSources <- MCSources
  RdMaxLoop = 2
  RdMaxInput = 256
  RdMaxRequest = 33
  RdMaxSeed = 384
  RdEntropyLen = 48
  RdInterval = 1
  RdRequests = {1, 33, 34}
  RdInputs = {0, 256, 336, 400}
  RdDigit = 2
  RdDigits = 3
  RdMaxCalls = 4
  DgAlgorithms = {"MD2", "MD4", "MD5", "SHA1", "SHA224", "SHA256", "SHA384", "SHA512"}
  DgWord = 256
  DgLengths <- MCLengths
  DgKeyLengths <- MCKeyLengths
  DgMaxCalls = 3
  DgMaxStarts = 2
  CiByte = 16
  CiWide = 4
  CiNarrow = 2
  CiGcmIv = 3
  CiTypes <- MCTypes
  CiPieces = {0, 1, 3, 5}
  CiMaxCalls = 3
  CiGcmLengths = {0, 3, 4, 5}
  VfGroups <- MCGroups
  VfNow = 5
  RsPrimes <- MCPrimes
  RsBits = {8, 9, 10}
  RsExponents = {3, 5, 7}
  RsMinBits = 8
  RsMaxBits = 16
  RsMaxExponentBits = 16
  PkLen = 96
  PkCryptLen = 7
  PkMinPad = 2
  PkTries = 2
  PkMessages <- MCMessages
  PkDraws <- MCDraws
  PkHash = 2
  PkMaskedLens <- MCMaskedLens
  PkSmall <- MCSmall
  PmInputs <- MCInputs
  PmLine = 3
  PmPasswords <- MCPasswords
  XpDocs <- MCDocs
  XpValues = {0, 129, 255}
  XkKeys <- MCKeys
  XkForms <- MCForms
  XkPasswords <- MCKeyPasswords
  XkSizes = {20, 60, 600}
  XkTmp = 140
  XkRequests <- MCRequests
  XkValues = {0, 255}
  XlFiles <- MCFiles
  XlFolders <- MCFolders
  XlMaxCalls = 3
  BnStart <- MCStart
  BnMaxOps = 2
  BnMaxBits = 20
  BnModulusBits = 15
  BnShifts = {9}
  BnWindow <- MCWindow
  BnRadices = {2, 10, 16}
  BnDigits <- MCDigits
  BnSmallPrimes <- MCSmallPrimes
  BnPrimeBits = {5, 9}
  BnRounds = 1
  BnDraws = {1, 17, 77}
INVARIANTS
  RecordsProtected
  SeedsAreFresh
  PrimitivesAreStandard
  ChainsAreJudged
  RsaHolds
  CertificatesAreRead
  KeysAreRead
  LimbsAreIntegers
CHECK_DEADLOCK FALSE
