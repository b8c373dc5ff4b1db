CONSTANTS
  a = a
  b = b
  dhe = dhe
  rsa = rsa
  None = None
  Client = {a, b}
  DHE = {dhe}
  Config <- MCConfig
  MaxEntries = 1
  Timeout = 1
SPECIFICATION FairSpec
INVARIANTS TypeOK Agreement NeverOutOfStep PeerIsVerified RejectedByBoth SessionsAreNegotiated
PROPERTIES HandshakeEnds CompatibleConnect
CHECK_DEADLOCK FALSE
