CONSTANTS
  a = a
  b = b
  dhe = dhe
  rsa = rsa
  None = None
  Client = {a, b}
  DHE = {dhe}
  Config <- MCOneCertificate
  MaxEntries = 1
  Timeout = 1
SPECIFICATION Spec
INVARIANTS PeerIsRestored

CHECK_DEADLOCK FALSE
