SPECIFICATION Spec
CONSTANTS
  a1 = a1
  a2 = a2
  Req = {r1, r2}
  Site <- MCSite
  Len <- MCLen
  AddrList <- MCAddrList
  MaxRetry <- MCMaxRetry
  Wrap = 2
  Addr <- MCAddr
  Conn = {c1, c2}
  None = None
SYMMETRY Symmetry
INVARIANTS
  OneCopyPerAttempt
  SentWhereTried
  HeldForClient
PROPERTIES
  RequestsRunOut
  DeliverySpec
