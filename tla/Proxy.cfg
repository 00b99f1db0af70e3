SPECIFICATION FairSpec
CONSTANTS
  Req = {r1, r2}
  Site <- MCSite
  Len <- MCLen
  MaxRetry <- MCMaxRetry
  Wrap = 6
INVARIANTS
  TypeOK
  Sweep
  AttemptsBounded
  FailedEverywhere
PROPERTIES
  RequestComesToEnd
