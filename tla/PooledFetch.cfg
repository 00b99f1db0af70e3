SPECIFICATION FairSpec
CONSTANTS
  Addr = {a1, a2}
  Req = {r1, r2, r3}
  Conn = {c1, c2}
  None = None
INVARIANTS
  ExclusiveOwner
  RightUpstream
PROPERTIES
  LeaseSpec
  DroppedTornDown
  EndedLeavesPool
