SPECIFICATION Spec
CONSTANTS
  www = www
  base = base
  top = top
  any80 = any80
  p80 = p80
  p443 = p443
  Host <- MCHost
  Parent <- MCParent
  Name = {n1, n2}
  Upstream = {u1, u2, u3}
  None = None
  Addr <- MCAddr
  Overlap <- MCOverlap
  Inherited <- MCInherited
  Wanted <- MCWanted
INVARIANTS
  Indexed
  OwnSocket
  AdoptsInherited
  NoTwinLeft
  RedirectServed
