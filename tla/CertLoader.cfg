SPECIFICATION Spec
CONSTANTS
  Getter = {g1, g2}
  Host <- MCHost
  SubHost <- MCSubHost
  Cert <- MCCert
  Names <- MCNames
  Shortest <- MCShortest
  NotAfter <- MCNotAfter
  FirstDay = 20000
  LastDay = 20001
  None = None
SYMMETRY Symmetry
INVARIANTS
  AnswerCovers
  EscapesOnlyInWindow
PROPERTIES
  SweepTakesExpired
  GetsRunOut
