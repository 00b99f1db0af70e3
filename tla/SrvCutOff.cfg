SPECIFICATION Spec
CONSTANTS
  Conn = {k1}
  Workers = 1
INVARIANTS
  NobodyCutOff
