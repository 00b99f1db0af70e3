SPECIFICATION FairSpec
CONSTANTS
  Conn = {k1, k2}
  Workers = 1
PROPERTIES
  DrainCompletes
