SPECIFICATION Spec
CONSTANTS
  Getter = {g1}
  Host <- MCHost
  SubHost <- MCSubHost
  Cert <- MCCert
  Names <- MCNames
  Shortest <- MCShortest
  NotAfter <- MCNotAfter
  FirstDay = 20000
  LastDay = 20000
  None = None
PROPERTIES
  PurgesOnlyExpiring
