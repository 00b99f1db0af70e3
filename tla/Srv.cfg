SPECIFICATION FairSpec
CONSTANTS
  Conn = {k1, k2, k3}
  Workers = 2
INVARIANTS
  DrainAfterAccept
PROPERTIES
  FirstStopHasCause
  StopSpec
  OneDownAllDown
  SignalEndsProcess
  ServedUntilClosed
  AmpleDrainCompletes
