CONSTANTS
  NumTargets = 3
  ConfigWorkers = 2
  MaxChannelBuffer = 3
  Outcomes = {pass}
SPECIFICATION Spec
INVARIANTS
  TrimKeepsReceived
