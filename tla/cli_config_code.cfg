CONSTANTS
  NumTargets = 2
  Outcomes <- AllOutcomes
SPECIFICATION CliSpec
INVARIANTS
  ConfigErrorExits4
