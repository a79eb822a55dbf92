\* Every combination of flags, failures and findings, and a signal at any step.
CONSTANTS
  NumTargets = 2
  Outcomes <- AllOutcomes
SPECIFICATION CliFairSpec
INVARIANTS
  ReportIsComplete
  ExitCodeTrue
PROPERTIES
  InterruptedExits130
  ProgramExits
