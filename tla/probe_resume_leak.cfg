CONSTANTS
  Cases <- ScanCases
SPECIFICATION Spec
INVARIANTS
  AllSocketsClosed
