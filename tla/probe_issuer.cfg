\* A peer that sends its leaf alone and one that sends the issuer with it.
CONSTANTS
  Cases <- IssuerCases
SPECIFICATION Spec
INVARIANTS
  IssuerFetched
