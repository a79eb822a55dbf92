\* Every verdict, a cancellation at any step, silent peers; flags and peers that
\* matter to each of the probes.
CONSTANTS
  Cases <- AllCases
SPECIFICATION FairSpec
INVARIANTS
  TypeOK
  MainSocketsClosed
  NoErrorMeansProbed
  SweepInOrder
  TrustIsVerified
  HandshakeAsAsked
  ExpiryWarned
  RevocationTrue
PROPERTIES
  CancelReturns
  HelperEnds
