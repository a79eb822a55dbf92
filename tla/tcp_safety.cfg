\* Every route, up to two retries and a negative count, a context that may be
\* cancelled before the call; a proxy may also never answer.
CONSTANTS
  RetryCounts <- SomeRetries
  Routes <- AllRoutes
SPECIFICATION FairSpec
INVARIANTS
  TypeOK
  NoSocketLeak
  RetryBudget
  CancelStopsDialing
PROPERTIES
  DirectCancelReturns
  CallReturns
  ImplementsTcpCall
