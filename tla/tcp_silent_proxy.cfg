CONSTANTS
  RetryCounts = {1}
  Routes = {"connect", "socks"}
SPECIFICATION FairSpec
PROPERTIES
  CancelReturns
