\* More targets than workers and channel places together, so that every sender may
\* have to wait and the feeder may find nobody left to receive.  Probes are only known
\* to end once the context is cancelled.
CONSTANTS
  NumTargets = 4
  ConfigWorkers = 2
  MaxChannelBuffer = 1
  Outcomes = {pass, fail}
SPECIFICATION PromptCancelSpec
INVARIANTS
  TypeOK
  OrderPreserved
  AnswerComplete
  EachTargetOnce
  ReceivedExact
PROPERTIES
  ClosedMeansNoSend
  SlotsWrittenOnce
  BatchReturns
  NothingLeftRunning
  ImplementsBatch
