\* All combinations of up to four flags, of files of up to three lines, and of
\* grids of up to two hosts and three ports.
CONSTANTS
  MaxInt = 65536
  Malformed = {"?"}
  Configs <- AllConfigs
SPECIFICATION Spec
INVARIANTS
  NoDuplicates
  AnswerFollowsInput
  InOrderNamed
