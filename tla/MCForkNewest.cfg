CONSTANTS
  NumValidators = 2
  Ids = {1, 2}
  ZeroHash = ZeroHash
  Asserts = FALSE
  Genesis <- MCGenesis
  OwnValidator = 1
  Aggregator = TRUE
  SubnetCount = 1
  MaxAttestationsData = 16
  BlockSlots = {2}
  VoteDelays = {0}
  Scopes <- OneScope
SPECIFICATION Spec
PROPERTY NewestVoteKept
CHECK_DEADLOCK FALSE
