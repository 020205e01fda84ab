CONSTANTS
  NumValidators = 2
  Ids = {1, 2}
  ZeroHash = ZeroHash
  Asserts = FALSE
  Genesis <- MCGenesis
  OwnValidator = 1
  Aggregator = TRUE
  SubnetCount = 1
  MaxAttestationsData = 16
  BlockSlots = {2}
  VoteDelays = {0}
  Scopes <- MCScopes
SPECIFICATION Spec
INVARIANT VotesCarryProof
PROPERTIES HeadAfterMajority VotesFollowChain
CHECK_DEADLOCK FALSE
