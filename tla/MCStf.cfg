CONSTANTS
  NumValidators = 3
  Ids = {1}
  ZeroHash = ZeroHash
  Asserts = FALSE
  MaxSlot = 5
  MaxBlockAttestations = 2
  VoterSets = {{0}, {1}, {0, 2}, {3}}
  Attestations <- MCAttestations
SPECIFICATION Spec
INVARIANTS NoThrow CheckpointsOnChain PendingVotes
PROPERTY FinalityMonotone
CHECK_DEADLOCK FALSE
