\* Two targets around the finalized slot and three validators: enough for
\* overlapping proofs neither of which contains the other.
CONSTANTS
  TargetSlots = {1, 2}
  Data <- MCData
  Validators = {0, 1, 2}
  MaxFinalized = 2
SPECIFICATION Spec
INVARIANTS NoDoubleSigner NoContainedProof
PROPERTY LedgerSpec
