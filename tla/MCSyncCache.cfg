CONSTANTS
  Genesis <- MCGenesis
  Blocks <- MCBlocks
  Parent <- MCParent
  SlotOf <- MCSlotOf
  Finalizes <- MCFinalizes
  Own = {4}
  Bad = {6}
  Peers = {p}
  MaxErrors = 1
  MaxWaits = 1
SPECIFICATION Spec
INVARIANTS NoFatal NothingStranded MissingRequested
PROPERTY NewBlockAsks
CHECK_DEADLOCK FALSE
