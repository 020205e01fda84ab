CONSTANTS
  Genesis <- MCGenesis
  Blocks <- MCBlocks
  Parent <- MCParent
  SlotOf <- MCSlotOf
  Finalizes <- MCFinalizes
  Own = {4}
  Bad = {6}
  Peers = {p}
  MaxErrors = 0
  MaxWaits = 0
SPECIFICATION FairSpec
PROPERTY CacheDrains
CHECK_DEADLOCK FALSE
