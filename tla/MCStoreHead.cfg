CONSTANTS
  NumValidators = 1
  Ids = {1, 2}
  ZeroHash = ZeroHash
  Asserts = FALSE
  Genesis <- MCGenesis
  MaxSlot = 3
  MaxBlocks = 5
  MaxDowns = 0
  Parts = {"BlockStore"}
  Spaces <- MCSpaces
  Foreign = {"old"}
  Callers = {c1, c2}
  DbKeys = {k}
  DbValues = {v}
  Absent = Absent
  MapKeys = {1, 2, 3}
  Sizes = {1}
  NoThread = NoThread
SPECIFICATION MCSpec
INVARIANT HeadKnown
CHECK_DEADLOCK FALSE
