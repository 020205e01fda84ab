CONSTANTS
  Bootnodes = {a, b, c}
  Aggregators = {a}
  Limits = {2, 3}
  InitBackoff = 1
  MaxBackoff = 3
  MaxAttempts = 2
  MaxLinks = 2
  Lengths = {1, 2, 4, 5, 6}
  BlockSize = 2
  MaxSize = 5
  EnrRecords <- MCEnrRecords
  ByteStrings <- MCByteStrings
SPECIFICATION MCSpec
INVARIANTS ListMatches StateIsReal ExchangeRight RecordsReadBack
PROPERTIES LimitKept PeersTried ExchangeEnds
CHECK_DEADLOCK FALSE
