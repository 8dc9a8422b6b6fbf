SPECIFICATION ChainSpec
CONSTANTS
  Client = {c1, c2}
  MaxBlocks = 4
INVARIANTS
  AlwaysVerifies
  SerialCallsKeepBlocks
CHECK_DEADLOCK FALSE
