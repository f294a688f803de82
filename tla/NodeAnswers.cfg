\* Two nodes, each asked for its network id, and a call of every method, with every fault.
CONSTANTS
  StatusCodes = {404}
  MaxFaults = 2
  MaxNodes = 2
  MaxCalls = 1
  HashBytes = 1
  IndexBytes = 1
  KeyBytes = 2
  NonceBytes = 2
  AmountBytes = 2
  Compressed <- Curve
  Transactions <- SomeTransactions
  Garbage = {0, 5, 255}
SPECIFICATION Spec
INVARIANTS TypeOK OnlyUnreducedKeysAreRewritten WrittenIsReadBack NeverAnOlderNode
PROPERTIES OneOutcomePerCall EveryCallSettles
CHECK_DEADLOCK FALSE
