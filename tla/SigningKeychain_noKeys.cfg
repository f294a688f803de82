\* Switching to the index one past the last key.
CONSTANTS
  Devices = {}
  PrivateKeys = {k1, k2}
  Names = {"cold", "old"}
  HWCalls = {}
  HWPaths <- NoPaths
  ForeignKeys <- ForeignLocalKey
  MaxKeys = 2
  MaxSwitches = 1
SPECIFICATION Spec
INVARIANTS NoSigningKeysOnlyWhenEmpty
CHECK_DEADLOCK FALSE
