\* Explicit hardware paths, two devices, two derivations at once.
CONSTANTS
  Devices = {nanoA, nanoB}
  PrivateKeys = {}
  Names = {}
  HWCalls = {c1, c2}
  HWPaths <- ExplicitPaths
  ForeignKeys <- NoForeignKeys
  MaxKeys = 2
  MaxSwitches = 2
SPECIFICATION Spec
INVARIANTS TypeOK UniqueKeys ActiveKeyIsListed
CHECK_DEADLOCK FALSE
