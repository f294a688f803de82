\* 'next' hardware derivations, two at once, among local and imported keys,
\* and a key of another keychain.
CONSTANTS
  Devices = {nano}
  PrivateKeys = {k1}
  Names = {"cold"}
  HWCalls = {c1, c2}
  HWPaths <- NoPaths
  ForeignKeys <- ForeignLocalKey
  MaxKeys = 3
  MaxSwitches = 1
SPECIFICATION Spec
INVARIANTS LocalIndicesContiguous HWIndicesContiguous
PROPERTIES LocalDerivationAdds RestoreUpToExcludingTarget KeysAreAppendOnly
CHECK_DEADLOCK FALSE
