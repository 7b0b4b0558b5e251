SPECIFICATION FairSpec
CONSTANTS
  Process = {p1, p2}
  Key = {k1, k2}
INVARIANTS
  TypeOK
  ServesPinnedKeys
  SuccessMeansPresent
PROPERTIES
  InstalledIsPinned
  EnsureKeysReturns
