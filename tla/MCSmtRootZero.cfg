SPECIFICATION Spec
CONSTANTS
  MaxVersion = 2
  MaxFail = 1
INVARIANT LoadedRootsNonZero
