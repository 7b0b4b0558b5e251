SPECIFICATION FairSpec
CONSTANTS
  MaxVersion = 2
  MaxFail = 1
INVARIANTS
  TypeOK
  ServingHasRoots
  InstalledRootsFresh
PROPERTIES
  RegressOnlyByFallback
  RefreshRecovers
  StopEndsLoop
