SPECIFICATION FairSpec
CONSTANTS
  NotBefore <- ValidFrom
  NotAfter <- ValidUntil
  MaxTime = 3
  MaxFail = 1
INVARIANTS
  TypeOK
  CacheIsPinned
  UpdatedCoversCerts
PROPERTIES
  FetchReturns
  RefreshReplacesEmbedded
