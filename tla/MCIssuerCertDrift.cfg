SPECIFICATION Spec
CONSTANTS
  NotBefore <- ValidFrom
  NotAfter <- ValidUntil
  MaxTime = 2
  MaxFail = 1
INVARIANT DriftIsCounted
