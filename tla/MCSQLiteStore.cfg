SPECIFICATION FairSpec
CONSTANTS
  Challenge = {c1, c2}
  Nullifier = {n1, n2}
  ProofKey = {link_rs2048}
  Caller = {g1, g2}
  NoRow = NoRow
  NoCaller = NoCaller
  TTL = 0
  TicksPerSecond = 1
  MaxTime = 1
INVARIANTS
  TypeOK
  ConsumedIffRecorded
  OneVerificationPerChallenge
PROPERTIES
  OnlyCleanForgets
  ImplementsLedger
  CallsAreAtomic
  CallsReturn
