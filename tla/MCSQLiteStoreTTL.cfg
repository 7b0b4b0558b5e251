SPECIFICATION Spec
CONSTANTS
  Challenge = {c1}
  Nullifier = {n1}
  ProofKey = {link_rs2048}
  Caller = {g1}
  NoRow = NoRow
  NoCaller = NoCaller
  TTL = 3
  TicksPerSecond = 3
  MaxTime = 5
INVARIANT ExpiredOnlyAfterTTL
