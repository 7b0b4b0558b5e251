SPECIFICATION Spec
CONSTANTS
  c1 = c1
  c2 = c2
  n1 = n1
  n2 = n2
  root1 = root1
  root2 = root2
  moica2 = moica2
  moica3 = moica3
  impostor = impostor
  app = app
  otherApp = otherApp
  Challenge = {c1}
  Nullifier = {n1, n2}
  ProofKey = {"link_rs2048", "link_rs4096"}
  NoRow = NoRow
  TTL = 0
  TicksPerSecond = 1
  Request = {r1}
  Proof <- Mixed
  NoProof = NoProof
  Malformed = Malformed
  Root = {root1, root2}
  NoRoot = NoRoot
  Modulus = {moica2, moica3, impostor}
  PinnedModulus <- Pinned
  AppID = {app, otherApp}
  ExpectedAppID = app
  Enforced = {"smt_root", "issuer_modulus", "app_id"}
  DebugToken = TRUE
  InitialRoots <- AnyRoots
  MaxConcurrent = 1
  MaxTime = 0
INVARIANTS
  ReasonIsFirstFailure
PROPERTIES
  RecordsAreAdmissible
