SPECIFICATION Spec
CONSTANTS
  Challenge = {c1, c2}
  Nullifier = {n1, n2}
  ProofKey = {"link_rs2048"}
  NoRow = NoRow
  TTL = 1
  TicksPerSecond = 2
  Session = {s1, s2}
  None = None
  MaxTime = 1
SYMMETRY Symmetric
VIEW AllButReply
INVARIANTS
  TypeOK
PROPERTIES
  AnswersAreTrue
  FinalIsFinal
  ExpiredAfterPromise
