SPECIFICATION Spec
CONSTANTS
  ByteBase = 2
  ReprLen = 3
  AppIDLen = 2
  LimbBase = 4
  LimbCount <- Limbs
  Goroutine = {g1, g2}
  Thread = {t1, t2}
  Artifact <- Artifacts
  None = None
SYMMETRY Symmetric
INVARIANTS
  TypeOK
  OwnResult
  InputsByValue
  AnchorsByValue
