\* kills and I/O errors at every step, and inside an append
CONSTANTS
  r1 = r1
  r2 = r2
  t1 = t1
  Robot = {r1, r2}
  Task = {t1}
  Blank = {}
  Nobody = nobody
  Direct = direct
  Registration <- MCRegistration
  Request <- MCPlainRequest
  PersistMayFail = TRUE
  IoFaults = {"open", "newline", "sync"}
  KillPoints = {"open", "newline", "sync"}
  MaxTokens = 2
  MaxPieces = 5
SPECIFICATION Spec
INVARIANTS TokensAreExclusive SequencesAreUnique LogOrdersTokens
PROPERTIES RevokedGetsNoToken
CHECK_DEADLOCK FALSE
