\* I/O errors of the snapshot only; kills between steps
CONSTANTS
  r1 = r1
  r2 = r2
  t1 = t1
  Robot = {r1, r2}
  Task = {t1}
  Blank = {}
  Nobody = nobody
  Direct = direct
  Registration <- MCRegistration
  Request <- MCRequest
  PersistMayFail = TRUE
  IoFaults = {}
  KillPoints = {"open"}
  MaxTokens = 1
  MaxPieces = 8
SPECIFICATION Spec
INVARIANTS GrantsAreExclusive
