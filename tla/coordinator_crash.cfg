\* kills between any two steps, none inside an append; no I/O error
CONSTANTS
  r1 = r1
  r2 = r2
  t1 = t1
  Robot = {r1, r2}
  Task = {t1, blank}
  Blank = {blank}
  Nobody = nobody
  Direct = direct
  Registration <- MCRegistration
  Request <- MCRequest
  PersistMayFail = FALSE
  IoFaults = {}
  KillPoints = {"open", "sync"}
  MaxTokens = 2
  MaxPieces = 10
SPECIFICATION Spec
INVARIANTS TypeOK GrantsAreExclusive LogIsBacked LogStaysUsable
PROPERTIES IsAuthority
