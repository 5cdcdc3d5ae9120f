\* no I/O error at all: only kills
CONSTANTS
  Event = {e1}
  Signer = k
  Trusted = {k}
  IoFaults = {}
  KillPoints = {"open", "write", "newline", "sync"}
  MaxPieces = 6
SPECIFICATION Spec
INVARIANTS LinesAreRecords
CHECK_DEADLOCK FALSE
