\* kills between steps, no I/O error
CONSTANTS
  Self = "robot-1"
  Coordinator = "coordinator"
  NoLimit = none
  Tokens <- MCInOrder
  Contexts <- MCHere
  PersistMayFail = FALSE
  IoFaults = {}
  KillPoints = {"open", "sync"}
  MaxNow = 0
  MaxPieces = 6
SPECIFICATION Spec
INVARIANTS ExecutesOnce
