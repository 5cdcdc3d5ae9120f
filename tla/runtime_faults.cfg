\* kills and I/O errors at every step; an append is cut before its newline,
\* which leaves a log that still verifies and that the next record damages
CONSTANTS
  Self = "robot-1"
  Coordinator = "coordinator"
  NoLimit = none
  Tokens <- MCMixed
  Contexts <- MCHere
  PersistMayFail = TRUE
  IoFaults = {"write", "sync"}
  KillPoints = {"open", "newline", "sync"}
  MaxNow = 1
  MaxPieces = 5
SPECIFICATION Spec
INVARIANTS TypeOK NoReleaseSkipsANumber ReleasesAreEvidenced
PROPERTIES SettledIsFinal StopHolds IsActuation
CHECK_DEADLOCK FALSE
