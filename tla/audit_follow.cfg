\* every cut point, as an I/O error and as a kill; a follower that starts at
\* any time and reads at any time
CONSTANTS
  Event = {e1, e2}
  Signer = k
  Trusted = {k}
  IoFaults = {"open", "write", "newline", "sync"}
  KillPoints = {"open", "write", "newline", "sync"}
  MaxPieces = 6
  Lines = 1
SPECIFICATION FollowSpec
INVARIANTS FollowTypeOK VerifiedIsComplete PrintsEachOnce
PROPERTIES DamageIsPermanent FollowsOrEnds
CHECK_DEADLOCK FALSE
