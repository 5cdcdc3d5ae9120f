CONSTANTS
  r1 = r1
  r2 = r2
  t1 = t1
  Robot = {r1, r2}
  Task = {t1}
  Nobody = nobody
  NoLimit = none
  Job <- MCJobs
  Ttl = 1
  MaxTokens = 2
  MaxNow = 2
  MaxFaults = 2
SPECIFICATION FairSpec
INVARIANTS TypeOK TasksRunOnOneRobot RunsInIssueOrder
PROPERTIES DeadEndsStay NumbersAreConsumed IsAuthority IsActuation
CHECK_DEADLOCK FALSE
