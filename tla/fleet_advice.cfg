CONSTANTS
  r1 = r1
  r2 = r2
  t1 = t1
  Robot = {r1, r2}
  Task = {t1}
  Nobody = nobody
  NoLimit = none
  Job <- MCOneJob
  Ttl = 1
  MaxTokens = 2
  MaxNow = 2
  MaxFaults = 0
SPECIFICATION FairSpec
PROPERTIES FreshTokenWorks
CHECK_DEADLOCK FALSE
