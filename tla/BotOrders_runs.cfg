\* A dca and a shield, one run of the route at a time and the risk watch's.
SPECIFICATION OrdersFairSpec
CONSTANTS
  l1 = l1
  d1 = d1
  x1 = x1
  s1 = s1
  Orders = {d1, s1}
  Kind <- MCKindOf
  CronRuns = {cron}
  AlarmRuns = {alarm}
  cron = cron
  alarm = alarm
  TIMES = 2
  EVERY = 2
  LIFE = 1
  LEASE = 2
  MAX_REFUSALS = 2
  MAX_OPEN_ORDERS = 2
  DAILY_EXECUTES = 1
  DAY = 3
  MAX_TIME = 3
  MAX_CRASHES = 1
INVARIANTS  SentIsCounted DayBudgetHolds
PROPERTIES EveryClaimSettles
CHECK_DEADLOCK FALSE
