\* Two taps on two instances, one key, a router that calls back.
SPECIFICATION TapsSpec
CONSTANTS
  Keys = {bot}
  bot = bot
  Targets = {router}
  router = router
  Router = router
  Grants <- MCGrants
  Values = {1}
  MAX_BALANCE = 1
  MAX_TOKENS = 2
  MAX_TIME = 2
  Bot = bot
  Taps = {t1, t2}
  t1 = t1
  t2 = t2
  Percent <- MCPercent
  Requests = {r1, r2}
  r1 = r1
  r2 = r2
  LIFE = 0
  LOCK = 1
INVARIANTS SentIsSpent ApprovalEndsWithSale TapsSellOneByOne
SYMMETRY MCSymmetry
CHECK_DEADLOCK FALSE
