\* One sponsor, two users with an operation or two, two calls at a time.
SPECIFICATION SponsorSpec
CONSTANTS
  Campaigns = {red}
  red = red
  u1 = u1
  n1 = n1
  n2 = n2
  n3 = n3
  h1 = h1
  h2 = h2
  Users = {u1}
  Nonces = {n1, n2, n3}
  Keys <- MCKeys
  Handlers = {h1, h2}
  Prefunds = {2}
  Costs = {1}
  Policies <- MCPolicies
  FEE_BPS = 5000
  VALIDITY = 0
  DAY = 1
  Faults = {"reverts", "postOp"}
  Amounts = {9}
  LOCK_WINDOW = 1
  MAX_FUNDED = 9
  MAX_TIME = 2
SYMMETRY Symmetry
INVARIANTS OverlapOvershootsByOneEach LandedChargeIsEscrows
PROPERTIES BudgetPaysWhatWasSigned
CHECK_DEADLOCK FALSE
