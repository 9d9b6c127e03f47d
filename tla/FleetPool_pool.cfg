\* One depositor and one fleet, two queued charges, both buy paths, claims and
\* a stray transfer: deposits, draws and exits in every order.
SPECIFICATION Spec
CONSTANTS
  Depositors = {alice}
  Campaigns = {fleet1}
  SpendIds = {s1, s2}
  alice = alice
  fleet1 = fleet1
  s1 = s1
  s2 = s2
  Sizes = {2}
  Amounts = {1, 2}
  DEPOSITOR_CAP = 3
  DRAW_CAP = 3
  POOL_CAP = 4
  GAS_HEADROOM = 1
  EXIT_DELAY = 2
  POST_WINDOW = 1
  MIN_FUNDING_DELAY = 1
  MAX_ACCOUNTS = 1
  MAX_DONATED = 1
  MAX_TIME = 3
  DueTimes = {1, 3}
SYMMETRY Symmetry
INVARIANTS OwedToDepositors DrawWithinAmount
PROPERTIES ExitOutlastsOldCharges LedgerSpec ClaimLeavesDepositsWhole
CHECK_DEADLOCK FALSE
