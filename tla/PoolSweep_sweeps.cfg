\* Two charges, one of them sealed to a key that is gone, an instance for the
\* sweeps and one for traders, and one thing going wrong.
SPECIFICATION SweepFairSpec
CONSTANTS
  Depositors = {alice}
  Campaigns = {fleet1}
  SpendIds = {1, 2}
  alice = alice
  fleet1 = fleet1
  Sizes = {2}
  Amounts = {1}
  DEPOSITOR_CAP = 2
  DRAW_CAP = 1
  POOL_CAP = 3
  GAS_HEADROOM = 1
  EXIT_DELAY = 5
  POST_WINDOW = 3
  MIN_FUNDING_DELAY = 0
  MAX_ACCOUNTS = 1
  MAX_DONATED = 0
  MAX_TIME = 7
  DueTimes = {1}
  Sweepers = {i1}
  Readers = {i2}
  i1 = i1
  i2 = i2
  Unreadable = {1}
  Delays = {1}
  CHARGE = 1
  EVERY = 2
  LIFE = 1
  MARGIN = 1
  LAG = 1
  Faults = {"refused", "dies", "behind", "cache"}
  MaxFaults = 1
  LAST_BATCH = 2
CHECK_DEADLOCK FALSE
INVARIANTS PostedInTime MarkIsTrue NotPulledAgain
PROPERTIES EveryLossPauses
