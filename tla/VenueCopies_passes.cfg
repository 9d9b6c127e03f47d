\* Two passes that may overlap, one buy, two followers, one of whom taps as well.
SPECIFICATION CopyFairSpec
CONSTANTS
  f1 = f1
  f2 = f2
  Followers <- MCTwo
  Tappers = {f1}
  Passes = {p1, p2}
  p1 = p1
  p2 = p2
  BUYS = 1
  MIRROR_WEI = 1
  TOKEN_DAY_CAP = 1
  DAILY_EXECUTES = 1
  VENUE_BUYS_PER_DAY = 2
  VENUE_RETRY = 0
  MAX_LAG = 1
  MAX_CLOCK = 1
  MAX_TAPS = 2
  MAX_CRASHES = 1
INVARIANTS CopiedOnce TokenDayHolds UserDayHolds
PROPERTIES EveryKeptBuyEnds
CHECK_DEADLOCK FALSE
