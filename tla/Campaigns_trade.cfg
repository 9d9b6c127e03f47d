\* Polls, buys and controls of one funded campaign on two instances.
SPECIFICATION Spec
CONSTANTS
  Campaigns = {c1}
  Instances = {i1, i2}
  Handlers = {h1, h2}
  Slices = {s1, s2}
  Keys = {}
  c1 = c1
  c2 = c2
  i1 = i1
  i2 = i2
  h1 = h1
  h2 = h2
  s1 = s1
  s2 = s2
  k1 = k1
  NoOne = NoOne
  Opened = {c1}
  Refusing = {}
  Kinds = {"trade", "buy", "pause", "resume", "close"}
  MAX_CALLS = 3
  DEPOSIT = 6
  DRAW = 4
  SEED = 1
  PRICE = 1
  PAYOUT = 2
  FAILURE_LIMIT = 2
  Faults = {"exit", "reverts", "moved", "timeout", "crash", "unseen"}
  MaxFaults = 2
CHECK_DEADLOCK FALSE
SYMMETRY Symmetry
INVARIANTS SliceBoughtOnceIfSeen  
