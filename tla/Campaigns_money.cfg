\* money.
SPECIFICATION FairSpec
CONSTANTS
  Campaigns = {c1, c2}
  Instances = {i1}
  Handlers = {h1, h2}
  Slices = {}
  Keys = {k1}
  c1 = c1
  c2 = c2
  i1 = i1
  i2 = i2
  h1 = h1
  h2 = h2
  s1 = s1
  s2 = s2
  k1 = k1
  NoOne = NoOne
  Opened = {}
  Refusing = {c2}
  Kinds = {"create", "confirm", "activate", "topUp", "withdraw", "sweep"}
  MAX_CALLS = 5
  DEPOSIT = 4
  DRAW = 2
  SEED = 1
  PRICE = 1
  PAYOUT = 2
  FAILURE_LIMIT = 2
  Faults = {"twin", "rpc", "reverts"}
  MaxFaults = 2
CHECK_DEADLOCK FALSE
 
PROPERTIES EveryDrawIsFunded
