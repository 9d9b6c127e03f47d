\* A charge, a withdrawal and one sweep at a time, and up to three things
\* going wrong: every charge ends in the queue once, or void.
SPECIFICATION FairSpec
CONSTANTS
  Charges = {c1}
  Payouts = {w1}
  Sweepers = {sweep}
  c1 = c1
  w1 = w1
  sweep = sweep
  NoOne = NoOne
  Stale = Stale
  BATCH_LIMIT = 2
  Faults = {"crash", "refuse", "lapse", "unseen", "dropped", "revert", "release"}
  MaxFaults = 3
INVARIANTS UnpaidNotCharged
PROPERTIES LedgerSpec EveryChargeSettles
