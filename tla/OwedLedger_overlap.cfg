\* Withdrawals and sweeps in each other's way, dying anywhere: what was paid
\* is still charged, and a refusal is still the truth.
SPECIFICATION Spec
CONSTANTS
  Charges = {c1}
  Payouts = {w1}
  Sweepers = {sweep}
  c1 = c1
  w1 = w1
  sweep = sweep
  NoOne = NoOne
  Stale = Stale
  BATCH_LIMIT = 2
  Faults = {"crash", "refuse", "lapse", "unseen", "dropped", "revert", "overlap", "slow", "orphan"}
  MaxFaults = 3
INVARIANTS PaidStaysCharged RefusedNotPaid
