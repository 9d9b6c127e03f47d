\* One sale, two instances that advance it, two swaps to try, and up to three
\* things going wrong.
SPECIFICATION FairSpec
CONSTANTS
  Transfers = {h1}
  Instances = {i1, i2}
  h1 = h1
  i1 = i1
  i2 = i2
  NoOne = NoOne
  Stale = Stale
  MAX_ATTEMPTS = 2
  Faults = {"fails", "lapse", "unseen", "dropped", "revert"}
  MaxFaults = 3
INVARIANTS RecordIsTrue
PROPERTIES SaleSpec EverySaleEnds
CHECK_DEADLOCK FALSE
