\* One campaign and three keys, small and large, over a window and more.
SPECIFICATION Spec
CONSTANTS
  Campaigns = {red}
  Keys = {k1, k2, k3}
  red = red
  k1 = k1
  k2 = k2
  k3 = k3
  Amounts = {1, 2}
  LOCK_WINDOW = 1
  MAX_FUNDED = 4
  MAX_TIME = 4
SYMMETRY Symmetry
INVARIANTS CountersAreSums Solvent
PROPERTIES LockOutlastsClose BudgetSpec
CHECK_DEADLOCK FALSE
