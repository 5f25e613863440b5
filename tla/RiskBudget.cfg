SPECIFICATION Spec
CONSTANTS
  Ids = {a, b, c}
  Costs = {0, 1, 2, 3}
  Notionals = {1, 2}
  Results <- MCResults
  Limits <- MCLimits
  MaxUint = 9
  None = None
  MaxOverrun = 3
  MaxProfit = 1
SYMMETRY Symmetry
INVARIANTS ExposureWithinDailyLimit SnapshotAgreesWithLedger
PROPERTIES LossLocksReservations
