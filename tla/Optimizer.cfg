SPECIFICATION FairSpec
CONSTANTS
  Routes <- MCRoutes
  LimitSets <- MCLimits
  EffectiveMaximum <- MCEffectiveMaximum
  Profit <- MCProfit
  HasEdge <- MCHasEdge
  Bound <- MCBound
  MaxUint = 1023
  Pending = Pending
INVARIANTS NothingBetterIsLost ResultIsExact ResultIsAccepted SafeInputIsExact
           EnoughIntervalsSuffice
PROPERTIES SearchEnds
CHECK_DEADLOCK FALSE
