SPECIFICATION Spec
CONSTANTS
    BasisPoints = 10
    MaxUint = 1000
    MaxRecords = 3
    MaxAggregate = 1000
    Times = {0, 1}
    Absent = Absent
    Histories <- MCHistories
    Facts <- MCFacts
    ValuationPolicies <- MCPolicies
    Books <- MCBooks
    Windows <- MCWindows
    BucketBounds <- MCBounds
    PromotionPolicies <- MCPromotions
    MaxMade <- MCMade
INVARIANTS
    EveryAttemptIsCountedOnce
    OneYardstick
    BucketsReconcile
    GuardedMeanUnderstates
    PromotionIsEarned
    DecisionFollowsItsEvidence
CHECK_DEADLOCK FALSE
