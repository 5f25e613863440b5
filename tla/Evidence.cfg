SPECIFICATION Spec
CONSTANTS
    BasisPoints = 4
    MaxUint = 40
    MaxTime = 5
    TicksPerSecond = 2
    MaxAnchorAge = 2
    MaxResponses = 1
    Absent = Absent
    Episodes <- MCEpisodes
    Recording <- MCRecording
    Terms <- MCTerms
    Receipts <- MCReceipts
    Rates <- MCRates
INVARIANTS
    ExpiryIsTransitive
    NothingPredatesItsInputs
    ApprovalIsCallable
    IncludedWithinValidity
    SettlementKeepsPolicy
    PredictionIsConservative
CHECK_DEADLOCK FALSE
