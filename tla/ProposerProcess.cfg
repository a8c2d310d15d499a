SPECIFICATION FairSpec
CONSTANTS
    NULL = NULL
    Wrappers <- MCWrappers
    LEADER_MAX_QUEUE_LENGTH = 1
    MaxPromotions = 2
INVARIANT
    ProcessTypeOK
    ReturnTellsOutcome
    OverlapOnlyOnPromotion
    ListCoherent
    ValueIsThere
PROPERTY
    WaiterReturns
CHECK_DEADLOCK FALSE
