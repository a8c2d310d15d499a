SPECIFICATION LearnerAloneSpec
CONSTANTS
    v1 = v1
    v2 = v2
    l1 = l1
    NoValue = NoValue
    Values <- MCValues
    Learners = {l1}
    Acceptors = {0, 1, 2}
    Iids = {1, 2, 3}
    Ballots = {1, 2}
    LEARNER_ARRAY_SIZE = 2
    UpdatingAcceptors = {0}
SYMMETRY ValueSymmetry
INVARIANT
    LearnerTypeOK
    SlotsInWindow
    NoMissedQuorum
    ClosedOnEvidence
    NothingHeldBack
    HoleIsVisible
PROPERTY
    ClosedIsDelivered
