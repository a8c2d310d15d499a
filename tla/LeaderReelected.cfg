SPECIFICATION Spec
CONSTANTS
    v1 = v1
    v2 = v2
    v3 = v3
    v4 = v4
    NoValue = NoValue
    Values <- MC2Values
    Acceptors = {0, 1, 2}
    Iids = {1, 2, 3, 4, 5, 6, 7}
    Ballots = {2, 3, 4}
    Proposers = {0}
    MAX_N_OF_PROPOSERS = 2
    PROPOSER_ARRAY_SIZE = 4
    PROPOSER_PREEXEC_WIN_SIZE = 2
    PROPOSER_P2_CONCURRENCY = 1
    LEADER_MAX_QUEUE_LENGTH = 1
    MayExpire = {1}
    Announced = {0, 1}
    OtherValues <- MC2Others
INVARIANT
    OpensEmptySlots
    ReadyNeverUnderstated
    PendingAndOpenExact
    NeverInTwoPlaces
