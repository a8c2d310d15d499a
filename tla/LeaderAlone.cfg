SPECIFICATION Spec
CONSTANTS
    v1 = v1
    v2 = v2
    v3 = v3
    v4 = v4
    NoValue = NoValue
    Values <- MC3Values
    Acceptors = {0, 1, 2}
    Iids = {1, 2, 3}
    Ballots = {1, 2, 3}
    Proposers = {0}
    MAX_N_OF_PROPOSERS = 1
    PROPOSER_ARRAY_SIZE = 4
    PROPOSER_PREEXEC_WIN_SIZE = 2
    PROPOSER_P2_CONCURRENCY = 1
    LEADER_MAX_QUEUE_LENGTH = 1
    MayExpire = {1, 2, 3}
    Announced = {}
    OtherValues = {}
SYMMETRY Value3Symmetry
INVARIANT
    LeaderTypeOK
    PendingAndOpenExact
    ReadyExact
    AssertionsHold
    OneValuePerInstance
    EachValueOnce
    ConcurrencyBounded
