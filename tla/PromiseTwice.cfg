SPECIFICATION Spec
CONSTANTS
    v1 = v1
    v2 = v2
    NoValue = NoValue
    Values <- MC2Values
    Acceptors = {0, 1, 2}
    Iids = {1}
    Ballots = {1}
    UpdateOnDeliver = FALSE
    Durable = TRUE
    Learners = {0}
    LEARNER_ARRAY_SIZE = 2
    Proposers = {0}
    MAX_N_OF_PROPOSERS = 1
    PROPOSER_ARRAY_SIZE = 4
    PROPOSER_PREEXEC_WIN_SIZE = 2
    PROPOSER_P2_CONCURRENCY = 1
    LEADER_MAX_QUEUE_LENGTH = 2
    MayExpire = {1}
    Announced = {}
    RestartsOf = {}
INVARIANT
    PromisedByQuorum
