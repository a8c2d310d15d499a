SPECIFICATION AcceptorAloneSpec
CONSTANTS
    v1 = v1
    v2 = v2
    NoValue = NoValue
    Values <- MCValues
    Acceptors = {0}
    Iids = {1, 2}
    Ballots = {1, 2}
    UpdateOnDeliver = TRUE
    Durable = TRUE
    MaxRequests = 2
SYMMETRY ValueSymmetry
INVARIANT
    AcceptorTypeOK
    RecordsCoherent
    RepeaterFindsValue
PROPERTY
    ValueOutlivesPromises
