SPECIFICATION Spec
CONSTANTS
    v1 = v1
    NoValue = NoValue
    Values <- MC1Values
    Acceptors = {0}
    Iids = {1, 2}
    Ballots = {1}
    UpdateOnDeliver = TRUE
    Durable = TRUE
    this_acceptor_id = 0
    Modes = {0, 12, 13, 20}
    MAX_UDP_MSG_SIZE = 4
    MaxRequests = 2
INVARIANT
    DiskTypeOK
    AnsweredIsKept
    AnsweredOnce
    StoredWhereAsked
    DatagramFits
    SilentOnlyIfCutOff
