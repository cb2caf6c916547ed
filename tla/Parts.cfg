SPECIFICATION MCSpec
CONSTANTS
    bufSize = 4
    MaxBytes = 9
    Exclusive = TRUE
    Producers = {p1, p2}
    Consumers = {c1, c2}
    Messages = {m1, m2, m3}
    Null = Null
    d_limit = 2
    Reinsert = FALSE
    MaxInserted = 5
    d_itemsize = 2
    d_payload_size = 3
    BufPayloads = 2
    d_eof = TRUE
    MaxItems = 2
    MaxAccepted = 9
    MaxReconnects = 1
    Stale = 77
    Configs <- MCConfigs
    MaxCall = 6
    Delays = {0, 1, 3}
    MaxChanges = 2
    MaxSource = 12
    Getters = {"g1"}
    Lengths = {1, 3}
    Modulus = 5
    MaxCallItems = 4
    MaxSet = 2
    WakesAlone = FALSE
INVARIANTS
    RingKept
    AsReference
    GotRun
PROPERTIES
    FifoSpec
    QueueKept
    InsertProgress
    BytesPassedOn
    AllPutOut
    Served
CHECK_DEADLOCK FALSE
