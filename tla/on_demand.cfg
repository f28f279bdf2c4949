SPECIFICATION Spec
CONSTANTS
    c1 = c1
    c2 = c2
    e1 = e1
    e2 = e2
    plain = plain
    eng = eng
    Channels = {c1, c2}
    Entries = {e1, e2}
    ChannelOf <- MCChannelOf
    StartOf <- MCStartOf
    Length <- MCLength
    BurnChoices = {plain, eng}
    NoBurn = plain
    Operated = {c1}
    MaxConcurrent = 1
    Grace = 0
    EvictIdle = 1
    StallTimeout = 0
    Trailing = 0
    Retention = 1
    Lag = 0
    RestartBudget = 1
    Cooldown = 1
    KillGate = 1
    HasDB = FALSE
    MaxOperations = 1
    MaxStarts = 2
    MaxSegments = 1
INVARIANTS
    TypeOK
    MapsAgree
    NoOrphan
    WithinCapacity
    ListedIsOnDisk
PROPERTIES
    ImplementsFeed
