SPECIFICATION KernelSpec
CONSTANT
    Parts = {"pool", "pools", "flush", "cancel", "active", "ordered", "pwqs", "hash", "iopool", "served", "napi", "backlog", "netdev", "followers"}
    NdCpus = {1}
    WEIGHT = 1
    DEFER = 1
    TIMEOUT = TRUE
    CONFIG = TRUE
    PREFER = TRUE
    Edges = {TRUE}
    Modes = {"off", "on", "busy"}
    SWITCH_DOWN = FALSE
    MaxArrivals = 1
    MaxBusy = 1
    MaxAdmin = 3
INVARIANTS
    PoolServesWork
    FlushWaitsInOrder
    CancelLeavesIdle
    ActiveNothingStranded
    PwqReferencesExact
    IoHashSerial
    IoPoolCounts
    NapiOnePollerNoneLost
    BacklogInOrder
    NetdevTablesAndViews
CHECK_DEADLOCK FALSE
