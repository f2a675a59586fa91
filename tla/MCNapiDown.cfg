SPECIFICATION FairSpec
CONSTANTS
    NdCpus = {1}
    WEIGHT = 1
    DEFER = 1
    TIMEOUT = TRUE
    CONFIG = TRUE
    PREFER = TRUE
    Edges = {TRUE}
    Modes = {"off", "busy"}
    SWITCH_DOWN = TRUE
    MaxArrivals = 1
    MaxBusy = 0
    MaxAdmin = 3
PROPERTIES
    AdminReturns
CHECK_DEADLOCK FALSE
