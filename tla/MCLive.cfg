SPECIFICATION LiveSpec
CONSTANTS
    Skbs = {k1, k2, k3}
    Producers = {s1, s2}
    STUB = STUB
    NULL = NULL
    MAX_QUEUED_PACKETS = 2
    Parts = {"prev_queue", "session", "cookies", "queue", "sending", "pool", "flush", "cancel", "hash", "iopool", "napi", "backlog", "netdev"}
INVARIANTS
    TypeOK
    CountExact
    NullOnlyOnGap
PROPERTIES
    ImplementsFifo
    WireGuardProgress
    KernelProgress
CHECK_DEADLOCK FALSE
