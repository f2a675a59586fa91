SPECIFICATION RmFairSpec
CONSTANTS
    Peers = {A}
    Packets = {p1, p2}
    PeerOf <- OnePeer
    Producers = {s1}
    Workers = {w1, w2}
    Cpus = {c1, c2}
    NULL = NULL
    MAX_QUEUED_PACKETS = 2
    RingSize = 1
    Budget = 2
    Faults = {}
    KnobSettings <- AnyWake
    LiveTune = {}
INVARIANTS
    NothingLeftWithoutTrigger
    NoUseAfterRelease
    TimerStaysCancelled
PROPERTIES
    RemovalEnds
CHECK_DEADLOCK FALSE
