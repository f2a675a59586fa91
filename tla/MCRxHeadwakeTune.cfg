SPECIFICATION Spec
CONSTANTS
    Peers = {A}
    Packets = {p1, p2}
    PeerOf <- OnePeer
    Producers = {s1}
    Workers = {w1, w2}
    Cpus = {c1, c2}
    NULL = NULL
    MAX_QUEUED_PACKETS = 2
    RingSize = 2
    Budget = 2
    Faults = {}
    KnobSettings <- Policies
    LiveTune = {"headwake"}
SYMMETRY Symmetry
INVARIANTS
    NoLostWake
CHECK_DEADLOCK FALSE
