SPECIFICATION Spec
CONSTANTS
    Peers = {A}
    Packets = {p1, p2, p3, p4}
    PeerOf <- OnePeer
    Producers = {s1}
    Workers = {w1, w2}
    Cpus = {c1}
    NULL = NULL
    MAX_QUEUED_PACKETS = 4
    RingSize = 4
    Budget = 4
    Faults = {}
    KnobSettings <- TriggerOnly
    LiveTune = {}
SYMMETRY Symmetry
INVARIANTS
    NoLostWake
CHECK_DEADLOCK FALSE
