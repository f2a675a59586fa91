SPECIFICATION RmSpec
CONSTANTS
    Peers = {A}
    Packets = {p1, p2}
    PeerOf <- OnePeer
    Producers = {s1, s2}
    Workers = {w1, w2}
    Cpus = {c1, c2}
    NULL = NULL
    MAX_QUEUED_PACKETS = 2
    RingSize = 1
    Budget = 3
    Faults = {}
    KnobSettings <- TriggerOnly
    LiveTune = {}
SYMMETRY Symmetry
INVARIANTS
    NoReferencesLeft
CHECK_DEADLOCK FALSE
