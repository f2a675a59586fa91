SPECIFICATION Spec
CONSTANTS
    Peers = {A, B}
    Packets = {p1, p2, p3, p4, p5}
    PeerOf <- TwoPeers
    Producers = {s1}
    Workers = {w1}
    Cpus = {c1}
    NULL = NULL
    MAX_QUEUED_PACKETS = 4
    RingSize = 3
    Budget = 2
    Faults = {}
    KnobSettings <- TriggerOrSteal
    LiveTune = {}
SYMMETRY SymmetryOfTheOthers
INVARIANTS
    OneCompletionOwed
    NoLostWake
CHECK_DEADLOCK FALSE
