SPECIFICATION Spec
CONSTANTS
    Peers = {A}
    Packets = {p1, p2, p3}
    PeerOf <- OnePeer
    Producers = {s1, s2}
    Workers = {w1, w2}
    Cpus = {c1, c2}
    NULL = NULL
    MAX_QUEUED_PACKETS = 2
    RingSize = 2
    Budget = 2
    Faults = {"no_keypair", "undecryptable", "refused"}
    KnobSettings <- Policies
    LiveTune = {"supp"}
SYMMETRY Symmetry
INVARIANTS
    TypeOK
    SingleConsumer
    OneCompletionOwed
    NoLostWake
    ParkedOnHead
CHECK_DEADLOCK FALSE
