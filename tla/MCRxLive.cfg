SPECIFICATION FairSpec
CONSTANTS
    Peers = {A}
    Packets = {p1, p2}
    PeerOf <- OnePeer
    Producers = {s1, s2}
    Workers = {w1, w2}
    Cpus = {c1}
    NULL = NULL
    MAX_QUEUED_PACKETS = 2
    RingSize = 1
    Budget = 1
    Faults = {"undecryptable"}
    KnobSettings <- PoliciesAndSteal
    LiveTune = {}
PROPERTIES
    EveryPacketLeaves
CHECK_DEADLOCK FALSE
