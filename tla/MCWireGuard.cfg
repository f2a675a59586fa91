SPECIFICATION WgSpec
CONSTANTS
    BITS_PER_LONG = 2
    Words = 4
    U64_MAX = 21
    Contexts = {x1, x2}
    Messages = {"m1", "m2", "m3"}
    Softirqs = {x1, x2}
    HsCpus = {"h1"}
    RING_SIZE = 2
    TRYLOCK_ABOVE = 1
    LOAD_FROM = 1
    Stops = 1
    PlPeers = {"p1", "p2"}
    Keypairs <- OneKeypair
    Readers = {"r1"}
    Numbers = {0, 1}
    BUCKETS = 1
    MaxInserts = 2
    Senders = {x1, x2}
    EncryptCpus = {"c1"}
    MaxPackets = 2
    MaxKeys = 2
    MAX_STAGED_PACKETS = 1
    TX_QUEUE_SIZE = 2
    CRYPT_RING_SIZE = 1
    MESSAGE_LIMIT = 1
    SockSenders = {x1, x2}
    Places = {1, 2}
    SockPorts = {1}
    MaxSockets = 2
    MaxConfigs = 2
    MaxRoams = 1
    Parts = {"replay", "session", "limiter", "cookies", "queue", "lookup", "routes", "sending", "sockets", "interface"}
SYMMETRY Symmetry
INVARIANTS
    VerdictIsExact
    SessionKeysAgree
    LimiterRateBounded
    HandshakeLengthDrift
    LookupFindsExactly
    RoutesLongestPrefix
    SendingOrderAndReferences
    SocketEndpointsCurrent
    InterfaceConsistent
PROPERTIES
    SessionKeysMoveForward
    CookieProvesAddress
CHECK_DEADLOCK FALSE
