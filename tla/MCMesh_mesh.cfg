SPECIFICATION MeshSpec
CONSTANTS
    JsonDocs <- MCJsonDocs
    YamlTexts <- MCYamlTexts
    Absent = Absent
    KnownIds = {k1}
    DEFAULT_BOOTSTRAP_PORT = 9876
    MaxConfig = 3
    Bits = 3
    Peers <- MCPeers
    LocalId <- MCLocalId
    K_BUCKET_SIZE = 2
    NODE_TIMEOUT = 2
    Keys = {key1}
    ValueTTLs = {1}
    MaxDhtTime = 2
    Senders = {t1, t2, t3}
    Remotes = {r1}
    Direct <- MCDirect
    NextHop = hop
    NoRemote = NoRemote
    NoSender = NoSender
    max_size = 2
    UsizeMax = 99
    MaxSocks = 2
    MaxRelaySends = 3
    Punchers = {p1, p2}
    PunchPeers = {q1, q2}
    NoPunchPeer = NoPunchPeer
    PUNCH_RETRY_COUNT = 2
    MaxPackets = 2
    Initiators = {i1, i2}
    Responders = {b1}
    REPLAY_WINDOW = 0
    MaxHsTime = 2
    MaxSkew = 1
    MaxHsRestarts = 1
    SessionUsers = {s1}
    SessionPeers = {x1}
    session_timeout = 1
    NoKeys = NoKeys
    MaxSessionTime = 3
    MaxSends = 1
    MaxKeys = 2
    Names = {"n1"}
    Ids = {d1, d2}
    NoId = NoId
    EmptyName = ""
    Targets <- MCTargets
    Callers = {c1, c2}
    ADDRESS_TTL = 0
    MaxAddressTime = 1
    MaxEvents = 4
    LocalName = "me"
    NODE_ONLINE = 1
    NoNode = NoNode
    Loops = {l1, l2}
    MaxPings = 1
    RouteTargets = {a1, a2}
    Metrics = {1, 2}
    fragment_size = 1
    reorder_max_size = 2
    DegradedAfter = 0
    DeadAfter = 1
    DataLens = {1, 2}
    Latencies = {50}
    HopCounts = {1}
    MaxPaths = 2
    MaxSeq = 3
    TrafficUsers = {u1, u2}
    RATE_WINDOW = 1
    rate_per_sec = 1
    bucket_capacity = 2
    ByteCounts = {1, 2}
    CountMax = 9
    MaxTrafficTime = 2
    MaxTrafficCalls = 3
INVARIANTS
    PoolBalanced
    PunchesTracked
    InOrderOnce
    RateBounded
    RouteJustified
    NodesFiledOnce
PROPERTIES
    EstablishedFresh
    SessionKept
CHECK_DEADLOCK FALSE
