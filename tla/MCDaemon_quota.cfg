CONSTANTS
    p1 = p1
    p2 = p2
    c1 = c1
    c2 = c2
    a1 = a1
    NoEntry = NoEntry
    Peers = {p1, p2}
    Ips = {a1}
    IpOf <- SameIp
    Conns = {c1, c2}
    Transports = {"udp", "tcp"}
    Kinds = {"syn", "cmd"}
    SYN_RATE_LIMIT = 2
    CMD_RATE_LIMIT = 2
    RATE_WINDOW = 2
    MAX_CONNECTIONS = 1
    TIMEOUT = 2
    MaxQueue = 1
    MaxTime = 3
    k1 = k1
    k2 = k2
    Clients = {k1, k2}
    Nobody = Nobody
    MaxChunks = 2
    N = 2
    PushLimit = 5
    PushWindow = 60
    IOErrors = TRUE
    Duplicable = {"push", "chunk", "ack"}
    MaxPushLoss = 3
    MaxDup = 1
    SeqSpace = 8
    WINDOW_SIZE = 3
    MAX_RETRIES = 1
    Lifetime = 4
    MaxStreamLoss = 1
    MaxSend = 12
SPECIFICATION LayersSpec
INVARIANTS QuotaHeld
CHECK_DEADLOCK FALSE
