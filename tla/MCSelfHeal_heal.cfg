CONSTANTS
    a = a
    b = b
    c = c
    NoState = NoState
    Peers = {a, b, c}
    Closer <- Distances
    Monitored = {a}
    PathTargets = {c}
    DhtTables <- Tables
    MAX_ROUTE_ENTRIES = 1
    K_CANDIDATES_MAX = 1
    offline_threshold = 2
    max_failed_attempts = 1
    MaxEvents = 2
SPECIFICATION FairSpec
INVARIANTS ViewsAgree DeadPathsGone
PROPERTIES DeadNoticed AliveNoticed
CHECK_DEADLOCK FALSE
