CONSTANTS
    n1 = n1
    n2 = n2
    n3 = n3
    None = None
    Node <- MCNode
    Known <- KnownMixed
    Prefer <- PreferSplit
    Bootstrap = n3
    Monitors = {n1, n2}
    Syncs <- SyncN1ToN2
    Threshold = 1
    MaxTerm = 2
    a = a
    b = b
    i = i
    j = j
    NoEntry = NoEntry
    Threads = {t1, t2}
    Names = {a, b}
    Nodes = {i, j}
    Requests <- FewRequests
    IOErrors = TRUE
    MaxTime = 1
    MaxOps = 3
    MaxCrash = 1
SPECIFICATION RegistrySpec
INVARIANTS ResultNeedsMajority DoubleVoteNeedsResult ReverseAgrees CleanMeansSaved
PROPERTIES LeaderYieldsToTerm OperationsReturn
CHECK_DEADLOCK FALSE
