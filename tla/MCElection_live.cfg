CONSTANTS
    n1 = n1
    n2 = n2
    n3 = n3
    None = None
    Node <- MCNode
    Known <- KnownOthers
    Prefer <- PreferSplit
    Bootstrap = n3
    Monitors = {n1, n2}
    Syncs <- SyncN1ToN2
    Threshold = 1
    MaxTerm = 1
SPECIFICATION FairSpec
PROPERTIES ElectionSettles LeaderBecomesKnown
