SPECIFICATION StorageSpec
CONSTANTS
    chunk_size = 1
    NoHash = NoHash
    Targets = {t1, t2}
    Callers = {c1, c2}
    Contents <- MCContents
    MaxSyncCalls = 4
    Procs = {p1, p2}
    Files = {f1}
    Datas <- MCDatas
    History <- MCHistory
    keep = 1
    MaxCommands = 3
    Stores = {s1, s2, s3}
    Hashes = {1, 2}
    CONFLICT_WINDOW = 1
    MaxClock = 4
    MaxEdits = 2
PROPERTIES
    NewestWins
CHECK_DEADLOCK FALSE
