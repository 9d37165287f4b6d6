SPECIFICATION FairSpec
CONSTANTS
    a = a
    b = b
    c = c
    d = d
    newest = newest
    Logs = {a, b, c, d}
    Tiny = {d}
    Redundant = {c}
    Queries = {newest}
    Pages <- MCPages
    PageLimit <- OnePage
    IdLists <- MCIdLists
    Direct = {a}
    WorkerCount = 2
    Para = 2
    VastAt = 2
    SortLimit = 3
    NoUI = FALSE
    Careful = TRUE
    Faults = {"status", "network", "empty"}
    MaxAsks = 3
    MaxPurges = 1
    MaxFaults = 1
INVARIANTS
    TypeOK
    NothingLost
    LoadedOnce
    ExtraColumnsAligned
    BoundedDownloads
PROPERTIES
    BarHidesLast
    
CHECK_DEADLOCK FALSE
