SPECIFICATION FairSpec
CONSTANTS
    a = a
    b = b
    c = c
    d = d
    newest = newest
    Logs = {a, b, c, d}
    Tiny = {}
    Redundant = {}
    Queries = {newest}
    Pages <- MCPages
    PageLimit <- ManyPages
    IdLists = {}
    Direct = {}
    WorkerCount = 2
    Para = 6
    VastAt = 2
    SortLimit = 9
    NoUI = FALSE
    Careful = TRUE
    Faults = {}
    MaxAsks = 1
    MaxPurges = 0
    MaxFaults = 0
INVARIANTS
    NothingLost
CHECK_DEADLOCK FALSE
