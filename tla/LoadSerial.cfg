SPECIFICATION FairSpec
CONSTANTS
    i1 = i1
    i2 = i2
    i3 = i3
    Imports = {i1, i2, i3}
    Lines = {1, 2, 3}
    File <- MCFile
    Unloadable = {i3}
    Deletable = {i3}
    Workers = {w1}
    Requests = {}
    NoImport = NoImport
    MaxAttempts = 2
    MaxCrashes = 2
INVARIANTS
    TypeOK
    OwnLines
    NoLineLost
    RejectedOnlyIfUnloadable
    OnlyDestroyedImportsFail
    CountAgrees
PROPERTIES
    EventuallyProcessed
    AtomicLoads
CHECK_DEADLOCK FALSE
