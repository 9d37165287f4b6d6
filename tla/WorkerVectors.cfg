SPECIFICATION Spec
CONSTANTS
    MaxZoom = 4
    TileBits = 2
    NaN = NaN
    Lines <- MCLines
    Files <- MCFiles
    DeadTime <- MCDeadTime
    HighFor = 1
    VastAt = 7
    BitmapAt = 10
    Origin = {2}
    MaxPasses = 5
INVARIANTS
    TypeOK
    ShowsMaxima
    ShowsEveryLog
PROPERTIES
    SortGroupsTiles
CHECK_DEADLOCK FALSE
