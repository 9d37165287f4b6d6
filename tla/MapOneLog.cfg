SPECIFICATION Spec
CONSTANTS
    p1 = p1
    p2 = p2
    p3 = p3
    p4 = p4
    p5 = p5
    p6 = p6
    Points = {p1, p2, p3, p4, p5, p6}
    Logs <- MCLogs
    X <- MCX
    Cpm <- MCCpm
    MinZoom <- MCMinZoom
    Views <- MCViews
    StreetView = 21
    Streets <- MCStreets
    TileOf <- MCTileOf
    CellOf <- MCCellOf
    SortLimit = 6
    MaxLoads = 2
    MaxMoves = 2
INVARIANTS
    TypeOK
    MarkersMatch
PROPERTIES
    FinishedDrawn
    DrawingEnds
CHECK_DEADLOCK FALSE
