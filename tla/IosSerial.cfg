SPECIFICATION FairSpec
CONSTANTS
    q1 = q1
    w1 = w1
    w2 = w2
    Requests = {q1}
    Writers = {w1, w2}
    MaxId = 4
    Clean = {1, 2, 4}
    Destroyable = {1}
    Killable <- Script
    MaxCrashes = 2
    CopyMayFail = FALSE
    OneDisk = TRUE
    Absent = Absent
INVARIANTS
    TypeOK
PROPERTIES
    DataStaysPublished
    MarkNeverFalls
    CatchUp
