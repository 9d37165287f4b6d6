SPECIFICATION FairSpec
CONSTANTS
    i1 = i1
    i2 = i2
    w1 = w1
    w2 = w2
    q1 = q1
    q2 = q2
    q3 = q3
    q4 = q4
    q5 = q5
    Imports = {i1}
    Unloadable = {}
    Empty = {}
    Workers = {w1}
    Requests = {q1, q2}
    Offers = {"create", "submit"}
    MayOverlap = FALSE
    NoImport = NoImport
    NoRequest = NoRequest
    NoStatus = NoStatus
    MaxAttempts = 2
    Killable = {w1}
    MaxCrashes = 1

PROPERTIES
    FinalizedIsDone
CHECK_DEADLOCK FALSE
