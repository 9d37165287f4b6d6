SPECIFICATION Spec
CONSTANTS
    i1 = i1
    i2 = i2
    w1 = w1
    w2 = w2
    q1 = q1
    q2 = q2
    q3 = q3
    q4 = q4
    q5 = q5
    Imports = {i1}
    Unloadable = {}
    Empty = {}
    Workers = {w1}
    Requests = {q1, q2, q3, q4}
    Offers = {"create", "update", "submit", "approve", "reject", "send_email", "resolve", "fixdrive", "process_button", "destroy"}
    MayOverlap = TRUE
    NoImport = NoImport
    NoRequest = NoRequest
    NoStatus = NoStatus
    MaxAttempts = 2
    Killable = {w1, q1, q2, q3, q4}
    MaxCrashes = 1
SYMMETRY RequestSymmetry
INVARIANTS
    TypeOK
    PublishedOnlyApproved
PROPERTIES
    OnlyForward
CHECK_DEADLOCK FALSE
