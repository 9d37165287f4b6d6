SPECIFICATION FairSpec
CONSTANTS
    i1 = i1
    i2 = i2
    i3 = i3
    Imports = {i1, i2}
    Lines = {1, 2, 3}
    File <- MCFile
    Unloadable = {}
    Deletable = {}
    Workers = {w1}
    Requests = {q1}
    NoImport = NoImport
    MaxAttempts = 2
    MaxCrashes = 0
PROPERTIES
    JobsEnd
CHECK_DEADLOCK FALSE
