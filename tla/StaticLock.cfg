SPECIFICATION FairSpec
CONSTANTS
    Key = {a}
    Value <- McValue
    Node = {n1, n2}
    CacheSizes = {1}
    None = None
    NumSessions = 2
    NumLoops = 1
    Changing = {}
    MaxVersion = 1
PROPERTY
    LockIsReleased
CHECK_DEADLOCK FALSE
