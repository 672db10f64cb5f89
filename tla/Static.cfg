SPECIFICATION FairSpec
CONSTANTS
    Key = {a, b, c}
    Value <- McValue
    Node = {n1, n2, n3}
    CacheSizes = {2}
    None = None
    NumSessions = 2
    NumLoops = 2
    Changing = {a}
    MaxVersion = 2
INVARIANTS
    ListMatchesHash
    SizeBounded
    ServedNotStale
PROPERTIES
    RecencySpec
    LockIsReleased
    UnloadedOnceUnused
CHECK_DEADLOCK FALSE
