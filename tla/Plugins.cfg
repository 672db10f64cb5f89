SPECIFICATION FairSpec
CONSTANTS
    BaseUrl <- McBaseUrl
    Registrations <- McRegistrations
    Paths <- McPaths
    Worker = {w1, w2}
    Idle = Idle
    Session = {s1, s2}
    None = None
    Rounds = 2
    MaxDevices = 1
    Name = {d}
INVARIANTS
    
    IndexInRange
    BufferNotShared
PROPERTIES
    
    DestructorReturns
CHECK_DEADLOCK FALSE
