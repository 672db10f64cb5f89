CONSTANTS
    Session = {s1, s2}
    Fd = {f1, f2, f3}
    Ip = {a, b}
    NumLoops = 2
    MaxConnectionsPerIp = 0
    CounterMod = 8
    WorkloadBalancing = FALSE
    FailPoints = {"setsockopt"}
    WakeSessions = {}
    AddressReuse = FALSE
    Null = Null
SPECIFICATION Spec
SYMMETRY Symmetry
INVARIANTS
    TypeOK
    LoopPointersLive
    RegisteredSessionAlive
    PostponedHaveEnded
    PollingMatchesRegistry
    ConnectionsCounted
    
    NothingLeftToSweep
    SocketOwned
    
