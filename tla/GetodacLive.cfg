CONSTANTS
    Session = {s1}
    Fd = {f1}
    Ip = {a}
    NumLoops = 2
    MaxConnectionsPerIp = 1
    CounterMod = 8
    WorkloadBalancing = FALSE
    FailPoints = {}
    WakeSessions = {s1}
    AddressReuse = FALSE
    Null = Null
SPECIFICATION FairSpec
INVARIANTS
    
    
    LoopPointersLive
PROPERTIES
    IdleSessionReaped
    FinishedSessionReaped
    ShutdownCompletes
