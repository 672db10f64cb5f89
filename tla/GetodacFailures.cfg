CONSTANTS
    Session = {s1, s2}
    Fd = {f1, f2}
    Ip = {a}
    NumLoops = 1
    MaxConnectionsPerIp = 1
    CounterMod = 8
    WorkloadBalancing = FALSE
    FailPoints = {"new", "epoll_add"}
    WakeSessions = {}
    AddressReuse = FALSE
    Null = Null
SPECIFICATION Spec
SYMMETRY Symmetry
INVARIANTS
    FailureJustClosesSocket
