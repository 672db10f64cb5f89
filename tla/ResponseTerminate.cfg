CONSTANTS
    Capacity = 2
    SocketSize = 3
    MaxCalls = 3
    MaxPut = 3
SPECIFICATION Spec
INVARIANT ProcessSurvives
