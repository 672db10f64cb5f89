CONSTANTS
    Scripts <- McScripts
    Split = TRUE
    Pipelined = TRUE
    HeadersTimeout = 5
    KeepAliveTimeout = 10
    SslAcceptTimeout = 5
    SslShutdownTimeout = 2
SPECIFICATION FairSpec
INVARIANTS
    NoResponseInsideAnother NoUnsolicitedResponse CloseIsFinal
    DeadlineWhileSuspended  TidyRequestAsSent
PROPERTY ConnectionEnds
