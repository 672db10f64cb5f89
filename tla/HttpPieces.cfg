CONSTANTS
    Scripts <- McScripts
    Split = TRUE
    Pipelined = FALSE
    HeadersTimeout = 5
    KeepAliveTimeout = 10
    SslAcceptTimeout = 5
    SslShutdownTimeout = 2
SPECIFICATION Spec
INVARIANT RequestAsSent
