\* Two connections; a signal may come at any time.
SPECIFICATION FairServerSpec
CONSTANTS
    c1 = c1
    c2 = c2
    Conns = {c1, c2}
    MaxCalls = 2
INVARIANTS
    ServerTypeOK
    OnlyLiveParts
    ExitClean
    TypeOK
    NotClosedInUse
    CleanupComplete
    NothingLeftRunning
PROPERTIES
    SignalStops
    TcpServerAsSpecified
