\* Two calls.
SPECIFICATION FairSpec
CONSTANTS
    None = None
    MaxCalls = 2
    Requests <- SomeRequests
    MaxData = 2
    MaxMessage = 2
    LengthModulus = 4
INVARIANTS
    TypeOK
    ValuesMeanWhatTheySay
    FailuresExplained
PROPERTIES
    Service
    CallsReturn
    HandlersEnd
CHECK_DEADLOCK FALSE
