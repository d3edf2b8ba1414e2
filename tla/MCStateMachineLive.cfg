\* Two requests, one of which never returns; changes of leader, a crash and a disk fault.
SPECIFICATION FairSpec
CONSTANTS
    n1 = n1
    n2 = n2
    r1 = r1
    r2 = r2
    r3 = r3
    None = None
    Nodes = {n1, n2}
    Requests = {r1, r2}
    CommandOf <- Hanging
    MaxPathLength = 6
    MaxFileSize = 6
    MaxLogEntry = 2
    MaxElections = 2
    MaxCrashes = 1
    MaxSnapshots = 0
    MaxFaults = 1
CHECK_DEADLOCK FALSE
PROPERTY RequestsAnswered
