\* Two writes, two snapshots and no crash.
SPECIFICATION Spec
CONSTANTS
    n1 = n1
    n2 = n2
    r1 = r1
    r2 = r2
    r3 = r3
    None = None
    Nodes = {n1, n2}
    Requests = {r1, r2}
    CommandOf <- Writes
    MaxPathLength = 6
    MaxFileSize = 6
    MaxLogEntry = 2
    MaxElections = 2
    MaxCrashes = 0
    MaxSnapshots = 2
    MaxFaults = 0
CHECK_DEADLOCK FALSE
INVARIANT DamagedNodesAgree
