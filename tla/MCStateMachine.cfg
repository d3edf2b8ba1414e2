\* Everything at once: changes of leader, a crash, snapshots, a disk fault, and a command
\* that is too large for the log.
SPECIFICATION Spec
CONSTANTS
    n1 = n1
    n2 = n2
    r1 = r1
    r2 = r2
    r3 = r3
    None = None
    Nodes = {n1, n2}
    Requests = {r1, r2, r3}
    CommandOf <- Replayable
    MaxPathLength = 6
    MaxFileSize = 6
    MaxLogEntry = 2
    MaxElections = 2
    MaxCrashes = 1
    MaxSnapshots = 2
    MaxFaults = 1
CHECK_DEADLOCK FALSE
INVARIANTS TypeOK AckedIsCommitted RefusedNeverRuns NodesAgree ReadsShowPromised
SYMMETRY SymmetricNodes
