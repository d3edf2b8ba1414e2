\* Two commands beside two readers that never tire, with one disk fault.
CONSTANTS
    r1 = r1
    r2 = r2
    Readers = {r1, r2}
    Applier = applier
    Commands <- FileCommands
    ReadPaths <- FilePaths
    MaxPathLength = 8
    MaxFileSize = 2
    MaxCommands = 2
    MaxFaults = 1
SPECIFICATION FairSpec
INVARIANTS TypeOK WriterAlone Protected
PROPERTIES CallsAreAtomic CallsReturn
