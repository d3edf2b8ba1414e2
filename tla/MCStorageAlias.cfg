\* One file, which commands and a reader name by two path strings.
CONSTANTS
    r1 = r1
    r2 = r2
    Readers = {r1, r2}
    Applier = applier
    Commands <- AliasCommands
    ReadPaths <- AliasPaths
    MaxPathLength = 8
    MaxFileSize = 2
    MaxCommands = 2
    MaxFaults = 0
SPECIFICATION Spec
INVARIANTS NoTornRead
