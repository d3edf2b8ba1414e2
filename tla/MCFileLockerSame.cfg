\* The same instance, with RENAME commands whose two paths are the same string.
CONSTANTS
    r1 = r1
    r2 = r2
    r3 = r3
    p = p
    q = q
    Readers = {r1, r2}
    Applier = applier
    Keys = {p, q}
    Renames <- RenamesAll
SPECIFICATION FairSpec
PROPERTIES ApplierServed
