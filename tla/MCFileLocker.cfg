\* Three concurrent readers and the applier on two paths; renames between them.
CONSTANTS
    r1 = r1
    r2 = r2
    r3 = r3
    p = p
    q = q
    Readers = {r1, r2, r3}
    Applier = applier
    Keys = {p, q}
    Renames <- RenamesApart
SPECIFICATION FairSpec
INVARIANTS TypeOK TableMatchesGuards MutualExclusion NoLostWakeup SomebodyCanRelease
PROPERTIES ApplierServed CallsFinish
