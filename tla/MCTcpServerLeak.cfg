\* One connection.
SPECIFICATION Spec
CONSTANTS
    c1 = c1
    c2 = c2
    Conns = {c1}
    MaxCalls = 2
INVARIANT ClosedWhenDone
