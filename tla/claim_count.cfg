CONSTANTS
    Procs = {p1, p2}
    Ids = {id1}
    Uris = {u1}
    Names = {n1}
    None = None
    MaxBlocks = 2
    MaxCalls = 2
    MaxTime = 1
    MaxEdits = 0
    MaxScans = 1
    QFaults = {}
SPECIFICATION Spec
INVARIANT CountIsTrue
CHECK_DEADLOCK FALSE
