CONSTANTS
    Procs = {p1}
    Ids = {id1, id2}
    Uris = {u1, u2}
    Names = {n1, n2}
    None = None
    MaxBlocks = 2
    MaxCalls = 1
    MaxTime = 1
    MaxEdits = 1
    MaxScans = 1
    QFaults = {}
SPECIFICATION Spec
INVARIANT CallKeepsItsQueue
CHECK_DEADLOCK FALSE
