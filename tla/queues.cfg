CONSTANTS
    Procs = {p1, p2}
    Uris = {u1, u2}
    Names = {n1, n2}
    None = None
    Ids = {id1, id2}
    MaxBlocks = 2
    MaxCalls = 2
    MaxTime = 2
    MaxEdits = 1
    MaxScans = 1
    QFaults = {"query", "mem"}
SPECIFICATION Spec
SYMMETRY Symmetry
INVARIANTS
    TypeOK
    ListMatchesTable
    HandlersKeepQueue
    RetrievesOldest
    CountsQueued
    Released
CHECK_DEADLOCK FALSE
