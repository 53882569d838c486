CONSTANTS
    Procs = {p1, p2}
    Dialogs = {d1}
    NoCall = NoCall
    MaxCalls = 1
    Ops = {"INVITE", "ACK", "BYE", "retrieve", "drop"}
    Faults = {}
    MaxReaders = 3
    Overlap = TRUE
SPECIFICATION FairSpec
INVARIANTS
    TypeOK
    LocksBalanced
PROPERTIES
    TableStableDuringScan
    EnteringEnds
    ReferEnds
    ByeEnds
