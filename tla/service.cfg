CONSTANTS
    Procs = {p1, p2}
    Dialogs = {d1, d2}
    NoCall = NoCall
    MaxCalls = 2
    Ops = {"INVITE", "reINVITE", "ACK", "PRACK", "BYE", "CANCEL", "NOTIFY", "OPTIONS", "retrieve", "drop", "update"}
    Faults = {"silence"}
    MaxReaders = 3
    Overlap = FALSE
SPECIFICATION Spec
SYMMETRY Symmetry
INVARIANTS
    MusicWhileQueued
    StatusTableRight
PROPERTIES
    ImplementsQueueService
