CONSTANTS
    Procs = {p1}
    Dialogs = {d1, d2}
    NoCall = NoCall
    MaxCalls = 1
    Ops = {"INVITE", "ACK", "CANCEL", "BYE", "reINVITE"}
    Faults = {"glare"}
    MaxReaders = 3
    Overlap = FALSE
SPECIFICATION Spec
PROPERTIES
    QueuedCallStays
