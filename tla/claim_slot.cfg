CONSTANTS
    Procs = {p1, p2}
    Dialogs = {d1}
    NoCall = NoCall
    MaxCalls = 1
    Ops = {"INVITE", "CANCEL"}
    Faults = {}
    MaxReaders = 3
    Overlap = TRUE
SPECIFICATION Spec
PROPERTIES
    FreeSlotStaysFree
