CONSTANTS
    Procs = {p1}
    Dialogs = {d1}
    NoCall = NoCall
    MaxCalls = 1
    Ops = {"INVITE", "ACK", "CANCEL", "drop"}
    Faults = {"tm"}
    MaxReaders = 3
    Overlap = FALSE
SPECIFICATION Spec
INVARIANTS
    RowsHaveCalls
