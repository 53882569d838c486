CONSTANTS
    Procs = {p1, p2}
    Dialogs = {d1}
    NoCall = NoCall
    MaxCalls = 2
    Ops = {"INVITE", "reINVITE", "ACK", "PRACK", "BYE", "CANCEL", "NOTIFY", "OPTIONS", "retrieve", "drop", "debug", "update"}
    Faults = {"db", "tm", "sl", "rtp", "mem", "leak", "resend", "early", "glare", "silence", "late"}
    MaxReaders = 3
    Overlap = FALSE
SPECIFICATION HandlerSpec
INVARIANTS
    OneSlotPerCall
PROPERTIES
    HandlersEnd
