------------------------------- MODULE RWLock -------------------------------
(***************************************************************************)
(* What the users of a mohq_lock rely on: a readers/writer lock that knows *)
(* its holders. A holder can trade a shared lock for the exclusive one     *)
(* without letting anybody in between, and back.                           *)
(***************************************************************************)
CONSTANT Procs

VARIABLES readers, writers

vars == <<readers, writers>>

Init == readers = {} /\ writers = {}

AcquireShared(p) ==
    /\ writers = {}
    /\ p \notin readers
    /\ readers' = readers \cup {p}
    /\ UNCHANGED writers

AcquireExclusive(p) ==
    /\ readers = {} /\ writers = {}
    /\ writers' = {p}
    /\ UNCHANGED readers

Upgrade(p) ==
    /\ readers = {p} /\ writers = {}
    /\ readers' = {} /\ writers' = {p}

Downgrade(p) ==
    /\ writers = {p} /\ readers = {}
    /\ readers' = {p} /\ writers' = {}

Leave(p) ==
    /\ p \in readers \cup writers
    /\ readers' = readers \ {p}
    /\ writers' = writers \ {p}

Next ==
    \E p \in Procs :
        \/ AcquireShared(p) \/ AcquireExclusive(p)
        \/ Upgrade(p) \/ Downgrade(p) \/ Leave(p)

Spec == Init /\ [][Next]_vars
=============================================================================
