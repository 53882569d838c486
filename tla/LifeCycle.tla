------------------------------ MODULE LifeCycle ------------------------------
(***************************************************************************)
(* mohqueue from mod_init to mod_destroy: what shared memory it takes,     *)
(* the first load of the queues, the run of the server with its queue list *)
(* (QueueUsers), the way out on an error and at the end.                   *)
(***************************************************************************)
EXTENDS QueueUsers

VARIABLES
    phase,      \* how far the module is
    shm         \* its other objects in shared memory

lifeVars == <<phase, shm>>
vars == <<qvars, lifeVars>>

(* The memory of the two locks is named like their counters.               *)
Objects == {"pmod_data", "pcall_lst", "pmohq_lock", "pcall_lock"}

Allocated(o) == shm' = [shm EXCEPT ![o] = "live"]
Freed(objs) ==
    [o \in Objects |->
        IF o \notin objs THEN shm[o]
        ELSE IF shm[o] = "live" THEN "freed" ELSE "twice"]

(* Where a process can be: in mod_init, in update_mohq_lst, in             *)
(* mohq_process, or in one of the loops over the calls.                    *)
StartPlaces == {"cfg", "db", "bind", "rpc", "pv", "queue_lock", "call_lock", "initerr"}
LoadPlaces == {"load", "rows"}
MessagePlaces == {"enter", "find", "create", "handle"}
ScanPlaces == {"named", "scan", "result"}
Places == {"idle"} \cup StartPlaces \cup LoadPlaces \cup MessagePlaces \cup ScanPlaces

TypeOK ==
    /\ rows \subseteq Row /\ edits \in 0..MaxEdits
    /\ loaded = None \/ loaded \subseteq Row
    /\ mem \in [Blocks -> Seq(Entry)]
    /\ pmohq_lst \in Blocks \cup {NULL} /\ mohq_cnt \in Nat
    /\ phase \in {"down", "failed"}
        \/ (pmohq_lst = NULL /\ mohq_cnt = 0)
        \/ (phase = "stopped")
        \/ mohq_cnt <= Len(mem[pmohq_lst])
    /\ calls \in [Slots -> Call]
    /\ pmohq_lock \in LockValues /\ pcall_lock \in LockValues
    /\ pc \in [Procs -> Places]
    /\ job \in [Procs -> Jobs]
    /\ phase \in {"down", "starting", "up", "failed", "stopped"}
    /\ shm \in [Objects -> {"none", "live", "freed", "twice"}]

(* Before the start there is a table, and no process does anything.        *)
Init ==
    /\ rows \in SUBSET Row /\ Sound(rows)
    /\ edits = 0
    /\ mem = [b \in Blocks |-> <<>>]
    /\ pmohq_lst = NULL /\ mohq_cnt = 0 /\ loaded = {}
    /\ calls = [s \in Slots |-> NewCall]
    /\ pmohq_lock = 0 /\ pcall_lock = 0
    /\ pc = [p \in Procs |-> "idle"]
    /\ job = [p \in Procs |-> IdleJob]
    /\ phase = "down"
    /\ shm = [o \in Objects |-> "none"]

-----------------------------------------------------------------------------
(* mod_init, in the first process.                                         *)
ModInit(p) ==
    /\ phase = "down"
    /\ \/ /\ phase' = "starting"
          /\ Allocated("pmod_data")
          /\ GotoWith(p, "cfg", [IdleJob EXCEPT !.op = "init"])
       \/ phase' = "failed" /\ UNCHANGED <<shm, pc, job>>
    /\ UNCHANGED <<table, list, calls, locks>>

(* One part of mod_init, which goes on or breaks off.                      *)
StartPart(p, label) ==
    /\ pc[p] = label
    /\ UNCHANGED <<phase, table, list, calls, locks>>

(* init_cfg: the parameters are checked and the call table is allocated.   *)
InitCfg(p) ==
    /\ StartPart(p, "cfg")
    /\ \/ Goto(p, "db") /\ Allocated("pcall_lst")
       \/ Goto(p, "initerr") /\ UNCHANGED shm

(* init_db: binding, capabilities, connection and the versions of the      *)
(* tables; then the calls' table is cleared and the queues are loaded.     *)
InitDb(p) ==
    /\ StartPart(p, "db")
    /\ Goto(p, "load") \/ Goto(p, "initerr")
    /\ UNCHANGED shm

(* The functions of other modules.                                         *)
Bind(p) ==
    /\ StartPart(p, "bind")
    /\ Goto(p, "rpc") \/ Goto(p, "initerr")
    /\ UNCHANGED shm

(* If the RPC commands cannot be registered, mod_init returns at once.     *)
RegisterRpc(p) ==
    /\ pc[p] = "rpc"
    /\ \/ Goto(p, "pv") /\ UNCHANGED phase
       \/ Return(p) /\ phase' = "failed"
    /\ UNCHANGED <<shm, table, list, calls, locks>>

FindPv(p) ==
    /\ StartPart(p, "pv")
    /\ Goto(p, "queue_lock") \/ Goto(p, "initerr")
    /\ UNCHANGED shm

(* mohq_lock_init, which may have no memory, or give it back.              *)
LockInitFails(p, o) ==
    /\ Goto(p, "initerr")
    /\ UNCHANGED shm \/ shm' = [shm EXCEPT ![o] = "freed"]

InitQueueLock(p) ==
    /\ StartPart(p, "queue_lock")
    /\ \/ Goto(p, "call_lock") /\ Allocated("pmohq_lock")
       \/ LockInitFails(p, "pmohq_lock")

InitCallLock(p) ==
    /\ pc[p] = "call_lock"
    /\ \/ Return(p) /\ Allocated("pcall_lock") /\ phase' = "up"
       \/ LockInitFails(p, "pcall_lock") /\ UNCHANGED phase
    /\ UNCHANGED <<table, list, calls, locks>>

(* A plausible slip: the list is left when start fails or ends.            *)
ListKept == UNCHANGED list

ListFreed ==
    /\ mem' = [b \in Blocks |-> IF b = pmohq_lst THEN <<>> ELSE mem[b]]
    /\ UNCHANGED <<pmohq_lst, mohq_cnt, loaded>>

(* initerr: the call table and the queue lock are forgotten.               *)
InitErr(p) ==
    /\ pc[p] = "initerr"
    /\ IF mohq_cnt > 0 THEN ListFreed ELSE UNCHANGED list
    /\ shm' = Freed({"pmod_data"}
                    \cup (IF shm["pcall_lock"] = "none" THEN {} ELSE {"pcall_lock"}))
    /\ phase' = "failed"
    /\ Return(p)
    /\ UNCHANGED <<table, calls, locks>>

(* mod_destroy, once the other processes are gone. After an error there is *)
(* something left to release only if RPC could not be registered.          *)
ModDestroy ==
    /\ phase \in {"up", "failed"} /\ shm["pmod_data"] = "live"
    /\ \A p \in Procs : pc[p] = "idle"
    /\ ListFreed
    /\ shm' = Freed({o \in Objects : shm[o] # "none"})
    /\ phase' = "stopped"
    /\ UNCHANGED <<table, calls, locks, pc, job>>

Start(p) ==
    \/ ModInit(p) \/ InitCfg(p) \/ InitDb(p) \/ Bind(p) \/ RegisterRpc(p) \/ FindPv(p)
    \/ InitQueueLock(p) \/ InitCallLock(p) \/ InitErr(p)

(* mod_child_init lets a process work once the module is up.               *)
Work(p) ==
    \/ phase = "up" /\ (UserStimulus(p) \/ UserStep(p) \/ LoadStep(p))
    \/ phase = "starting" /\ LoadStep(p)

Next ==
    \/ \E p \in Procs : Start(p) \/ (Work(p) /\ UNCHANGED lifeVars)
    \/ phase = "up" /\ EditTable /\ UNCHANGED lifeVars
    \/ ModDestroy

Spec == Init /\ [][Next]_vars

-----------------------------------------------------------------------------
(* mohq_db.c:414-624: between loads, the list has the URIs and the names   *)
(* of just the usable queues of the table as it was last read to its end,  *)
(* each once. The mohq_id of an entry that is kept is not read again.      *)
ListMatchesTable ==
    (loaded # None /\ phase \notin {"failed", "stopped"}
        /\ \A p \in Procs : pc[p] \notin {"load", "rows"})
    => /\ mohq_cnt = Cardinality(loaded)
       /\ {<<Queue(i).uri, Queue(i).name>> : i \in Indices} = {<<r.uri, r.name>> : r \in loaded}

(* mohq_process works with the index of its queue until it returns: while  *)
(* it holds the queue lock, the entry stays the queue of the message.      *)
HandlersKeepQueue ==
    \A p \in Procs : pc[p] \in {"create", "handle"} =>
        /\ job[p].idx \in Indices
        /\ Queue(job[p].idx).id = job[p].asked /\ Queue(job[p].idx).uri = job[p].uri

ScanDone(p, op) ==
    pc[p] = "scan" /\ job[p].slot = MaxCalls /\ job[p].op = op /\ ~job[p].bad

(* mohq_retrieve, whatever other handlers do meanwhile: the call it refers *)
(* was in the queue, and none that waited there all the time is older. The *)
(* list must not have moved under it, and call_time must have been set.    *)
RetrievesOldest ==
    \A p \in Procs : ScanDone(p, "retrieve") =>
        IF job[p].best = -1 THEN job[p].kept = {}
        ELSE /\ job[p].best \in job[p].seen
             /\ \A s \in job[p].kept : calls[job[p].best].call_time <= calls[s].call_time

(* What mohq_count is about to return counts each call that was in the     *)
(* queue all the time, and none that never was.                            *)
CountRight(p) == job[p].cnt \in Cardinality(job[p].kept)..Cardinality(job[p].seen)

(* It does if mohq_count got both locks; QueueClaims has what it returns   *)
(* if it was refused one. The list must not have moved under it.           *)
CountsQueued ==
    \A p \in Procs : ScanDone(p, "count") /\ ~job[p].refused => CountRight(p)

(* mod_destroy: everything that was allocated is released, once; and a     *)
(* start that fails leaves no queue list.                                  *)
Released ==
    /\ phase = "stopped" => \A o \in Objects : shm[o] \in {"none", "freed"}
    /\ phase \in {"failed", "stopped"} /\ shm["pmod_data"] # "live"
        => \A b \in Blocks : mem[b] = <<>>
=============================================================================
