------------------------------ MODULE CallTable ------------------------------
(***************************************************************************)
(* The call table of mohqueue, which all Kamailio processes share, and the *)
(* operations every handler is built from: find_call, create_call,         *)
(* end_RTP, close_call, delete_call and update_call_rec.                   *)
(*                                                                         *)
(* A step is the code from one call of the outside world (lock, database,  *)
(* transaction module, RTP proxy) to the next; what a process reads of the *)
(* table it reads at the start of the step. pc names the point a process   *)
(* has reached, job what it is working on.                                 *)
(***************************************************************************)
EXTENDS Integers, FiniteSets, LockRecord

CONSTANTS
    Procs,      \* the server's processes
    Dialogs,    \* the calls of the environment, by Call-ID
    NoCall,     \* no Call-ID
    MaxCalls,   \* call_cnt, the slots of the table
    Ops,        \* the messages, script functions and RPC commands that occur
    Faults,     \* what may go wrong, see FaultNames
    MaxReaders, \* bound of the counters of locks that are never released
    Overlap     \* do handlers of several processes interleave?

Messages == {"INVITE", "reINVITE", "ACK", "PRACK", "BYE", "CANCEL", "NOTIFY", "OPTIONS"}
Scans == {"retrieve", "drop"}
Callbacks == {"invite_cb", "refer_cb", "bye_cb"}

(* Calls that fail: the database, the transaction module, the stateless    *)
(* reply, the RTP proxy, allocation or parsing, the one allocation of      *)
(* refer_call that leaks a lock. What the callers may do: send an INVITE   *)
(* again, a BYE before the answer ("early", which is also a drop_call      *)
(* then), a BYE that crosses ours, or nothing for 32 s after a REFER. When *)
(* things end: the transaction of an INVITE after the slot of its call was *)
(* given to the next one ("late").                                         *)
FaultNames ==
    {"db", "tm", "sl", "rtp", "mem", "leak", "resend", "early", "glare", "silence",
     "late"}

ASSUME TableAssumption ==
    /\ IsFiniteSet(Procs)
    /\ NoCall \notin Dialogs
    /\ MaxCalls \in Nat
    /\ MaxReaders \in Nat
    /\ Ops \subseteq Messages \cup Scans \cup {"debug", "update"}
    /\ Faults \subseteq FaultNames
    /\ Overlap \in BOOLEAN

Slots == 0..(MaxCalls - 1)

(* mohqueue_mod.h: the call states; 0 is a free slot.                      *)
CLSTA_ENTER == 100
CLSTA_TRYING == 101
CLSTA_PRACKSTRT == 102
CLSTA_PRACKRPLY == 103
CLSTA_INVITED == 104
CLSTA_CANCEL == 105
CLSTA_INQUEUE == 200
CLSTA_REFER == 301
CLSTA_RFRWAIT == 302
CLSTA_BYEOK == 304
CLSTA_BYE == 305

CallStates ==
    {0, CLSTA_ENTER, CLSTA_TRYING, CLSTA_PRACKSTRT, CLSTA_PRACKRPLY,
     CLSTA_INVITED, CLSTA_CANCEL, CLSTA_INQUEUE, CLSTA_REFER, CLSTA_RFRWAIT,
     CLSTA_BYEOK, CLSTA_BYE}

VARIABLES
    call_state,     \* per slot, as call_lst
    call_id,
    call_tran,      \* call_hash and call_label: whose INVITE transaction
    pcall_lock,     \* the counters of the two locks
    pmohq_lock,
    db,             \* call_status of the row of each Call-ID in mohqcalls
    rtp,            \* the session of each Call-ID at the RTP proxy
    tm,             \* transactions that still have a callback to make
    ua,             \* how far each caller has got
    pc, job         \* per process

table == <<call_state, call_id, call_tran>>
world == <<rtp, tm, ua>>
control == <<pc, job, pmohq_lock>>
vars == <<table, pcall_lock, pmohq_lock, db, world, pc, job>>

NoRow == -1

(* What a caller has seen of its own INVITE decides what it may send.      *)
UA_IDLE == 0
UA_CALLING == 1
UA_EARLY == 2       \* got 180 with Require: 100rel
UA_CONFIRMED == 3   \* got 200
UA_REFERRED == 4    \* got REFER

Transactions ==
    [kind : {"invite", "refer", "bye"}, slot : Slots, dlg : Dialogs \cup {NoCall}]

(* pc by what the process holds: pmohq_lock shared in a message handler.   *)
HandlerPcs ==
    {"enter", "update", "lookup", "create", "handle", "inv_tran", "inv_try",
     "inv_ring", "inv_prack", "inv_wait", "inv_cancel", "inv_answer",
     "inv_accept", "ack_queue", "prack_reply", "ntf_requeue"}
ScanPcs == {"scan", "pick", "refer", "refer_upd"}
CommonPcs == {"end", "close", "del", "free", "upd"}

Jobs ==
    [op : Messages \cup Scans \cup Callbacks \cup {"none"},
     dlg : Dialogs \cup {NoCall}, slot : 0..MaxCalls, best : -1..(MaxCalls - 1)]

IdleJob == [op |-> "none", dlg |-> NoCall, slot |-> 0, best |-> -1]

TypeOK ==
    /\ call_state \in [Slots -> CallStates]
    /\ call_id \in [Slots -> Dialogs \cup {NoCall}]
    /\ call_tran \in [Slots -> Dialogs \cup {NoCall}]
    /\ pcall_lock \in LockValues
    /\ pmohq_lock \in LockValues
    /\ db \in [Dialogs -> {NoRow, 0, 1, 2, 3}]
    /\ rtp \in [Dialogs -> {"none", "offered", "playing"}]
    /\ tm \subseteq Transactions
    /\ ua \in [Dialogs -> UA_IDLE..UA_REFERRED]
    /\ pc \in [Procs -> {"idle", "refer_send"} \cup HandlerPcs \cup ScanPcs \cup CommonPcs]
    /\ job \in [Procs -> Jobs]

(* mod_init: every slot is free and the status table was cleared.          *)
Init ==
    /\ call_state = [s \in Slots |-> 0]
    /\ call_id = [s \in Slots |-> NoCall]
    /\ call_tran = [s \in Slots |-> NoCall]
    /\ pcall_lock = 0
    /\ pmohq_lock = 0
    /\ db = [d \in Dialogs |-> NoRow]
    /\ rtp = [d \in Dialogs |-> "none"]
    /\ tm = {}
    /\ ua = [d \in Dialogs |-> UA_IDLE]
    /\ pc = [p \in Procs |-> "idle"]
    /\ job = [p \in Procs |-> IdleJob]

-----------------------------------------------------------------------------
(* Control. With Overlap FALSE a process runs only while every other one   *)
(* is idle or sleeping in the PRACK wait of send_prov_rsp.                 *)
CanRun(p) ==
    Overlap \/ \A q \in Procs \ {p} : pc[q] \in {"idle", "inv_wait"}

Goto(p, label) ==
    /\ pc' = [pc EXCEPT ![p] = label]
    /\ UNCHANGED <<job, pmohq_lock>>

GotoSlot(p, label, s) ==
    /\ pc' = [pc EXCEPT ![p] = label]
    /\ job' = [job EXCEPT ![p].slot = s]
    /\ UNCHANGED pmohq_lock

(* A plausible slip: a return of mohq_process that forgets the lock.       *)
FinishLocked(p) ==
    /\ pc' = [pc EXCEPT ![p] = "idle"]
    /\ job' = [job EXCEPT ![p] = IdleJob]
    /\ UNCHANGED pmohq_lock

(* The end of mohq_process, which releases pmohq_lock; of a callback or a  *)
(* script function, which do not hold it.                                  *)
Finish(p) ==
    /\ pc' = [pc EXCEPT ![p] = "idle"]
    /\ job' = [job EXCEPT ![p] = IdleJob]
    /\ pmohq_lock' = IF job[p].op \in Messages THEN AfterRelease(pmohq_lock)
                                               ELSE pmohq_lock

(* close_call or delete_call returns to its caller: the loops go on.       *)
Return(p) ==
    \/ job[p].op = "drop" /\ GotoSlot(p, "scan", job[p].slot + 1)
    \/ job[p].op = "retrieve" /\ Goto(p, "pick")
    \/ job[p].op \notin Scans /\ Finish(p)

SetState(s, state) == call_state' = [call_state EXCEPT ![s] = state]

-----------------------------------------------------------------------------
(* The rows of mohqcalls, by Call-ID. Without a connection nothing happens *)
(* and the caller is not told.                                             *)
RowInserted(d) == db' = [db EXCEPT ![d] = CLSTA_ENTER \div 100]

RowDeleted(id) == db' = [d \in Dialogs |-> IF d = id THEN NoRow ELSE db[d]]

(* A plausible slip: the state is stored instead of the status.            *)
RowUpdatedRaw(id, state) ==
    db' = [d \in Dialogs |-> IF d = id /\ db[d] # NoRow THEN state ELSE db[d]]

RowUpdated(id, state) ==
    db' = [d \in Dialogs |-> IF d = id /\ db[d] # NoRow THEN state \div 100 ELSE db[d]]

NoConnection == "db" \in Faults /\ UNCHANGED db

-----------------------------------------------------------------------------
(* find_call. A To tag never matches before first_invite_msg stored one.   *)
HasToTag(op) == op \notin {"INVITE", "CANCEL"}

(* A plausible slip: only calls that are already in queue are looked at.   *)
MatchingQueued(op, d) ==
    {s \in Slots : call_state[s] >= CLSTA_INQUEUE /\ call_id[s] = d}

Matching(op, d) ==
    {s \in Slots : /\ call_state[s] # 0
                   /\ call_id[s] = d
                   /\ HasToTag(op) => call_state[s] # CLSTA_ENTER}

OpenSlots == {s \in Slots : call_state[s] = 0}

(* The exclusive lock is not to be had within the tries allowed.           *)
LockRefused == ~SetGranted(pcall_lock, TRUE)

(* mohq_process parses the headers, takes pcall_lock and calls find_call:  *)
(* the first match; for an INVITE the last open slot, to be filled before  *)
(* the lock is released.                                                   *)
Lookup(p) ==
    /\ pc[p] = "lookup"
    /\ LET op == job[p].op
           found == Matching(op, job[p].dlg)
       IN \/ /\ \/ LockRefused \/ "mem" \in Faults
                \/ op = "INVITE" /\ (found # {} \/ OpenSlots = {})
                \/ op # "INVITE" /\ found = {}
             /\ Finish(p)
             /\ UNCHANGED pcall_lock
          \/ /\ ~LockRefused /\ op # "INVITE"
             /\ \E s \in found : (\A t \in found : s <= t) /\ GotoSlot(p, "handle", s)
             /\ UNCHANGED pcall_lock
          \/ /\ ~LockRefused /\ op = "INVITE" /\ found = {}
             /\ \E s \in OpenSlots :
                    (\A t \in OpenSlots : t <= s) /\ GotoSlot(p, "create", s)
             /\ pcall_lock' = AfterSet(pcall_lock, TRUE)
    /\ UNCHANGED <<table, db, world>>

(* create_call, which fails when the headers do not fit the buffer.        *)
CreateCall(p) ==
    /\ pc[p] = "create"
    /\ call_id' = [call_id EXCEPT ![job[p].slot] = job[p].dlg]
    /\ \/ /\ SetState(job[p].slot, CLSTA_ENTER)
          /\ RowInserted(job[p].dlg) \/ NoConnection
          /\ Goto(p, "handle")
       \/ /\ "mem" \in Faults
          /\ Finish(p)
          /\ UNCHANGED <<call_state, db>>
    /\ pcall_lock' = AfterRelease(pcall_lock)
    /\ UNCHANGED <<call_tran, world>>

-----------------------------------------------------------------------------
(* end_RTP destroys the session of the message's dialog, unless there is   *)
(* no message (FAKED_REPLY) or the call is still in CLSTA_ENTER.           *)
EndRTP(p) ==
    IF job[p].op \in Scans \/ call_state[job[p].slot] = CLSTA_ENTER
    THEN UNCHANGED rtp
    ELSE rtp' = [d \in Dialogs |-> IF d = job[p].dlg THEN "none" ELSE rtp[d]]

(* end_RTP followed by delete_call.                                        *)
EndThenDelete(p) ==
    /\ pc[p] = "end"
    /\ EndRTP(p)
    /\ Goto(p, "del")
    /\ UNCHANGED <<table, pcall_lock, db, tm, ua>>

(* close_call: without a dialog or memory the call is deleted at once.     *)
CloseCall(p) ==
    LET s == job[p].slot
    IN /\ pc[p] = "close"
       /\ EndRTP(p)
       /\ \/ "mem" \in Faults /\ Goto(p, "del") /\ UNCHANGED <<call_state, tm>>
          \/ /\ SetState(s, CLSTA_BYE)
             /\ tm' = tm \cup {[kind |-> "bye", slot |-> s, dlg |-> call_id[s]]}
             /\ Return(p)
          \/ /\ "tm" \in Faults
             /\ SetState(s, CLSTA_BYE)
             /\ Goto(p, "del")
             /\ UNCHANGED tm
       /\ UNCHANGED <<call_id, call_tran, pcall_lock, db, ua>>

(* A plausible slip: the row is deleted without the lock.                  *)
DeleteRowUnlocked(p) ==
    /\ pc[p] = "del"
    /\ call_tran' = [call_tran EXCEPT ![job[p].slot] = NoCall]
    /\ RowDeleted(call_id[job[p].slot])
    /\ Goto(p, "free")
    /\ UNCHANGED <<call_state, call_id, pcall_lock, world>>

(* delete_call up to the release of the lock. Refused the lock (always so  *)
(* inside the loops that hold it shared), it leaves the row.               *)
DeleteRow(p) ==
    /\ pc[p] = "del"
    /\ call_tran' = [call_tran EXCEPT ![job[p].slot] = NoCall]
    /\ \/ LockRefused /\ UNCHANGED db
       \/ ~LockRefused /\ (RowDeleted(call_id[job[p].slot]) \/ NoConnection)
    /\ Goto(p, "free")
    /\ UNCHANGED <<call_state, call_id, pcall_lock, world>>

(* The last line of delete_call, after the lock is released.               *)
FreeSlot(p) ==
    /\ pc[p] = "free"
    /\ SetState(job[p].slot, 0)
    /\ Return(p)
    /\ UNCHANGED <<call_id, call_tran, pcall_lock, db, world>>

(* update_call_rec, with the state the call has by then.                   *)
UpdateRow(p) ==
    LET s == job[p].slot
    IN /\ pc[p] = "upd"
       /\ RowUpdated(call_id[s], call_state[s]) \/ NoConnection
       /\ Finish(p)
       /\ UNCHANGED <<table, pcall_lock, world>>
=============================================================================
