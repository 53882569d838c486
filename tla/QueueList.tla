------------------------------ MODULE QueueList ------------------------------
(***************************************************************************)
(* The list of queues of mohqueue in shared memory, how it follows the     *)
(* table mohqueues (update_mohq_lst), and what points into it: the pmohq   *)
(* of every call, the index a message handler works with, the index that   *)
(* find_qname returns.                                                     *)
(*                                                                         *)
(* CallTable and its handlers look at the calls of one queue; here the     *)
(* calls are only as far there as the list and the counting of calls need  *)
(* them. A step is, as there, the code from one outside call to the next.  *)
(***************************************************************************)
EXTENDS Integers, FiniteSets, Sequences, LockRecord

CONSTANTS
    Procs,      \* the server's processes
    Ids,        \* ids of rows of the table
    Uris,       \* URIs of queues
    Names,      \* names of queues
    None,       \* no id, no URI
    MaxBlocks,  \* blocks of shared memory for lists that can be had
    MaxCalls,   \* call_cnt
    MaxTime,    \* seconds at which calls come
    MaxEdits,   \* changes of the table
    MaxScans,   \* scans of the calls at a time
    QFaults     \* what may go wrong, see QFaultNames

(* The query fails; there is no shared memory; no usable queue is left in  *)
(* the table.                                                              *)
QFaultNames == {"query", "mem", "empty"}

ASSUME ListAssumption ==
    /\ IsFiniteSet(Procs)
    /\ None \notin Ids \cup Uris
    /\ MaxBlocks \in Nat /\ MaxCalls \in Nat
    /\ MaxTime \in Nat /\ MaxEdits \in Nat /\ MaxScans \in Nat
    /\ QFaults \subseteq QFaultNames

Slots == 0..(MaxCalls - 1)
Blocks == 1..MaxBlocks
NULL == 0

VARIABLES
    rows,       \* the usable rows of the table mohqueues
    mem,        \* the blocks of memory for lists; a free block is empty
    pmohq_lst,  \* the block in use, or NULL
    mohq_cnt,   \* how many entries of it count
    calls,      \* call_lst
    pmohq_lock, pcall_lock,
    pc, job,    \* per process
    edits,      \* changes of the table so far
    loaded      \* history: the rows the list was last loaded from

table == <<rows, edits>>
list == <<mem, pmohq_lst, mohq_cnt, loaded>>
locks == <<pmohq_lock, pcall_lock>>
qvars == <<table, list, calls, locks, pc, job>>

(* A row of mohqueues. One whose URI, directory or audio files are no good *)
(* is passed over as if it were not there. The debug column, which only    *)
(* controls logging, is left out; the other columns are taken over like    *)
(* the name.                                                               *)
Row == [id : Ids, uri : Uris, name : Names]

(* mohq_lst                                                                *)
Entry == [id : Ids, uri : Uris, name : Names]

(* The entries in use, 1 to mohq_cnt for the indices from 0 of the code.   *)
Indices == 1..mohq_cnt
Queue(i) == mem[pmohq_lst][i]

(* A call; busy is every state but CLSTA_INQUEUE; pmohq is block and idx.  *)
(* joined is history: the id of the queue the call entered.                *)
Call ==
    [state : {"free", "busy", "queued"}, block : Blocks \cup {NULL}, idx : Nat,
     call_time : 0..MaxTime, joined : Ids \cup {None}]

NewCall == [state |-> "free", block |-> NULL, idx |-> 0, call_time |-> 0, joined |-> None]

(* What a process works on: the URI of a message, the index it found and   *)
(* the id it read there; the block drop_call points into; the slot, the    *)
(* oldest call and the number of calls of a scan; the rows of the query    *)
(* still to come and the entries with MOHQF_CHK, which means nothing but   *)
(* in a load. History are asked, the id of the queue that was asked for,   *)
(* kept and seen, the calls of that queue in queue all through the scan    *)
(* and at some time of it, bad, that something was read through a stale    *)
(* pointer, and refused, that mohq_count was refused a lock and went on.   *)
Scans == {"retrieve", "drop", "count"}
Ops == {"message", "invite", "init"} \cup Scans

Jobs ==
    [op : Ops \cup {"none"}, uri : Uris \cup {None},
     idx : Nat, block : Blocks \cup {NULL}, id : Ids \cup {None},
     slot : 0..MaxCalls, best : {-1} \cup Slots, cnt : 0..MaxCalls,
     todo : SUBSET Row, chk : SUBSET Nat,
     asked : Ids \cup {None}, kept : SUBSET Slots, seen : SUBSET Slots, bad : BOOLEAN,
     refused : BOOLEAN]

IdleJob ==
    [op |-> "none", uri |-> None, idx |-> 0, block |-> NULL, id |-> None,
     slot |-> 0, best |-> -1, cnt |-> 0, todo |-> {}, chk |-> {},
     asked |-> None, kept |-> {}, seen |-> {}, bad |-> FALSE, refused |-> FALSE]

Goto(p, label) == pc' = [pc EXCEPT ![p] = label] /\ UNCHANGED job
GotoWith(p, label, j) == pc' = [pc EXCEPT ![p] = label] /\ job' = [job EXCEPT ![p] = j]
Return(p) == GotoWith(p, "idle", IdleJob)

-----------------------------------------------------------------------------
(* The table is edited from outside, or a row gets usable or unusable. No  *)
(* two rows have the same id, URI or name. Unless "empty", some usable row *)
(* is always left.                                                         *)
Sound(t) ==
    /\ \A r, s \in t : r.uri = s.uri \/ r.name = s.name \/ r.id = s.id => r = s
    /\ "empty" \in QFaults \/ t # {}

Edited(t) ==
    /\ edits < MaxEdits /\ edits' = edits + 1
    /\ t # rows /\ Sound(t) /\ rows' = t
    /\ UNCHANGED <<list, calls, locks, pc, job>>

EditTable ==
    \/ \E r \in Row : Edited(rows \cup {r})
    \/ \E r \in rows : Edited(rows \ {r})
    \/ \E r \in rows, s \in Row : r.id = s.id /\ Edited((rows \ {r}) \cup {s})

-----------------------------------------------------------------------------
(* update_mohq_lst. It runs under the exclusive queue lock, or in mod_init *)
(* before there is another process. It may stop half-way.                  *)
EndLoad(p) ==
    /\ GotoWith(p, IF job[p].op = "init" THEN "bind" ELSE "find",
                [job[p] EXCEPT !.todo = {}, !.chk = {}])
    /\ pmohq_lock' = IF job[p].op # "init" /\ ChangeGranted(pmohq_lock, FALSE)
                     THEN AfterChange(pmohq_lock, FALSE) ELSE pmohq_lock

Query(p) ==
    /\ pc[p] = "load"
    /\ \/ "query" \in QFaults /\ EndLoad(p) /\ UNCHANGED loaded
       \/ /\ GotoWith(p, "rows", [job[p] EXCEPT !.todo = rows])
          /\ loaded' = rows
          /\ UNCHANGED pmohq_lock
    /\ UNCHANGED <<table, mem, pmohq_lst, mohq_cnt, calls, pcall_lock>>

NextRow(p, r, i) ==
    GotoWith(p, "rows", [job[p] EXCEPT !.todo = @ \ {r}, !.chk = @ \cup {i}])

(* A plausible slip: the entry of a row is found by its name.              *)
EntryByName(r) == {i \in Indices : Queue(i).name = r.name}

(* strcasecmp finds the entry of a row by its URI.                         *)
EntryOf(r) == {i \in Indices : Queue(i).uri = r.uri}

(* The entry keeps its id.                                                 *)
ChangeEntry(p, r) ==
    /\ \E i \in EntryOf(r) :
        /\ \A j \in EntryOf(r) : i <= j
        /\ mem' = [mem EXCEPT ![pmohq_lst][i].name = r.name]
        /\ NextRow(p, r, i)
    /\ UNCHANGED <<pmohq_lst, mohq_cnt, loaded, pmohq_lock>>

NewEntry(r) == [id |-> r.id, uri |-> r.uri, name |-> r.name]

(* A larger list is made and the old one freed. Without memory the load    *)
(* stops and nothing is removed.                                           *)
AddEntry(p, r) ==
    /\ EntryOf(r) = {}
    /\ \/ \E b \in Blocks :
            /\ mem[b] = <<>> /\ \A c \in 1..(b - 1) : mem[c] # <<>>
            /\ mem' = [c \in Blocks |->
                    CASE c = b -> [i \in 1..(mohq_cnt + 1) |->
                                    IF i <= mohq_cnt THEN Queue(i) ELSE NewEntry(r)]
                      [] c = pmohq_lst /\ mohq_cnt > 0 -> <<>>
                      [] OTHER -> mem[c]]
            /\ pmohq_lst' = b
            /\ mohq_cnt' = mohq_cnt + 1
            /\ NextRow(p, r, mohq_cnt + 1)
            /\ UNCHANGED <<loaded, pmohq_lock>>
       \/ /\ "mem" \in QFaults \/ \A b \in Blocks : mem[b] # <<>>
          /\ EndLoad(p)
          /\ loaded' = None
          /\ UNCHANGED <<mem, pmohq_lst, mohq_cnt>>

LoadRow(p) ==
    /\ pc[p] = "rows"
    /\ \E r \in job[p].todo : ChangeEntry(p, r) \/ AddEntry(p, r)
    /\ UNCHANGED <<table, calls, pcall_lock>>

(* The first entry that no row checked is overwritten by the last one,     *)
(* flags and all.                                                          *)
Unchecked(p) == Indices \ job[p].chk

Sweep(p) ==
    /\ pc[p] = "rows" /\ job[p].todo = {}
    /\ \E i \in Unchecked(p) :
        /\ \A j \in Unchecked(p) : i <= j
        /\ mem' = [mem EXCEPT ![pmohq_lst][i] = Queue(mohq_cnt)]
        /\ GotoWith(p, "rows",
            [job[p] EXCEPT !.chk = IF mohq_cnt \in @ THEN (@ \ {mohq_cnt}) \cup {i} ELSE @])
    /\ mohq_cnt' = mohq_cnt - 1
    /\ UNCHANGED <<table, pmohq_lst, loaded, calls, locks>>

Swept(p) ==
    /\ pc[p] = "rows" /\ job[p].todo = {} /\ Unchecked(p) = {}
    /\ EndLoad(p)
    /\ UNCHANGED <<table, list, calls, pcall_lock>>

LoadStep(p) == Query(p) \/ LoadRow(p) \/ Sweep(p) \/ Swept(p)
=============================================================================
