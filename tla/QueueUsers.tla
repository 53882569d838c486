----------------------------- MODULE QueueUsers -----------------------------
(***************************************************************************)
(* What uses the queue list while the server runs: mohq_process with       *)
(* find_queue and create_call, which hold the queue lock, and mohq_count,  *)
(* mohq_retrieve and mohqueue.drop_call, which go through find_qname and   *)
(* use the index it found without the lock.                                *)
(***************************************************************************)
EXTENDS QueueList

OpenSlots == {s \in Slots : calls[s].state = "free"}

(* The next jobs, told that the call in slot s is now in state st: a scan  *)
(* of its queue remembers which calls were in queue all the time (kept)    *)
(* and which at some time (seen).                                          *)
Noted(jobs, s, st) ==
    [q \in Procs |->
        IF pc[q] # "scan" \/ calls[s].joined # job[q].asked THEN jobs[q]
        ELSE IF st = "queued" THEN [jobs[q] EXCEPT !.seen = @ \cup {s}]
                              ELSE [jobs[q] EXCEPT !.kept = @ \ {s}]]

(* The call in slot s gets state st and process p goes on with job j. Of   *)
(* a free slot, only a scan that has chosen it still reads the rest.       *)
Chosen(s) == \E q \in Procs : pc[q] = "scan" /\ job[q].best = s

SetState(p, label, j, s, st) ==
    /\ calls' = [calls EXCEPT ![s] =
                    IF st = "free" /\ ~Chosen(s) THEN NewCall ELSE [@ EXCEPT !.state = st]]
    /\ job' = Noted([job EXCEPT ![p] = j], s, st)
    /\ pc' = [pc EXCEPT ![p] = label]

-----------------------------------------------------------------------------
(* mohq_process. What the message is shows when it is looked up.           *)
StartMessage(p) ==
    /\ pc[p] = "idle"
    /\ SetGranted(pmohq_lock, FALSE)
    /\ pmohq_lock' = AfterSet(pmohq_lock, FALSE)
    /\ GotoWith(p, "enter", [IdleJob EXCEPT !.op = "message"])
    /\ UNCHANGED <<table, list, calls, pcall_lock>>

(* A plausible slip: the list is reloaded whatever mohq_lock_change says.  *)
BeginLoadAnyway(p) ==
    /\ pc[p] = "enter"
    /\ pmohq_lock' = IF ChangeGranted(pmohq_lock, TRUE)
                     THEN AfterChange(pmohq_lock, TRUE) ELSE pmohq_lock
    /\ Goto(p, "load")
    /\ UNCHANGED <<table, list, calls, pcall_lock>>

(* The last load is a minute old and nobody else holds the queue lock.     *)
BeginLoad(p) ==
    /\ pc[p] = "enter"
    /\ ChangeGranted(pmohq_lock, TRUE)
    /\ pmohq_lock' = AfterChange(pmohq_lock, TRUE)
    /\ Goto(p, "load")
    /\ UNCHANGED <<table, list, calls, pcall_lock>>

LeaveMessage(p) ==
    /\ Return(p)
    /\ pmohq_lock' = AfterRelease(pmohq_lock)

(* The seconds at which a call can come: time does not go back.            *)
Now == {t \in 1..MaxTime : \A s \in Slots : calls[s].call_time <= t}

(* create_call and add_call_rec *)
CallIn(i, t) ==
    [state |-> "busy", block |-> pmohq_lst, idx |-> i, call_time |-> t, joined |-> Queue(i).id]

(* find_queue for the message's URI, then find_call under the exclusive    *)
(* call lock: a first INVITE gets the last open slot and keeps the lock    *)
(* until the row of the call is added; another message gets the call it    *)
(* belongs to, if there is one. The rest is left to others.                *)
Matches(u) == {i \in Indices : Queue(i).uri = u}

Found(p, label, op, u, i, s) ==
    GotoWith(p, label,
        [job[p] EXCEPT !.op = op, !.uri = u, !.idx = i, !.slot = s, !.asked = Queue(i).id])

FirstInvite(p, u, i) ==
    \E s \in OpenSlots, t \in Now :
        /\ \A r \in OpenSlots : r <= s
        /\ calls' = [calls EXCEPT ![s] = CallIn(i, t)]
        /\ Found(p, "create", "invite", u, i, s)
    /\ pcall_lock' = AfterSet(pcall_lock, TRUE)

OfCall(p, u, i) ==
    /\ \E s \in Slots \ OpenSlots : Found(p, "handle", "message", u, i, s)
    /\ UNCHANGED <<calls, pcall_lock>>

Lookup(p) ==
    /\ pc[p] \in {"enter", "find"}
    /\ \/ LeaveMessage(p) /\ UNCHANGED <<calls, pcall_lock>>
       \/ /\ SetGranted(pcall_lock, TRUE)
          /\ \E u \in Uris : \E i \in Matches(u) :
                /\ \A k \in Matches(u) : i <= k
                /\ FirstInvite(p, u, i) \/ OfCall(p, u, i)
          /\ UNCHANGED pmohq_lock
    /\ UNCHANGED <<table, list>>

(* The row is added and mohq_process releases the calls.                   *)
AddCallRec(p) ==
    /\ pc[p] = "create"
    /\ Goto(p, "handle")
    /\ pcall_lock' = AfterRelease(pcall_lock)
    /\ UNCHANGED <<table, list, calls, pmohq_lock>>

(* What the handlers of SipHandlers can make of the state of a call; of a  *)
(* slot that was set free meanwhile, nothing is said here.                 *)
AfterMessage(op, st) ==
    IF st = "free" THEN {"free"}
    ELSE {"busy", "free"} \cup (IF op = "message" \/ st = "queued" THEN {"queued"} ELSE {})

Handle(p) ==
    LET s == job[p].slot
    IN /\ pc[p] = "handle"
       /\ \E st \in AfterMessage(job[p].op, calls[s].state) : SetState(p, "idle", IdleJob, s, st)
       /\ pmohq_lock' = AfterRelease(pmohq_lock)
       /\ UNCHANGED <<table, list, pcall_lock>>

(* The callbacks of Transfers, in a process that does nothing else; none   *)
(* is pending for a call in queue or one that is being created.            *)
Callback(p, s) ==
    /\ pc[p] = "idle" /\ calls[s].state = "busy"
    /\ \A q \in Procs : pc[q] = "create" => job[q].slot # s
    /\ \E st \in {"queued", "free"} : SetState(p, "idle", IdleJob, s, st)
    /\ UNCHANGED <<table, list, locks>>

-----------------------------------------------------------------------------
(* find_qname passes through the queue lock. If there is no such queue, or *)
(* the lock is refused, mohq_count goes on without a queue; the others     *)
(* give up. No history is kept for a drop.                                 *)
FirstNamed(n) ==
    {i \in Indices : Queue(i).name = n /\ \A k \in Indices : Queue(k).name = n => i <= k}

IdsNamed(n) == {Queue(i).id : i \in FirstNamed(n)}

FindQname(p, op, n) ==
    /\ pc[p] = "idle"
    /\ Cardinality({q \in Procs : pc[q] \in {"named", "scan", "result"}}) < MaxScans
    /\ \/ /\ SetGranted(pmohq_lock, FALSE)
          /\ \E i \in FirstNamed(n) :
                GotoWith(p, "named",
                    [IdleJob EXCEPT !.op = op, !.idx = i,
                        !.asked = IF op = "drop" THEN None ELSE Queue(i).id])
       \/ /\ SetGranted(pmohq_lock, FALSE) /\ FirstNamed(n) = {}
          /\ op = "count"
          /\ GotoWith(p, "named", [IdleJob EXCEPT !.op = op])
       \/ /\ ~SetGranted(pmohq_lock, FALSE)
          /\ op = "count"
          /\ \E id \in IF IdsNamed(n) = {} THEN {None} ELSE IdsNamed(n) :
                GotoWith(p, "named", [IdleJob EXCEPT !.op = op, !.asked = id, !.refused = TRUE])
    /\ UNCHANGED <<table, list, calls, locks>>

(* What may be read as the id of entry i of block b: memory that was freed *)
(* holds anything.                                                         *)
IdAt(b, i) == IF b # NULL /\ i \in DOMAIN mem[b] THEN {mem[b][i].id} ELSE Ids

InQueue(id) == {s \in Slots : calls[s].state = "queued" /\ calls[s].joined = id}

(* The calls are locked shared, the queue is looked up by its old index.   *)
(* Without the lock mohq_count goes on with a count of 0, the others give  *)
(* up.                                                                     *)
StartScan(p) ==
    /\ pc[p] = "named"
    /\ \/ /\ SetGranted(pcall_lock, FALSE)
          /\ pcall_lock' = AfterSet(pcall_lock, FALSE)
          /\ \E id \in IF job[p].idx = 0 THEN {None} ELSE IdAt(pmohq_lst, job[p].idx) :
                GotoWith(p, "scan",
                    [job[p] EXCEPT
                        !.id = id, !.bad = job[p].idx # 0 /\ id # job[p].asked,
                        !.block = IF job[p].op = "drop" THEN pmohq_lst ELSE NULL,
                        !.slot = IF job[p].idx = 0 THEN MaxCalls ELSE 0,
                        !.kept = InQueue(job[p].asked), !.seen = InQueue(job[p].asked)])
       \/ /\ ~SetGranted(pcall_lock, FALSE)
          /\ job[p].op = "count"
          /\ GotoWith(p, "result",
                [IdleJob EXCEPT !.op = "count", !.refused = TRUE,
                    !.kept = InQueue(job[p].asked), !.seen = InQueue(job[p].asked)])
          /\ UNCHANGED pcall_lock
       \/ /\ ~SetGranted(pcall_lock, FALSE)
          /\ job[p].op # "count"
          /\ Return(p)
          /\ UNCHANGED pcall_lock
    /\ UNCHANGED <<table, list, calls, pmohq_lock>>

(* A plausible slip: the last call in queue is taken.                      *)
OlderOrLast(p, s) == TRUE

(* The test of mohq_retrieve for a call that is older than the best one so *)
(* far. A call_time of 0 is taken for none.                                *)
Older(p, s) ==
    LET best == job[p].best
        ntime == IF best = -1 THEN 0 ELSE calls[best].call_time
    IN ntime = 0 \/ calls[s].call_time < ntime

(* A plausible slip: mohq_count counts the calls of the queue, whatever    *)
(* they wait for.                                                          *)
CountedAll(p, s) ==
    [job[p] EXCEPT !.slot = s + 1,
        !.cnt = IF job[p].op = "count" THEN @ + 1 ELSE @,
        !.best = IF job[p].op = "retrieve" /\ calls[s].state = "queued" /\ Older(p, s)
                 THEN s ELSE @]

(* A plausible slip: the slot after a call of the queue is passed over.    *)
CountedTwoOn(p, s) == [job[p] EXCEPT !.slot = s + 2]

(* mohq_count and mohq_retrieve: what a call of the queue in slot s adds.  *)
Counted(p, s) ==
    [job[p] EXCEPT !.slot = s + 1,
        !.cnt = IF job[p].op = "count" /\ calls[s].state = "queued" THEN @ + 1 ELSE @,
        !.best = IF job[p].op = "retrieve" /\ calls[s].state = "queued" /\ Older(p, s)
                 THEN s ELSE @]

(* One slot of the loops. The call's queue is read through pmohq; drop     *)
(* reads the id of its own queue anew each time. A call to be dropped, or  *)
(* one without an answer to REFER for 32 s, which is busy, is closed: it   *)
(* waits for the answer to BYE or is deleted at once.                      *)
ScanSlot(p) ==
    LET s == job[p].slot
        j == job[p]
    IN /\ pc[p] = "scan" /\ s < MaxCalls
       /\ \/ /\ s \in OpenSlots
             /\ GotoWith(p, "scan", [j EXCEPT !.slot = s + 1])
             /\ UNCHANGED calls
          \/ /\ s \notin OpenSlots
             /\ \E x \in IdAt(calls[s].block, calls[s].idx),
                   y \in IF j.op = "drop" THEN IdAt(j.block, j.idx) ELSE {j.id} :
                LET bad == j.bad \/ x # calls[s].joined \/ y # j.asked
                IN \/ /\ x # y
                      /\ GotoWith(p, "scan", [j EXCEPT !.slot = s + 1, !.bad = bad])
                      /\ UNCHANGED calls
                   \/ /\ x = y
                      /\ GotoWith(p, "scan", [Counted(p, s) EXCEPT !.bad = bad])
                      /\ UNCHANGED calls
                   \/ /\ x = y
                      /\ \/ j.op = "drop"
                         \/ j.op = "retrieve" /\ calls[s].state = "busy"
                      /\ \E st \in {"busy", "free"} :
                            SetState(p, "scan", [j EXCEPT !.slot = s + 1, !.bad = bad], s, st)
    /\ UNCHANGED <<table, list, locks>>

(* The loop is over: the count is returned, or the oldest call referred.   *)
EndScan(p) ==
    /\ pc[p] = "scan" /\ job[p].slot = MaxCalls
    /\ \/ job[p].best = -1 /\ Return(p) /\ UNCHANGED calls
       \/ job[p].best # -1 /\ SetState(p, "idle", IdleJob, job[p].best, "busy")
    /\ pcall_lock' = AfterRelease(pcall_lock)
    /\ UNCHANGED <<table, list, pmohq_lock>>

(* Without the call lock too, mohq_count writes cnt to the pseudo-variable *)
(* and returns 1.                                                          *)
SetResult(p) ==
    /\ pc[p] = "result"
    /\ Return(p)
    /\ UNCHANGED <<table, list, calls, locks>>

UserStep(p) ==
    \/ BeginLoad(p) \/ Lookup(p) \/ AddCallRec(p) \/ Handle(p)
    \/ StartScan(p) \/ ScanSlot(p) \/ EndScan(p) \/ SetResult(p)

UserStimulus(p) ==
    \/ StartMessage(p)
    \/ \E s \in Slots : Callback(p, s)
    \/ \E op \in Scans, n \in Names : FindQname(p, op, n)
=============================================================================
