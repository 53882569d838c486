-------------------------------- MODULE Mohq --------------------------------
(***************************************************************************)
(* The whole of mohqueue at run time: the call table, the SIP handlers,    *)
(* the script and RPC functions and the callbacks, run by several          *)
(* processes; and what must be true of them.                               *)
(***************************************************************************)
EXTENDS Transfers

(* What a process that is inside a handler does next.                      *)
Step(p) ==
    \/ MessageStep(p) \/ TransferStep(p)
    \/ EndThenDelete(p) \/ CloseCall(p) \/ DeleteRow(p) \/ FreeSlot(p) \/ UpdateRow(p)

(* What the outside makes an idle process do.                              *)
Stimulus(p) ==
    \/ \E op \in Ops, d \in Dialogs : StartMessage(p, op, d)
    \/ \E op \in Ops, d \in Dialogs \cup {NoCall} : StartScan(p, op, d)
    \/ RpcDebug(p)
    \/ Callback(p)

(* The proxy drops a session that is silent for too long.                  *)
SessionExpires(d) ==
    /\ "rtp" \in Faults
    /\ rtp[d] # "none"
    /\ rtp' = [rtp EXCEPT ![d] = "none"]
    /\ UNCHANGED <<table, pcall_lock, db, tm, ua, control>>

Next ==
    \/ \E p \in Procs : Step(p) \/ Stimulus(p)
    \/ \E d \in Dialogs : SessionExpires(d)

Spec == Init /\ [][Next]_vars

(* A process that is in a handler gets on with it: it sleeps and polls but *)
(* never blocks. The transaction module makes the callbacks of each kind   *)
(* it owes: its timers answer for a peer that does not.                    *)
HandlerFairness == \A p \in Procs : WF_vars(Step(p)) /\ SF_vars(InviteWait(p))

CallbackFairness ==
    /\ SF_vars(\E p \in Procs : \E t \in tm : InviteCb(p, t))
    /\ SF_vars(\E p \in Procs : \E t \in tm : ReferCb(p, t))
    /\ SF_vars(\E p \in Procs : \E t \in tm : ByeCb(p, t))

HandlerSpec == Spec /\ HandlerFairness
FairSpec == HandlerSpec /\ CallbackFairness
-----------------------------------------------------------------------------
(* Who holds what.                                                         *)
HoldsCallsShared(p) == job[p].op \in Scans /\ pc[p] \notin {"refer_send", "upd"}
HoldsCallsExcl(p) == pc[p] = "create"
HoldsQueues(p) == job[p].op \in Messages

CallReaders == {p \in Procs : HoldsCallsShared(p)}
CallWriters == {p \in Procs : HoldsCallsExcl(p)}
QueueUsers == {p \in Procs : HoldsQueues(p)}
Updaters == {p \in Procs : pc[p] = "update"}

(* Where a process is fits what it is doing, and a process that works on a *)
(* slot works on one of the table.                                         *)
ControlOK ==
    \A p \in Procs :
        /\ pc[p] = "idle" <=> job[p].op = "none"
        /\ pc[p] \in HandlerPcs => job[p].op \in Messages
        /\ pc[p] = "scan" => job[p].op \in Scans
        /\ pc[p] \in {"pick", "refer", "refer_upd", "refer_send"} => job[p].op = "retrieve"
        /\ job[p].best # -1 => job[p].op = "retrieve"
        /\ pc[p] \notin {"idle", "enter", "update", "lookup", "scan"} => job[p].slot \in Slots

(* Every handler, on every way out of it, leaves both locks as it found    *)
(* them: the counters are what the processes still inside account for, a   *)
(* slot is filled by one process while nobody scans, and the queues are    *)
(* reloaded while no handler of a message is active.                       *)
LocksBalanced ==
    /\ pcall_lock = IF CallWriters # {} THEN -1 ELSE Cardinality(CallReaders)
    /\ pmohq_lock = IF Updaters # {} THEN -1 ELSE Cardinality(QueueUsers)
    /\ \A p \in CallWriters : CallWriters = {p} /\ CallReaders = {}
    /\ \A p \in Updaters : QueueUsers = {p}

(* While mohq_retrieve or mohqueue.drop_call goes through the table, no    *)
(* slot gets another call and no row disappears from the status table.     *)
TableStableDuringScan ==
    [][CallReaders # {} =>
        /\ call_id' = call_id
        /\ \A d \in Dialogs : db[d] # NoRow => db'[d] # NoRow]_vars

(* Every handler comes to its end: no wait in it depends on the caller     *)
(* or on another handler.                                                  *)
HandlersEnd == \A p \in Procs : pc[p] # "idle" ~> pc[p] = "idle"

-----------------------------------------------------------------------------
(* Between two messages: no process is anywhere but in the PRACK wait.     *)
Quiet == \A p \in Procs : pc[p] \in {"idle", "inv_wait"}
Active(s) == call_state[s] # 0

(* No call is in the table twice.                                          *)
OneSlotPerCall ==
    \A s, t \in Slots : Active(s) /\ Active(t) /\ call_id[s] = call_id[t] => s = t

(* A call in queue hears music, whatever led it there or back.             *)
MusicWhileQueued ==
    Quiet => \A s \in Slots :
        call_state[s] = CLSTA_INQUEUE => rtp[call_id[s]] = "playing"

(* The status table tells outside processes which calls there are, and of  *)
(* each whether it is entering (1), in queue (2) or leaving (3). A call    *)
(* that is being told BYE keeps the status it had.                         *)
StatusTableRight ==
    Quiet => \A d \in Dialogs :
        /\ db[d] = NoRow <=> \A s \in Slots : Active(s) => call_id[s] # d
        /\ \A s \in Slots :
            /\ Active(s) /\ call_id[s] = d
            /\ call_state[s] \notin {CLSTA_BYE, CLSTA_BYEOK}
            => db[d] = call_state[s] \div 100

(* A first INVITE that has not got its slot yet.                           *)
OnItsWay(d) ==
    \E p \in Procs : /\ job[p].op = "INVITE" /\ job[p].dlg = d
                     /\ pc[p] \in {"enter", "update", "lookup", "create"}

Phase(d) ==
    IF \E s \in Slots : Active(s) /\ call_id[s] = d
    THEN LET s == CHOOSE s \in Slots : Active(s) /\ call_id[s] = d
         IN CASE call_state[s] < CLSTA_INQUEUE -> "entering"
              [] call_state[s] = CLSTA_INQUEUE -> "queued"
              [] call_state[s] \in {CLSTA_REFER, CLSTA_RFRWAIT} -> "transferring"
              [] OTHER -> "ending"
    ELSE IF ua[d] = UA_IDLE \/ OnItsWay(d) THEN "none" ELSE "gone"

(* One message at a time, the module keeps the promises of QueueService.   *)
Service == INSTANCE QueueService
    WITH Capacity <- MaxCalls, phase <- [d \in Dialogs |-> Phase(d)]
ImplementsQueueService == Service!Spec

(* A call never stays half-way into the queue: the caller answers, or the  *)
(* end of its INVITE transaction cleans up.                                *)
EnteringEnds ==
    \A s \in Slots :
        call_state[s] \in 1..(CLSTA_INQUEUE - 1) ~> call_state[s] \notin 1..(CLSTA_INQUEUE - 1)

(* A call that was sent a REFER does not wait for the answer for ever.     *)
ReferEnds == \A s \in Slots : call_state[s] = CLSTA_REFER ~> call_state[s] # CLSTA_REFER

(* A call that was told BYE leaves the table, whether it answers or not.   *)
ByeEnds == \A s \in Slots : call_state[s] = CLSTA_BYE ~> call_state[s] # CLSTA_BYE
=============================================================================
