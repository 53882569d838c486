------------------------------ MODULE Transfers ------------------------------
(***************************************************************************)
(* What takes calls out of the queue: the script function mohq_retrieve    *)
(* with refer_call, the RPC commands mohqueue.drop_call and                *)
(* mohqueue.debug, and the callbacks of the transaction module. None of    *)
(* them holds pmohq_lock.                                                  *)
(***************************************************************************)
EXTENDS SipHandlers

(* find_qname passes through the queue lock, then the calls are locked     *)
(* shared. d is the Call-ID to drop, NoCall for all ("*"). A drop during a *)
(* PRACK wait is "early".                                                  *)
StartScan(p, op, d) ==
    /\ pc[p] = "idle" /\ CanRun(p)
    /\ op \in Ops \cap Scans
    /\ op = "retrieve" => d = NoCall
    /\ op = "drop" => "early" \in Faults \/ \A q \in Procs : pc[q] # "inv_wait"
    /\ SetGranted(pmohq_lock, FALSE)
    /\ SetGranted(pcall_lock, FALSE) /\ pcall_lock < MaxReaders
    /\ pcall_lock' = AfterSet(pcall_lock, FALSE)
    /\ pc' = [pc EXCEPT ![p] = "scan"]
    /\ job' = [job EXCEPT ![p] = [IdleJob EXCEPT !.op = op, !.dlg = d]]
    /\ UNCHANGED <<pmohq_lock, table, db, world>>

InTable(p) == job[p].slot < MaxCalls

(* One slot of the loop of mohqueue_rpc_drop_call.                         *)
DropScan(p) ==
    LET s == job[p].slot
    IN /\ pc[p] = "scan" /\ job[p].op = "drop" /\ InTable(p)
       /\ IF call_state[s] # 0 /\ job[p].dlg \in {NoCall, call_id[s]}
          THEN Goto(p, "close")
          ELSE GotoSlot(p, "scan", s + 1)
       /\ UNCHANGED <<table, pcall_lock, db, world>>

(* One slot of the loop of mohq_retrieve: a REFER without any answer for   *)
(* 32 s is given up with close_call.                                       *)
RetrieveScan(p) ==
    LET s == job[p].slot
    IN /\ pc[p] = "scan" /\ job[p].op = "retrieve" /\ InTable(p)
       /\ \/ Goto(p, "pick")
          \/ /\ "silence" \in Faults
             /\ call_state[s] \in {CLSTA_REFER, CLSTA_RFRWAIT}
             /\ Goto(p, "close")
       /\ UNCHANGED <<table, pcall_lock, db, world>>

(* The first call in queue is taken, a later one if it is older; which of  *)
(* the two is older is left open here.                                     *)
RetrievePick(p) ==
    LET s == job[p].slot
    IN /\ pc[p] = "pick"
       /\ \E b \in {s, job[p].best} :
            /\ b = s => call_state[s] = CLSTA_INQUEUE
            /\ b # s => call_state[s] # CLSTA_INQUEUE \/ job[p].best # -1
            /\ job' = [job EXCEPT ![p].slot = s + 1, ![p].best = b]
       /\ pc' = [pc EXCEPT ![p] = "scan"]
       /\ UNCHANGED <<pmohq_lock, table, pcall_lock, db, world>>

(* The loop is over; a call that was found stays under the shared lock.    *)
EndScan(p) ==
    /\ pc[p] = "scan" /\ ~InTable(p)
    /\ \/ /\ job[p].best = -1
          /\ pcall_lock' = AfterRelease(pcall_lock)
          /\ Finish(p)
       \/ /\ job[p].best # -1
          /\ GotoSlot(p, "refer", job[p].best)
          /\ UNCHANGED pcall_lock
    /\ UNCHANGED <<table, db, world>>

(* refer_call up to the new state: without a dialog the lock is released,  *)
(* without memory for the headers ("leak") it is not.                      *)
Refer(p) ==
    /\ pc[p] = "refer"
    /\ \/ /\ SetState(job[p].slot, CLSTA_REFER)
          /\ Goto(p, "refer_upd")
          /\ UNCHANGED pcall_lock
       \/ /\ "mem" \in Faults /\ Finish(p)
          /\ pcall_lock' = AfterRelease(pcall_lock)
          /\ UNCHANGED call_state
       \/ "leak" \in Faults /\ Finish(p) /\ UNCHANGED <<call_state, pcall_lock>>
    /\ UNCHANGED <<call_id, call_tran, db, world>>

(* The row is updated and the lock released.                               *)
ReferUpdate(p) ==
    LET s == job[p].slot
    IN /\ pc[p] = "refer_upd"
       /\ RowUpdated(call_id[s], call_state[s]) \/ NoConnection
       /\ pcall_lock' = AfterRelease(pcall_lock)
       /\ Goto(p, "refer_send")
       /\ UNCHANGED <<table, world>>

(* REFER is sent, or the call goes back to the queue.                      *)
ReferSend(p) ==
    LET s == job[p].slot
        d == call_id[s]
    IN /\ pc[p] = "refer_send"
       /\ \/ /\ tm' = tm \cup {[kind |-> "refer", slot |-> s, dlg |-> d]}
             /\ ua' = [e \in Dialogs |-> IF e = d THEN UA_REFERRED ELSE ua[e]]
             /\ Finish(p)
             /\ UNCHANGED call_state
          \/ /\ "tm" \in Faults
             /\ SetState(s, CLSTA_INQUEUE)
             /\ Goto(p, "upd")
             /\ UNCHANGED <<tm, ua>>
       /\ UNCHANGED <<call_id, call_tran, pcall_lock, db, rtp>>

(* mohqueue_rpc_debug locks the calls and releases the queues.             *)
RpcDebug(p) ==
    /\ pc[p] = "idle" /\ CanRun(p)
    /\ "debug" \in Ops
    /\ SetGranted(pmohq_lock, FALSE)
    /\ SetGranted(pcall_lock, FALSE) /\ pcall_lock < MaxReaders
    /\ pcall_lock' = AfterSet(pcall_lock, FALSE)
    /\ pmohq_lock' = AfterRelease(pmohq_lock)
    /\ UNCHANGED <<pc, job, table, db, world>>

-----------------------------------------------------------------------------
(* A callback of the transaction module that goes on to label, in the      *)
(* process that runs it; its slot is the one stored at registration.       *)
Continue(p, t, op, label) ==
    /\ pc' = [pc EXCEPT ![p] = label]
    /\ job' = [job EXCEPT ![p] = [IdleJob EXCEPT !.op = op, !.slot = t.slot, !.dlg = t.dlg]]
    /\ UNCHANGED pmohq_lock

(* INVITE transactions are referenced by the process that handles them.    *)
InHandler(t) ==
    \E q \in Procs : pc[q] # "idle" /\ job[q].op = "INVITE" /\ job[q].dlg = t.dlg

(* Nobody else has the slot yet that t was registered with.                *)
InTime(t) == "late" \in Faults \/ call_id[t.slot] = t.dlg

(* A plausible slip: a call that was answered is taken for a queued one.   *)
InviteCbAnswered(p, t) ==
    /\ pc[p] = "idle" /\ CanRun(p)
    /\ t \in tm /\ t.kind = "invite" /\ ~InHandler(t) /\ InTime(t)
    /\ tm' = tm \ {t}
    /\ IF call_state[t.slot] >= CLSTA_INVITED
       THEN UNCHANGED <<control, call_tran>>
       ELSE /\ call_tran' = [call_tran EXCEPT ![t.slot] = NoCall]
            /\ Continue(p, t, "invite_cb", "del")
    /\ UNCHANGED <<call_state, call_id, pcall_lock, db, rtp, ua>>

(* invite_cb, for TMCB_DESTROY, the end of the transaction: a call that    *)
(* did not make it into the queue is deleted.                              *)
InviteCb(p, t) ==
    /\ pc[p] = "idle" /\ CanRun(p)
    /\ t \in tm /\ t.kind = "invite" /\ ~InHandler(t) /\ InTime(t)
    /\ tm' = tm \ {t}
    /\ IF call_state[t.slot] >= CLSTA_INQUEUE
       THEN UNCHANGED <<control, call_tran>>
       ELSE /\ call_tran' = [call_tran EXCEPT ![t.slot] = NoCall]
            /\ Continue(p, t, "invite_cb", "del")
    /\ UNCHANGED <<call_state, call_id, pcall_lock, db, rtp, ua>>

(* A plausible slip: no answer to the REFER is no reason to do anything.   *)
ReferCbPatient(p, t) ==
    /\ pc[p] = "idle" /\ CanRun(p)
    /\ t \in tm /\ t.kind = "refer"
    /\ tm' = tm \ {t}
    /\ \/ UNCHANGED call_state
       \/ call_state[t.slot] = CLSTA_REFER /\ SetState(t.slot, CLSTA_RFRWAIT)
    /\ UNCHANGED <<control, call_id, call_tran, pcall_lock, db, rtp, ua>>

(* refer_cb: ignored; 2xx; no answer, with or without a message to name    *)
(* the RTP session; 481; another error, by whether RTP is still active.    *)
ReferCb(p, t) ==
    LET s == t.slot
    IN /\ pc[p] = "idle" /\ CanRun(p)
       /\ t \in tm /\ t.kind = "refer"
       /\ tm' = tm \ {t}
       /\ \/ /\ call_state[s] # CLSTA_REFER
             /\ UNCHANGED <<control, call_state>>
          \/ /\ call_state[s] = CLSTA_REFER
             /\ SetState(s, CLSTA_RFRWAIT)
             /\ UNCHANGED control
          \/ /\ call_state[s] = CLSTA_REFER
             /\ Continue(p, t, "refer_cb", "end") \/ Continue(p, t, "refer_cb", "del")
             /\ UNCHANGED call_state
          \/ /\ call_state[s] = CLSTA_REFER
             /\ \E d \in Dialogs : d = t.dlg /\ rtp[d] # "none"
             /\ SetState(s, CLSTA_INQUEUE)
             /\ Continue(p, t, "refer_cb", "upd")
       /\ UNCHANGED <<call_id, call_tran, pcall_lock, db, rtp, ua>>

(* A plausible slip: the call is deleted only when the BYE was accepted.   *)
ByeCbAccepted(p, t) ==
    /\ pc[p] = "idle" /\ CanRun(p)
    /\ t \in tm /\ t.kind = "bye"
    /\ tm' = tm \ {t}
    /\ Continue(p, t, "bye_cb", "del") \/ UNCHANGED control
    /\ UNCHANGED <<table, pcall_lock, db, rtp, ua>>

(* bye_cb deletes the call whatever came of the BYE.                       *)
ByeCb(p, t) ==
    /\ pc[p] = "idle" /\ CanRun(p)
    /\ t \in tm /\ t.kind = "bye"
    /\ tm' = tm \ {t}
    /\ Continue(p, t, "bye_cb", "del")
    /\ UNCHANGED <<table, pcall_lock, db, rtp, ua>>

Callback(p) == \E t \in tm : InviteCb(p, t) \/ ReferCb(p, t) \/ ByeCb(p, t)

TransferStep(p) ==
    \/ DropScan(p) \/ RetrieveScan(p) \/ RetrievePick(p) \/ EndScan(p)
    \/ Refer(p) \/ ReferUpdate(p) \/ ReferSend(p)
=============================================================================
