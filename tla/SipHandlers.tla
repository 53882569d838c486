----------------------------- MODULE SipHandlers -----------------------------
(***************************************************************************)
(* mohq_process and the handlers of the SIP methods it dispatches to. The  *)
(* order of sending a reply and storing the state it stands for is the     *)
(* order of the code: the answer to a reply can be here before the state.  *)
(***************************************************************************)
EXTENDS CallTable

(* What the caller can have sent by now. Messages are repeated, delayed    *)
(* and reordered at will; a first INVITE is repeated only if "resend", BYE *)
(* comes before the answer only if "early" and after ours only if "glare". *)
MayArrive(op, d) ==
    CASE op = "INVITE" ->
            ua[d] = UA_IDLE \/ ("resend" \in Faults /\ ua[d] <= UA_EARLY)
      [] op = "CANCEL" -> ua[d] >= UA_CALLING
      [] op = "PRACK" -> ua[d] >= UA_EARLY
      [] op = "BYE" ->
            /\ ua[d] >= IF "early" \in Faults THEN UA_EARLY ELSE UA_CONFIRMED
            /\ "glare" \in Faults \/ \A t \in tm : ~(t.kind = "bye" /\ t.dlg = d)
      [] op = "NOTIFY" -> ua[d] = UA_REFERRED
      [] OTHER -> ua[d] >= UA_CONFIRMED

(* mohq_process: the shared pmohq_lock is held until the handler is done.  *)
StartMessage(p, op, d) ==
    /\ pc[p] = "idle" /\ CanRun(p)
    /\ op \in Ops \cap Messages
    /\ MayArrive(op, d)
    /\ SetGranted(pmohq_lock, FALSE)
    /\ pmohq_lock' = AfterSet(pmohq_lock, FALSE)
    /\ pc' = [pc EXCEPT ![p] = "enter"]
    /\ job' = [job EXCEPT ![p] = [IdleJob EXCEPT !.op = op, !.dlg = d]]
    /\ ua' = IF ua[d] = UA_IDLE THEN [ua EXCEPT ![d] = UA_CALLING] ELSE ua
    /\ UNCHANGED <<table, pcall_lock, db, rtp, tm>>

(* The minute is over: the queue definitions are reloaded under the        *)
(* exclusive lock, if no other handler holds it shared.                    *)
BeginUpdate(p) ==
    /\ pc[p] = "enter" /\ "update" \in Ops
    /\ ChangeGranted(pmohq_lock, TRUE)
    /\ pmohq_lock' = AfterChange(pmohq_lock, TRUE)
    /\ pc' = [pc EXCEPT ![p] = "update"]
    /\ UNCHANGED <<job, table, pcall_lock, db, world>>

EndUpdate(p) ==
    /\ pc[p] = "update"
    /\ pmohq_lock' = IF ChangeGranted(pmohq_lock, FALSE)
                     THEN AfterChange(pmohq_lock, FALSE) ELSE pmohq_lock
    /\ pc' = [pc EXCEPT ![p] = "lookup"]
    /\ UNCHANGED <<job, table, pcall_lock, db, world>>

SkipUpdate(p) ==
    /\ pc[p] = "enter"
    /\ Goto(p, "lookup")
    /\ UNCHANGED <<table, pcall_lock, db, world>>

Handles(p, op) == pc[p] = "handle" /\ job[p].op = op
State(p) == call_state[job[p].slot]

-----------------------------------------------------------------------------
(* first_invite_msg and, inlined, send_prov_rsp and send_rtp_answer.       *)

(* No SDP, no REFER support or no RTP proxy: 488 or 486. If the reply      *)
(* fails the call stays in CLSTA_ENTER.                                    *)
InviteRefuse(p) ==
    /\ Handles(p, "INVITE")
    /\ Goto(p, "del") \/ ("sl" \in Faults /\ Finish(p))
    /\ UNCHANGED <<table, pcall_lock, db, world>>

InviteOffer(p) ==
    /\ Handles(p, "INVITE")
    /\ rtp' = [rtp EXCEPT ![job[p].dlg] = "offered"]
    /\ Goto(p, "inv_tran")
    /\ UNCHANGED <<table, pcall_lock, db, tm, ua>>

(* t_newtran, the To tag and register_tmcb; each failure ends and deletes  *)
(* the call, the later ones with the transaction on record.                *)
InviteTransaction(p) ==
    LET s == job[p].slot
    IN /\ pc[p] = "inv_tran"
       /\ \/ "tm" \in Faults /\ Goto(p, "end") /\ UNCHANGED <<call_tran, tm>>
          \/ /\ call_tran' = [call_tran EXCEPT ![s] = job[p].dlg]
             /\ \/ /\ tm' = tm \cup {[kind |-> "invite", slot |-> s, dlg |-> job[p].dlg]}
                   /\ Goto(p, "inv_try")
                \/ /\ Faults \cap {"tm", "mem"} # {}
                   /\ Goto(p, "end") /\ UNCHANGED tm
       /\ UNCHANGED <<call_state, call_id, pcall_lock, db, rtp, ua>>

(* 100 Trying, then, for a caller that requires it, the reliable 180.      *)
InviteTrying(p) ==
    /\ pc[p] = "inv_try"
    /\ \/ "tm" \in Faults /\ Goto(p, "end") /\ UNCHANGED call_state
       \/ /\ SetState(job[p].slot, CLSTA_TRYING)
          /\ \/ Goto(p, "inv_answer")
             \/ "PRACK" \in Ops /\ Goto(p, "inv_ring")
             \/ "mem" \in Faults /\ Goto(p, "end")
    /\ UNCHANGED <<call_id, call_tran, pcall_lock, db, world>>

InviteRing(p) ==
    /\ pc[p] = "inv_ring"
    /\ \/ "tm" \in Faults /\ Goto(p, "end") /\ UNCHANGED ua
       \/ /\ ua' = [ua EXCEPT ![job[p].dlg] = IF @ < UA_EARLY THEN UA_EARLY ELSE @]
          /\ Goto(p, "inv_prack")
    /\ UNCHANGED <<table, pcall_lock, db, rtp, tm>>

InvitePrack(p) ==
    /\ pc[p] = "inv_prack"
    /\ SetState(job[p].slot, CLSTA_PRACKSTRT)
    /\ Goto(p, "inv_wait")
    /\ UNCHANGED <<call_id, call_tran, pcall_lock, db, world>>

(* A plausible slip: the wait has no time limit.                           *)
InviteWaitForever(p) ==
    /\ pc[p] = "inv_wait" /\ CanRun(p)
    /\ State(p) # CLSTA_PRACKSTRT
    /\ Goto(p, IF State(p) = CLSTA_PRACKRPLY THEN "inv_cancel" ELSE "end")
    /\ UNCHANGED <<table, pcall_lock, db, world>>

(* The 32 s wait ends: PRACK came, the state changed, or time is over.     *)
InviteWait(p) ==
    /\ pc[p] = "inv_wait" /\ CanRun(p)
    /\ Goto(p, IF State(p) = CLSTA_PRACKRPLY THEN "inv_cancel" ELSE "end")
    /\ UNCHANGED <<table, pcall_lock, db, world>>

InviteCancelled(p) ==
    /\ pc[p] = "inv_cancel"
    /\ Goto(p, IF State(p) = CLSTA_CANCEL THEN "end" ELSE "inv_answer")
    /\ UNCHANGED <<table, pcall_lock, db, world>>

(* send_rtp_answer: the music starts, then 200 is sent.                    *)
InviteAnswer(p) ==
    LET d == job[p].dlg
    IN /\ pc[p] = "inv_answer"
       /\ \/ Faults \cap {"tm", "rtp", "mem"} # {} /\ Goto(p, "end") /\ UNCHANGED <<rtp, ua>>
          \/ /\ rtp' = [rtp EXCEPT ![d] = "playing"]
             /\ ua' = [ua EXCEPT ![d] = IF @ < UA_CONFIRMED THEN UA_CONFIRMED ELSE @]
             /\ Goto(p, "inv_accept")
       /\ UNCHANGED <<table, pcall_lock, db, tm>>

InviteAccept(p) ==
    /\ pc[p] = "inv_accept"
    /\ SetState(job[p].slot, CLSTA_INVITED)
    /\ Finish(p)
    /\ UNCHANGED <<call_id, call_tran, pcall_lock, db, world>>

-----------------------------------------------------------------------------
(* The transaction the call's hash and label stand for still exists.       *)
InviteTranKnown(s) ==
    \E t \in tm : t.kind = "invite" /\ t.dlg = call_tran[s]

(* A plausible slip: every ACK is taken for the one of the first INVITE.   *)
AckUnchecked(p) ==
    /\ Handles(p, "ACK")
    /\ Goto(p, "ack_queue")
    /\ UNCHANGED <<table, pcall_lock, db, world>>

(* ack_msg *)
Ack(p) ==
    /\ Handles(p, "ACK")
    /\ \/ State(p) = CLSTA_INVITED /\ InviteTranKnown(job[p].slot) /\ Goto(p, "ack_queue")
       \/ /\ State(p) # CLSTA_INVITED \/ ~InviteTranKnown(job[p].slot) \/ "tm" \in Faults
          /\ Finish(p)
    /\ UNCHANGED <<table, pcall_lock, db, world>>

AckQueue(p) ==
    /\ pc[p] = "ack_queue"
    /\ call_tran' = [call_tran EXCEPT ![job[p].slot] = NoCall]
    /\ SetState(job[p].slot, CLSTA_INQUEUE)
    /\ Goto(p, "upd")
    /\ UNCHANGED <<call_id, pcall_lock, db, world>>

(* prack_msg *)
Prack(p) ==
    /\ Handles(p, "PRACK")
    /\ \/ State(p) = CLSTA_PRACKSTRT /\ Goto(p, "prack_reply")
       \/ (State(p) # CLSTA_PRACKSTRT \/ "tm" \in Faults) /\ Finish(p)
    /\ UNCHANGED <<table, pcall_lock, db, world>>

PrackReply(p) ==
    /\ pc[p] = "prack_reply"
    /\ SetState(job[p].slot, CLSTA_PRACKRPLY)
    /\ Finish(p)
    /\ UNCHANGED <<call_id, call_tran, pcall_lock, db, world>>

(* bye_msg; if the reply fails the call is left in CLSTA_BYEOK.            *)
Bye(p) ==
    /\ Handles(p, "BYE")
    /\ IF State(p) = CLSTA_BYEOK
       THEN Finish(p) /\ UNCHANGED <<call_state, rtp>>
       ELSE /\ IF State(p) >= CLSTA_INQUEUE
               THEN SetState(job[p].slot, CLSTA_BYEOK) /\ EndRTP(p)
               ELSE UNCHANGED <<call_state, rtp>>
            /\ Goto(p, "del") \/ ("sl" \in Faults /\ Finish(p))
    /\ UNCHANGED <<call_id, call_tran, pcall_lock, db, tm, ua>>

(* A plausible slip: a CANCEL that is too late is obeyed.                  *)
CancelAlways(p) ==
    /\ Handles(p, "CANCEL")
    /\ SetState(job[p].slot, CLSTA_CANCEL)
    /\ Finish(p)
    /\ UNCHANGED <<call_id, call_tran, pcall_lock, db, world>>

(* cancel_msg *)
Cancel(p) ==
    /\ Handles(p, "CANCEL")
    /\ IF State(p) < CLSTA_INQUEUE THEN SetState(job[p].slot, CLSTA_CANCEL)
                                   ELSE UNCHANGED call_state
    /\ Finish(p)
    /\ UNCHANGED <<call_id, call_tran, pcall_lock, db, world>>

(* notify_msg: ignored or refused (481, 415), a provisional report, the    *)
(* transfer succeeded, the operator was cancelled (487), the transfer      *)
(* failed and the caller goes back to the queue.                           *)
Notify(p) ==
    /\ Handles(p, "NOTIFY")
    /\ \/ Finish(p)
       \/ State(p) = CLSTA_RFRWAIT /\ \E l \in {"close", "end", "ntf_requeue"} : Goto(p, l)
    /\ UNCHANGED <<table, pcall_lock, db, world>>

(* A plausible slip: the status table still says leaving.                  *)
NotifyRequeueUnsaved(p) ==
    /\ pc[p] = "ntf_requeue"
    /\ SetState(job[p].slot, CLSTA_INQUEUE)
    /\ Finish(p)
    /\ UNCHANGED <<call_id, call_tran, pcall_lock, db, world>>

NotifyRequeue(p) ==
    /\ pc[p] = "ntf_requeue"
    /\ SetState(job[p].slot, CLSTA_INQUEUE)
    /\ Goto(p, "upd")
    /\ UNCHANGED <<call_id, call_tran, pcall_lock, db, world>>

(* reinvite_msg: refused, accepted, or a hold that ends the call.          *)
ReInvite(p) ==
    /\ Handles(p, "reINVITE")
    /\ Finish(p) \/ (State(p) \div 100 >= 2 /\ Goto(p, "close"))
    /\ UNCHANGED <<table, pcall_lock, db, world>>

(* deny_method *)
Deny(p) ==
    /\ Handles(p, "OPTIONS")
    /\ Finish(p)
    /\ UNCHANGED <<table, pcall_lock, db, world>>

MessageStep(p) ==
    \/ BeginUpdate(p) \/ EndUpdate(p) \/ SkipUpdate(p)
    \/ Lookup(p) \/ CreateCall(p)
    \/ InviteRefuse(p) \/ InviteOffer(p) \/ InviteTransaction(p) \/ InviteTrying(p)
    \/ InviteRing(p) \/ InvitePrack(p) \/ InviteWait(p) \/ InviteCancelled(p)
    \/ InviteAnswer(p) \/ InviteAccept(p)
    \/ Ack(p) \/ AckQueue(p) \/ Prack(p) \/ PrackReply(p)
    \/ Bye(p) \/ Cancel(p) \/ Notify(p) \/ NotifyRequeue(p)
    \/ ReInvite(p) \/ Deny(p)
=============================================================================
