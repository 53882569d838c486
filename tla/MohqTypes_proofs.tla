------------------------- MODULE MohqTypes_proofs -------------------------
(* The types of the call table and of the processes that work on it: what  *)
(* every operator and every action does to them, for every set of          *)
(* processes and of calls and every size of the table.                     *)
EXTENDS Mohq, FiniteSetTheorems, TLAPS

(* The parts of TypeOK, by who writes them.                                *)
Places == {"idle", "refer_send"} \cup HandlerPcs \cup ScanPcs \cup CommonPcs

ControlTypes ==
    /\ pmohq_lock \in LockValues
    /\ pc \in [Procs -> Places]
    /\ job \in [Procs -> Jobs]

StateTypes == call_state \in [Slots -> CallStates]
IdTypes == call_id \in [Slots -> Dialogs \cup {NoCall}]
TranTypes == call_tran \in [Slots -> Dialogs \cup {NoCall}]
CallLockTypes == pcall_lock \in LockValues
RowTypes == db \in [Dialogs -> {NoRow, 0, 1, 2, 3}]
RtpTypes == rtp \in [Dialogs -> {"none", "offered", "playing"}]
TmTypes == tm \subseteq Transactions
UaTypes == ua \in [Dialogs -> UA_IDLE..UA_REFERRED]

(* TypeOK is its parts, before a step and after.                           *)
LEMMA TypeParts ==
    /\ TypeOK => /\ ControlTypes /\ StateTypes /\ IdTypes /\ TranTypes
                 /\ CallLockTypes /\ RowTypes /\ RtpTypes /\ TmTypes /\ UaTypes
    /\ /\ ControlTypes' /\ StateTypes' /\ IdTypes' /\ TranTypes'
       /\ CallLockTypes' /\ RowTypes' /\ RtpTypes' /\ TmTypes' /\ UaTypes'
       => TypeOK'
  BY DEF TypeOK, ControlTypes, StateTypes, IdTypes, TranTypes, CallLockTypes,
         RowTypes, RtpTypes, TmTypes, UaTypes, Places

-----------------------------------------------------------------------------
(* What the operators the actions are built from do to the types.          *)
LEMMA ReleaseType == \A cnt \in LockValues : AfterRelease(cnt) \in LockValues
  BY DEF LockValues, AfterRelease

(* mohq_lock_set keeps the counter in its range.                           *)
LEMMA SetType ==
    \A cnt \in LockValues : \A bexcl \in BOOLEAN :
        SetGranted(cnt, bexcl) => AfterSet(cnt, bexcl) \in LockValues
  BY DEF LockValues, SetGranted, AfterSet

(* Slots, the end of a loop over them, and the best call of a scan.        *)
LEMMA SlotRange ==
    /\ Slots \subseteq 0..MaxCalls
    /\ \A s \in Slots : s + 1 \in 0..MaxCalls
    /\ \A s \in 0..MaxCalls : s < MaxCalls => s \in Slots
    /\ \A s \in -1..(MaxCalls - 1) : s # -1 => s \in Slots
  BY TableAssumption DEF Slots

(* An idle process has a job of the type too.                              *)
LEMMA IdleJobType == IdleJob \in Jobs
  BY TableAssumption DEF IdleJob, Jobs

(* The fields of a job.                                                    *)
LEMMA JobType ==
    ASSUME ControlTypes, NEW p \in Procs
    PROVE  /\ job[p] \in Jobs
           /\ job[p].op \in Messages \cup Scans \cup Callbacks \cup {"none"}
           /\ job[p].dlg \in Dialogs \cup {NoCall}
           /\ job[p].slot \in 0..MaxCalls
           /\ job[p].best \in -1..(MaxCalls - 1)
  BY DEF ControlTypes, Jobs

(* Going on keeps the control typed.                                       *)
LEMMA GotoType ==
    ASSUME ControlTypes, NEW p \in Procs, NEW label \in Places, Goto(p, label)
    PROVE  ControlTypes'
  BY DEF ControlTypes, Goto

(* So does going on with another slot,                                     *)
LEMMA GotoSlotType ==
    ASSUME ControlTypes, NEW p \in Procs, NEW label \in Places,
           NEW s \in 0..MaxCalls, GotoSlot(p, label, s)
    PROVE  ControlTypes'
  <1>1. [job[p] EXCEPT !.slot = s] \in Jobs
    BY JobType DEF Jobs
  <1>2. job' = [job EXCEPT ![p] = [job[p] EXCEPT !.slot = s]]
    BY DEF GotoSlot
  <1>3. QED
    BY <1>1, <1>2 DEF ControlTypes, GotoSlot

(* finishing,                                                              *)
LEMMA FinishType ==
    ASSUME ControlTypes, NEW p \in Procs, Finish(p)
    PROVE  ControlTypes'
  BY IdleJobType, ReleaseType DEF ControlTypes, Finish, Places

(* and returning into the loop that called.                                *)
LEMMA ReturnType ==
    ASSUME ControlTypes, NEW p \in Procs, job[p].slot \in Slots, Return(p)
    PROVE  ControlTypes'
  <1>1. job[p].slot + 1 \in 0..MaxCalls
    BY SlotRange
  <1>2. "scan" \in Places /\ "pick" \in Places
    BY DEF Places, ScanPcs
  <1>3. QED
    BY <1>1, <1>2, GotoType, GotoSlotType, FinishType DEF Return

(* Storing a call state.                                                   *)
LEMMA SetStateType ==
    ASSUME StateTypes, NEW s, NEW state \in CallStates, SetState(s, state)
    PROVE  StateTypes'
  BY DEF StateTypes, SetState

(* The states by name.                                                     *)
LEMMA StatesAreTyped ==
    {0, CLSTA_ENTER, CLSTA_TRYING, CLSTA_PRACKSTRT, CLSTA_PRACKRPLY,
     CLSTA_INVITED, CLSTA_CANCEL, CLSTA_INQUEUE, CLSTA_REFER, CLSTA_RFRWAIT,
     CLSTA_BYEOK, CLSTA_BYE} \subseteq CallStates
  BY DEF CallStates

(* The status of the table mohqcalls is a call state without its last two  *)
(* digits: 0 to 3.                                                         *)
LEMMA StatusRange == \A state \in CallStates : state \div 100 \in {0, 1, 2, 3}
  BY DEF CallStates, CLSTA_ENTER, CLSTA_TRYING, CLSTA_PRACKSTRT,
         CLSTA_PRACKRPLY, CLSTA_INVITED, CLSTA_CANCEL, CLSTA_INQUEUE,
         CLSTA_REFER, CLSTA_RFRWAIT, CLSTA_BYEOK, CLSTA_BYE

(* Every way to write a row.                                               *)
LEMMA RowOperatorTypes ==
    ASSUME RowTypes
    PROVE  /\ \A d : RowInserted(d) => RowTypes'
           /\ \A id : RowDeleted(id) => RowTypes'
           /\ \A id : \A state \in CallStates : RowUpdated(id, state) => RowTypes'
           /\ NoConnection => RowTypes'
  <1>1. CLSTA_ENTER \div 100 \in {0, 1, 2, 3}
    BY StatusRange, StatesAreTyped
  <1>2. \A d : RowInserted(d) => RowTypes'
    BY <1>1 DEF RowTypes, RowInserted
  <1>3. \A id : RowDeleted(id) => RowTypes'
    BY DEF RowTypes, RowDeleted
  <1>4. \A id : \A state \in CallStates : RowUpdated(id, state) => RowTypes'
    BY StatusRange DEF RowTypes, RowUpdated
  <1>5. NoConnection => RowTypes'
    BY DEF RowTypes, NoConnection
  <1>6. QED
    BY <1>2, <1>3, <1>4, <1>5

(* end_RTP.                                                                *)
LEMMA EndRTPType ==
    ASSUME RtpTypes, NEW p, EndRTP(p)
    PROVE  RtpTypes'
  BY DEF RtpTypes, EndRTP

(* What a step leaves alone stays typed.                                   *)
LEMMA UnchangedTypes ==
    ASSUME TypeOK
    PROVE  /\ UNCHANGED control => ControlTypes'
           /\ UNCHANGED table => StateTypes' /\ IdTypes' /\ TranTypes'
           /\ UNCHANGED call_state => StateTypes'
           /\ UNCHANGED call_id => IdTypes'
           /\ UNCHANGED call_tran => TranTypes'
           /\ UNCHANGED pcall_lock => CallLockTypes'
           /\ UNCHANGED db => RowTypes'
           /\ UNCHANGED world => RtpTypes' /\ TmTypes' /\ UaTypes'
           /\ UNCHANGED rtp => RtpTypes'
           /\ UNCHANGED tm => TmTypes'
           /\ UNCHANGED ua => UaTypes'
  BY TypeParts
  DEF control, table, world, ControlTypes, StateTypes, IdTypes, TranTypes,
      CallLockTypes, RowTypes, RtpTypes, TmTypes, UaTypes

(* A process that works on a slot works on one of the table, and what it   *)
(* reads there has a type.                                                 *)
LEMMA WorkTyped ==
    ASSUME TypeOK, ControlOK, NEW p \in Procs,
           pc[p] \notin {"idle", "enter", "update", "lookup", "scan"}
    PROVE  /\ job[p].slot \in Slots
           /\ job[p].dlg \in Dialogs \cup {NoCall}
           /\ call_id[job[p].slot] \in Dialogs \cup {NoCall}
           /\ call_state[job[p].slot] \in CallStates
  BY TypeParts, JobType DEF ControlOK, IdTypes, StateTypes

(* The places by name.                                                     *)
LEMMA PlacesTyped ==
    /\ HandlerPcs \subseteq Places /\ ScanPcs \subseteq Places
    /\ CommonPcs \subseteq Places
    /\ {"idle", "enter", "update", "lookup", "create", "handle", "inv_tran",
        "inv_try", "inv_ring", "inv_prack", "inv_wait", "inv_cancel",
        "inv_answer", "inv_accept", "ack_queue", "prack_reply", "ntf_requeue",
        "scan", "pick", "refer", "refer_upd", "refer_send", "end", "close",
        "del", "free", "upd"} \subseteq Places
  BY DEF Places, HandlerPcs, ScanPcs, CommonPcs

(* mohq_process up to the handler, and first_invite_msg.                  *)
LEMMA InviteTypes ==
    ASSUME TypeOK, ControlOK, NEW p \in Procs
    PROVE  /\ BeginUpdate(p) => TypeOK'
           /\ EndUpdate(p) => TypeOK'
           /\ SkipUpdate(p) => TypeOK'
           /\ Lookup(p) => TypeOK'
           /\ CreateCall(p) => TypeOK'
           /\ InviteRefuse(p) => TypeOK'
           /\ InviteOffer(p) => TypeOK'
           /\ InviteTransaction(p) => TypeOK'
           /\ InviteTrying(p) => TypeOK'
           /\ InviteRing(p) => TypeOK'
           /\ InvitePrack(p) => TypeOK'
           /\ InviteWait(p) => TypeOK'
           /\ InviteCancelled(p) => TypeOK'
           /\ InviteAnswer(p) => TypeOK'
           /\ InviteAccept(p) => TypeOK'
  <1> USE TypeParts, UnchangedTypes, WorkTyped, PlacesTyped, GotoType,
          GotoSlotType, FinishType, ReturnType, SetStateType, StatesAreTyped
  <1>1. BeginUpdate(p) => TypeOK'
    <2>1. BeginUpdate(p) => ControlTypes'
      BY DEF BeginUpdate, ControlTypes, AfterChange, LockValues,
         Places, HandlerPcs
    <2>2. QED
      BY <2>1 DEF BeginUpdate
  <1>2. EndUpdate(p) => TypeOK'
    <2>1. EndUpdate(p) => ControlTypes'
      BY DEF EndUpdate, ControlTypes, ChangeGranted,
         AfterChange, LockValues,
         Places, HandlerPcs
    <2>2. QED
      BY <2>1 DEF EndUpdate
  <1>3. SkipUpdate(p) => TypeOK'
    BY DEF SkipUpdate
  <1>4. Lookup(p) => TypeOK'
    <2>1. Lookup(p) => ControlTypes' /\ CallLockTypes'
      BY TypeParts, SetType, SlotRange DEF Lookup, Matching, OpenSlots, Slots,
         CallLockTypes, LockRefused
    <2>2. QED
      BY <2>1 DEF Lookup
  <1>5. CreateCall(p) => TypeOK'
    <2>1. CreateCall(p) => IdTypes' /\ CallLockTypes' /\ RowTypes'
      BY ReleaseType, RowOperatorTypes, JobType DEF CreateCall, IdTypes, CallLockTypes, RowTypes
    <2>2. QED
      BY <2>1 DEF CreateCall
  <1>6. InviteRefuse(p) => TypeOK'
    BY DEF InviteRefuse, Handles
  <1>7. InviteOffer(p) => TypeOK'
    <2>1. InviteOffer(p) => RtpTypes'
      BY DEF InviteOffer, RtpTypes
    <2>2. QED
      BY <2>1 DEF InviteOffer
  <1>8. InviteTransaction(p) => TypeOK'
    <2>1. InviteTransaction(p) => TranTypes' /\ TmTypes'
      BY DEF InviteTransaction, TranTypes, TmTypes, Transactions
    <2>2. QED
      BY <2>1 DEF InviteTransaction
  <1>9. InviteTrying(p) => TypeOK'
    BY DEF InviteTrying
  <1>10. InviteRing(p) => TypeOK'
    <2>1. InviteRing(p) => UaTypes'
      BY DEF InviteRing, UaTypes, UA_IDLE, UA_EARLY, UA_REFERRED
    <2>2. QED
      BY <2>1 DEF InviteRing
  <1>11. InvitePrack(p) => TypeOK'
    BY DEF InvitePrack
  <1>12. InviteWait(p) => TypeOK'
    BY DEF InviteWait
  <1>13. InviteCancelled(p) => TypeOK'
    BY DEF InviteCancelled
  <1>14. InviteAnswer(p) => TypeOK'
    <2>1. InviteAnswer(p) => UaTypes' /\ RtpTypes'
      BY DEF InviteAnswer, UaTypes, RtpTypes, UA_IDLE, UA_CONFIRMED,
         UA_REFERRED
    <2>2. QED
      BY <2>1 DEF InviteAnswer
  <1>15. InviteAccept(p) => TypeOK'
    BY DEF InviteAccept
  <1>16. QED
    BY <1>1, <1>2, <1>3, <1>4, <1>5, <1>6, <1>7, <1>8, <1>9, <1>10, <1>11, <1>12, <1>13, <1>14, <1>15

(* The handlers of the other SIP methods.                                  *)
LEMMA MethodTypes ==
    ASSUME TypeOK, ControlOK, NEW p \in Procs
    PROVE  /\ Ack(p) => TypeOK'
           /\ AckQueue(p) => TypeOK'
           /\ Prack(p) => TypeOK'
           /\ PrackReply(p) => TypeOK'
           /\ Bye(p) => TypeOK'
           /\ Cancel(p) => TypeOK'
           /\ Notify(p) => TypeOK'
           /\ NotifyRequeue(p) => TypeOK'
           /\ ReInvite(p) => TypeOK'
           /\ Deny(p) => TypeOK'
  <1> USE TypeParts, UnchangedTypes, WorkTyped, PlacesTyped, GotoType,
          GotoSlotType, FinishType, ReturnType, SetStateType, StatesAreTyped
  <1>1. Ack(p) => TypeOK'
    BY DEF Ack, Handles
  <1>2. AckQueue(p) => TypeOK'
    <2>1. AckQueue(p) => TranTypes'
      BY DEF AckQueue, TranTypes
    <2>2. QED
      BY <2>1 DEF AckQueue
  <1>3. Prack(p) => TypeOK'
    BY DEF Prack, Handles
  <1>4. PrackReply(p) => TypeOK'
    BY DEF PrackReply
  <1>5. Bye(p) => TypeOK'
    <2>1. Bye(p) => RtpTypes'
      BY EndRTPType DEF Bye, RtpTypes, Handles
    <2>2. QED
      BY <2>1 DEF Bye
  <1>6. Cancel(p) => TypeOK'
    BY DEF Cancel, Handles
  <1>7. Notify(p) => TypeOK'
    BY DEF Notify, Handles
  <1>8. NotifyRequeue(p) => TypeOK'
    BY DEF NotifyRequeue
  <1>9. ReInvite(p) => TypeOK'
    BY DEF ReInvite, Handles
  <1>10. Deny(p) => TypeOK'
    BY DEF Deny, Handles
  <1>11. QED
    BY <1>1, <1>2, <1>3, <1>4, <1>5, <1>6, <1>7, <1>8, <1>9, <1>10

(* The ways out that the handlers share.                                   *)
LEMMA EndingTypes ==
    ASSUME TypeOK, ControlOK, NEW p \in Procs
    PROVE  /\ EndThenDelete(p) => TypeOK'
           /\ CloseCall(p) => TypeOK'
           /\ DeleteRow(p) => TypeOK'
           /\ FreeSlot(p) => TypeOK'
           /\ UpdateRow(p) => TypeOK'
  <1> USE TypeParts, UnchangedTypes, WorkTyped, PlacesTyped, GotoType,
          GotoSlotType, FinishType, ReturnType, SetStateType, StatesAreTyped
  <1>1. EndThenDelete(p) => TypeOK'
    <2>1. EndThenDelete(p) => RtpTypes'
      BY EndRTPType DEF EndThenDelete, RtpTypes
    <2>2. QED
      BY <2>1 DEF EndThenDelete
  <1>2. CloseCall(p) => TypeOK'
    <2>1. CloseCall(p) => RtpTypes' /\ TmTypes'
      BY EndRTPType DEF CloseCall, TmTypes, Transactions
    <2>2. QED
      BY <2>1 DEF CloseCall
  <1>3. DeleteRow(p) => TypeOK'
    <2>1. DeleteRow(p) => RowTypes' /\ TranTypes'
      BY RowOperatorTypes DEF DeleteRow, TranTypes, RowTypes
    <2>2. QED
      BY <2>1 DEF DeleteRow
  <1>4. FreeSlot(p) => TypeOK'
    BY DEF FreeSlot
  <1>5. UpdateRow(p) => TypeOK'
    <2>1. UpdateRow(p) => RowTypes'
      BY RowOperatorTypes DEF UpdateRow, NoRow
    <2>2. QED
      BY <2>1 DEF UpdateRow
  <1>6. QED
    BY <1>1, <1>2, <1>3, <1>4, <1>5

(* mohq_retrieve with refer_call, and the loop of drop_call.               *)
LEMMA TransferTypes ==
    ASSUME TypeOK, ControlOK, NEW p \in Procs
    PROVE  /\ DropScan(p) => TypeOK'
           /\ RetrieveScan(p) => TypeOK'
           /\ RetrievePick(p) => TypeOK'
           /\ EndScan(p) => TypeOK'
           /\ Refer(p) => TypeOK'
           /\ ReferUpdate(p) => TypeOK'
           /\ ReferSend(p) => TypeOK'
  <1> USE TypeParts, UnchangedTypes, WorkTyped, PlacesTyped, GotoType,
          GotoSlotType, FinishType, ReturnType, SetStateType, StatesAreTyped
  <1>1. DropScan(p) => TypeOK'
    <2>1. DropScan(p) => ControlTypes'
      BY SlotRange, JobType DEF DropScan, InTable, Places, ScanPcs
    <2>2. QED
      BY <2>1 DEF DropScan
  <1>2. RetrieveScan(p) => TypeOK'
    BY DEF RetrieveScan
  <1>3. RetrievePick(p) => TypeOK'
    <2>1. SUFFICES ASSUME RetrievePick(p) PROVE ControlTypes'
      BY DEF RetrievePick
    <2>2. PICK b \in {job[p].slot, job[p].best} :
            job' = [job EXCEPT ![p].slot = job[p].slot + 1, ![p].best = b]
      BY <2>1 DEF RetrievePick
    <2>3. job[p].slot \in Slots /\ job[p].slot + 1 \in 0..MaxCalls
      BY <2>1, SlotRange DEF RetrievePick
    <2>4. b \in -1..(MaxCalls - 1)
      BY <2>3, JobType, TableAssumption DEF Slots
    <2>5. [job[p] EXCEPT !.slot = job[p].slot + 1, !.best = b] \in Jobs
      BY <2>3, <2>4, JobType DEF Jobs
    <2>6. QED
      BY <2>1, <2>2, <2>5 DEF RetrievePick, ControlTypes
  <1>4. EndScan(p) => TypeOK'
    <2>1. EndScan(p) => ControlTypes' /\ CallLockTypes'
      BY SlotRange, JobType, ReleaseType DEF EndScan, CallLockTypes
    <2>2. QED
      BY <2>1 DEF EndScan
  <1>5. Refer(p) => TypeOK'
    <2>1. Refer(p) => CallLockTypes'
      BY ReleaseType DEF Refer, CallLockTypes
    <2>2. QED
      BY <2>1 DEF Refer
  <1>6. ReferUpdate(p) => TypeOK'
    <2>1. ReferUpdate(p) => CallLockTypes' /\ RowTypes'
      BY ReleaseType, RowOperatorTypes DEF ReferUpdate, CallLockTypes, RowTypes
    <2>2. QED
      BY <2>1 DEF ReferUpdate
  <1>7. ReferSend(p) => TypeOK'
    <2>1. ReferSend(p) => TmTypes' /\ UaTypes'
      BY DEF ReferSend, TmTypes, Transactions, UaTypes, UA_IDLE,
         UA_REFERRED
    <2>2. QED
      BY <2>1 DEF ReferSend
  <1>8. QED
    BY <1>1, <1>2, <1>3, <1>4, <1>5, <1>6, <1>7

(* What the outside starts: messages, script and RPC functions, callbacks. *)
LEMMA StimulusTypes ==
    ASSUME TypeOK, NEW p \in Procs
    PROVE  /\ \A op \in Ops, d \in Dialogs : StartMessage(p, op, d) => TypeOK'
           /\ \A op \in Ops, d \in Dialogs \cup {NoCall} : StartScan(p, op, d) => TypeOK'
           /\ RpcDebug(p) => TypeOK'
           /\ \A t \in tm : InviteCb(p, t) => TypeOK'
           /\ \A t \in tm : ReferCb(p, t) => TypeOK'
           /\ \A t \in tm : ByeCb(p, t) => TypeOK'
  <1> USE TypeParts, UnchangedTypes, PlacesTyped, SetStateType, StatesAreTyped
  <1>1. \A op \in Ops, d \in Dialogs : StartMessage(p, op, d) => TypeOK'
    <2> SUFFICES ASSUME NEW op \in Ops, NEW d \in Dialogs, StartMessage(p, op, d)
                 PROVE  TypeOK'
      OBVIOUS
    <2>1. [IdleJob EXCEPT !.op = op, !.dlg = d] \in Jobs
      BY IdleJobType DEF StartMessage, Jobs
    <2>2. ControlTypes'
      BY <2>1, SetType DEF StartMessage, ControlTypes
    <2>3. UaTypes'
      BY DEF StartMessage, UaTypes, UA_IDLE, UA_CALLING, UA_REFERRED
    <2>4. QED
      BY <2>2, <2>3 DEF StartMessage
  <1>2. \A op \in Ops, d \in Dialogs \cup {NoCall} : StartScan(p, op, d) => TypeOK'
    <2> SUFFICES ASSUME NEW op \in Ops, NEW d \in Dialogs \cup {NoCall},
                        StartScan(p, op, d)
                 PROVE  TypeOK'
      OBVIOUS
    <2>1. [IdleJob EXCEPT !.op = op, !.dlg = d] \in Jobs
      BY IdleJobType DEF StartScan, Jobs
    <2>2. ControlTypes' /\ CallLockTypes'
      BY <2>1, SetType DEF StartScan, ControlTypes, CallLockTypes
    <2>3. QED
      BY <2>2 DEF StartScan
  <1>3. RpcDebug(p) => TypeOK'
    <2>1. RpcDebug(p) => ControlTypes' /\ CallLockTypes'
      BY SetType, ReleaseType DEF RpcDebug, ControlTypes, CallLockTypes
    <2>2. QED
      BY <2>1 DEF RpcDebug
  <1>4. ASSUME NEW t \in tm
        PROVE  /\ t.slot \in Slots
               /\ \A op \in Callbacks, label \in Places :
                    Continue(p, t, op, label) => ControlTypes'
    <2>1. t.slot \in Slots /\ t.slot \in 0..MaxCalls /\ t.dlg \in Dialogs \cup {NoCall}
      BY SlotRange DEF TmTypes, Transactions
    <2>2. \A op \in Callbacks :
            [IdleJob EXCEPT !.op = op, !.slot = t.slot, !.dlg = t.dlg] \in Jobs
      BY <2>1, IdleJobType DEF Jobs
    <2>3. QED
      BY <2>1, <2>2 DEF Continue, ControlTypes
  <1>5. {"invite_cb", "refer_cb", "bye_cb"} \subseteq Callbacks
    BY DEF Callbacks
  <1>6. \A t \in tm : tm' = tm \ {t} => TmTypes'
    BY DEF TmTypes
  <1>7. \A t \in tm : InviteCb(p, t) => TypeOK'
    <2>1. \A t \in tm : InviteCb(p, t) => TranTypes'
      BY DEF InviteCb, TranTypes
    <2>2. QED
      BY <1>4, <1>5, <1>6, <2>1 DEF InviteCb
  <1>8. \A t \in tm : ReferCb(p, t) => TypeOK'
    BY <1>4, <1>5, <1>6 DEF ReferCb
  <1>9. \A t \in tm : ByeCb(p, t) => TypeOK'
    BY <1>4, <1>5, <1>6 DEF ByeCb
  <1>10. QED
    BY <1>1, <1>2, <1>3, <1>7, <1>8, <1>9

(* Every step keeps the types.                                             *)
LEMMA TypeStep ==
    ASSUME TypeOK, ControlOK, [Next]_vars
    PROVE  TypeOK'
  <1>1. CASE UNCHANGED vars
    BY <1>1, TypeParts, UnchangedTypes DEF vars, control, world
  <1>2. ASSUME NEW p \in Procs, Step(p) \/ Stimulus(p)
        PROVE  TypeOK'
    <2>1. CASE Step(p)
      BY <2>1, InviteTypes, MethodTypes, EndingTypes, TransferTypes
      DEF Step, MessageStep, TransferStep
    <2>2. CASE Stimulus(p)
      BY <2>2, StimulusTypes DEF Stimulus, Callback
    <2>3. QED
      BY <1>2, <2>1, <2>2
  <1>3. ASSUME NEW d \in Dialogs, SessionExpires(d)
        PROVE  TypeOK'
    <2>1. RtpTypes'
      BY <1>3, TypeParts DEF SessionExpires, RtpTypes
    <2>2. QED
      BY <1>3, <2>1, TypeParts, UnchangedTypes DEF SessionExpires
  <1>4. QED
    BY <1>1, <1>2, <1>3 DEF Next
=============================================================================
