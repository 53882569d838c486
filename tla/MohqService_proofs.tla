------------------------- MODULE MohqService_proofs -------------------------
(* What the handlers are worth to others while their work does not         *)
(* overlap: the status table that other programs read tells which calls    *)
(* there are and how far each has got, and who waits hears music.          *)
EXTENDS MohqSerial_proofs

(* A call of which the status table has a row: delete_call deletes the row *)
(* before it frees the slot.                                               *)
Kept(s) == Active(s) /\ ~\E p \in Procs : pc[p] = "free" /\ job[p].slot = s

RowsListed ==
    \A d \in Dialogs : db[d] = NoRow <=> \A s \in Slots : Kept(s) => call_id[s] # d

(* A call whose row is up to date: not one that is being told BYE, or for  *)
(* which update_call_rec is about to be called.                            *)
Settled(s) ==
    /\ Kept(s) /\ call_state[s] \notin {CLSTA_BYE, CLSTA_BYEOK}
    /\ ~\E p \in Procs : pc[p] \in {"upd", "refer_upd"} /\ job[p].slot = s

RowsSay == \A s \in Slots : Settled(s) => db[call_id[s]] = call_state[s] \div 100

(* delete_call is not called with the lock of the calls held shared.       *)
NoLoopDeletes == \A p \in Procs : pc[p] \in {"end", "del", "free"} => job[p].op \notin Scans

RowsInv == RowsListed /\ RowsSay /\ NoLoopDeletes

-----------------------------------------------------------------------------
(* mohq_process up to the handler does not lead beyond it.                 *)
LEMMA LookupLeads ==
    ASSUME TypeOK, NEW p \in Procs
    PROVE  /\ BeginUpdate(p) \/ EndUpdate(p) \/ SkipUpdate(p) => pc'[p] \in {"update", "lookup"}
           /\ Lookup(p) => pc'[p] \in {"handle", "create", "idle"}
           /\ \A op \in Ops, d \in Dialogs : StartMessage(p, op, d) => pc'[p] = "enter"
  <1>1. ControlTypes
    BY TypeParts
  <1>2. BeginUpdate(p) \/ EndUpdate(p) \/ SkipUpdate(p) => pc'[p] \in {"update", "lookup"}
    BY <1>1, WhereTo DEF BeginUpdate, EndUpdate, SkipUpdate, ControlTypes
  <1>3. ASSUME NEW label, NEW s, GotoSlot(p, label, s) PROVE pc'[p] = label
    BY <1>1, <1>3, WhereToSlot
  <1>4. ASSUME Lookup(p) PROVE pc'[p] \in {"handle", "create", "idle"}
    <2>1. \/ Finish(p)
          \/ \E s \in Slots : GotoSlot(p, "handle", s)
          \/ \E s \in Slots : GotoSlot(p, "create", s)
      BY <1>4 DEF Lookup, Matching, OpenSlots
    <2>2. QED
      BY <1>1, <1>3, <2>1, WhereTo
  <1>5. \A op \in Ops, d \in Dialogs : StartMessage(p, op, d) => pc'[p] = "enter"
    BY <1>1 DEF StartMessage, ControlTypes
  <1>6. QED
    BY <1>2, <1>4, <1>5

(* The places where rows change are those of the actions that change them. *)
LEMMA RowPlaces ==
    ASSUME TypeOK, ControlOK, NEW p \in Procs, Step(p) \/ Stimulus(p)
    PROVE  /\ pc[p] = "del" => DeleteRow(p)
           /\ pc[p] = "free" => FreeSlot(p)
           /\ pc[p] = "upd" => UpdateRow(p)
           /\ pc[p] = "refer_upd" => ReferUpdate(p)
           /\ pc'[p] = "free" => DeleteRow(p)
  <1>1. ControlTypes
    BY TypeParts
  <1>2. pc[p] \in {"del", "free", "upd", "refer_upd"}
        => DeleteRow(p) \/ FreeSlot(p) \/ UpdateRow(p) \/ ReferUpdate(p)
    <2>1. ASSUME pc[p] \in {"del", "free", "upd", "refer_upd"} PROVE ~MessageStep(p)
      BY <2>1
      DEF MessageStep, BeginUpdate, EndUpdate, SkipUpdate, Lookup, CreateCall,
          InviteRefuse, InviteOffer, InviteTransaction, InviteTrying, InviteRing,
          InvitePrack, InviteWait, InviteCancelled, InviteAnswer, InviteAccept,
          Ack, AckQueue, Prack, PrackReply, Bye, Cancel, Notify, NotifyRequeue,
          ReInvite, Deny, Handles
    <2>2. ASSUME pc[p] \in {"del", "free", "upd", "refer_upd"}, TransferStep(p) PROVE ReferUpdate(p)
      BY <2>2
      DEF TransferStep, DropScan, RetrieveScan, RetrievePick, EndScan, Refer, ReferSend
    <2>3. ASSUME pc[p] \in {"del", "free", "upd", "refer_upd"} PROVE ~Stimulus(p)
      BY <2>3
      DEF Stimulus, StartMessage, StartScan, RpcDebug, Callback, InviteCb, ReferCb, ByeCb
    <2>4. ASSUME pc[p] \in {"del", "free", "upd", "refer_upd"}
          PROVE  ~EndThenDelete(p) /\ ~CloseCall(p)
      BY <2>4 DEF EndThenDelete, CloseCall
    <2>5. QED
      BY <2>1, <2>2, <2>3, <2>4 DEF Step
  <1>3. /\ DeleteRow(p) => pc[p] = "del"
        /\ FreeSlot(p) => pc[p] = "free"
    BY DEF DeleteRow, FreeSlot
  <1>4. UpdateRow(p) => pc[p] = "upd"
    BY DEF UpdateRow
  <1>5. ReferUpdate(p) => pc[p] = "refer_upd"
    BY DEF ReferUpdate
  <1>6. ASSUME pc'[p] = "free" PROVE DeleteRow(p)
    <2>1. ~MessageWork(p)
      <3>1. MessageWork(p) => Finish(p) \/ \E label \in Working \ {"free"} : Goto(p, label)
        BY WorkingPlaces
        DEF MessageWork, InviteRefuse, InviteOffer, InviteTransaction, InviteTrying,
            InviteRing, InvitePrack, InviteWait, InviteCancelled, InviteAnswer,
            InviteAccept, Ack, AckQueue, Prack, PrackReply, Bye, Cancel, Notify,
            NotifyRequeue, ReInvite, Deny
      <3>2. QED
        BY <1>1, <1>6, <3>1, WhereTo
    <2>2. ~BeginUpdate(p) /\ ~EndUpdate(p) /\ ~SkipUpdate(p) /\ ~Lookup(p)
      BY <1>6, LookupLeads
    <2>4. ~CreateCall(p) /\ ~TransferStep(p) /\ ~Callback(p) /\ ~RpcDebug(p)
      BY <1>6, WhereStepsLead
    <2>5. \A op \in Ops, d \in Dialogs \cup {NoCall} : ~StartScan(p, op, d)
      BY <1>6, WhereStepsLead
    <2>6. \A op \in Ops, d \in Dialogs : ~StartMessage(p, op, d)
      BY <1>6, LookupLeads
    <2>7. ~EndThenDelete(p) /\ ~CloseCall(p) /\ ~FreeSlot(p) /\ ~UpdateRow(p)
      <3>1. ~Return(p)
        <4>1. ~GotoSlot(p, "scan", job[p].slot + 1)
          BY <1>1, <1>6, WhereToSlot
        <4>2. QED
          BY <1>1, <1>6, <4>1, WhereTo DEF Return
      <3>2. QED
        BY <1>1, <1>6, <3>1, WhereTo DEF EndThenDelete, CloseCall, FreeSlot, UpdateRow
    <2>8. ~Stimulus(p)
      BY <2>4, <2>5, <2>6 DEF Stimulus
    <2>9. QED
      BY <2>1, <2>2, <2>4, <2>7, <2>8, Zenon DEF Step, MessageStep, MessageWork
  <1>7. QED
    BY <1>2, <1>3, <1>4, <1>5, <1>6

(* What is kept and settled before and after a step is up to its process:  *)
(* all others are at rest.                                                 *)
LEMMA KeptBy ==
    ASSUME Overlap = FALSE, TypeOK, ControlOK, OneAtWork,
           NEW p \in Procs, Step(p) \/ Stimulus(p), NEW s \in Slots
    PROVE  /\ Kept(s) <=> Active(s) /\ ~(pc[p] = "free" /\ job[p].slot = s)
           /\ Kept(s)' <=> Active(s)' /\ ~(pc'[p] = "free" /\ job'[p].slot = s)
           /\ Settled(s) <=>
                /\ Kept(s) /\ call_state[s] \notin {CLSTA_BYE, CLSTA_BYEOK}
                /\ ~(pc[p] \in {"upd", "refer_upd"} /\ job[p].slot = s)
           /\ Settled(s)' <=>
                /\ Kept(s)' /\ call_state'[s] \notin {CLSTA_BYE, CLSTA_BYEOK}
                /\ ~(pc'[p] \in {"upd", "refer_upd"} /\ job'[p].slot = s)
  <1>1. \A q \in Procs \ {p} : AtRest(q) /\ pc'[q] = pc[q] /\ job'[q] = job[q]
    BY OneAtWorkStep
  <1>2. QED
    BY <1>1 DEF Kept, Settled, AtRest

(* The first digit of a state.                                             *)
LEMMA StatusNumbers ==
    /\ \A state \in CallStates : state \in 1..(CLSTA_INQUEUE - 1) => state \div 100 = 1
    /\ CLSTA_ENTER \div 100 = 1 /\ CLSTA_REFER \div 100 = CLSTA_RFRWAIT \div 100
    /\ \A state \in CallStates : state \div 100 # NoRow
  BY DEF CallStates, CLSTA_ENTER, CLSTA_TRYING, CLSTA_PRACKSTRT,
         CLSTA_PRACKRPLY, CLSTA_INVITED, CLSTA_CANCEL, CLSTA_INQUEUE,
         CLSTA_REFER, CLSTA_RFRWAIT, CLSTA_BYEOK, CLSTA_BYE, NoRow

(* No loop runs into delete_call: close_call succeeds.                     *)
LEMMA NoLoopDeletesStep ==
    ASSUME TypeOK, ControlOK, NoLoopDeletes, NEW p \in Procs, Step(p) \/ Stimulus(p),
           "tm" \notin Faults, "mem" \notin Faults,
           pc'[p] \in {"end", "del", "free"}
    PROVE  job'[p].op \notin Scans
  <1>1. ControlTypes
    BY TypeParts
  <1>2. ~Finish(p)
    BY <1>1, WhereTo
  <1>3. ASSUME NEW label, NEW s, GotoSlot(p, label, s) PROVE label \in {"end", "del", "free"}
    BY <1>1, <1>3, WhereToSlot
  <1>4. ~Return(p)
    <2>1. ~GotoSlot(p, "scan", job[p].slot + 1)
      BY <1>3
    <2>2. QED
      BY <1>1, <1>2, <2>1, WhereTo DEF Return
  <1>5. CASE MessageWork(p)
    <2>1. pc[p] \in HandlerPcs /\ \E label : Goto(p, label)
      <3>1. pc[p] \in HandlerPcs
        BY <1>5 DEF MessageWork, InviteRefuse, InviteOffer, InviteTransaction, InviteTrying,
           InviteRing, InvitePrack, InviteWait, InviteCancelled, InviteAnswer,
           InviteAccept, Ack, AckQueue, Prack, PrackReply, Bye, Cancel, Notify,
           NotifyRequeue, ReInvite, Deny, Handles, HandlerPcs
      <3>2. MessageWork(p) => Finish(p) \/ \E label \in Working : Goto(p, label)
        BY WorkingPlaces
        DEF MessageWork, InviteRefuse, InviteOffer, InviteTransaction, InviteTrying,
            InviteRing, InvitePrack, InviteWait, InviteCancelled, InviteAnswer,
            InviteAccept, Ack, AckQueue, Prack, PrackReply, Bye, Cancel, Notify,
            NotifyRequeue, ReInvite, Deny
      <3>3. QED
        BY <1>2, <1>5, <3>1, <3>2
    <2>2. QED
      BY <1>1, <2>1, WhereTo, KindsApart, Readable
  <1>6. CASE EndThenDelete(p) \/ DeleteRow(p)
    BY <1>1, <1>6, WhereTo DEF EndThenDelete, DeleteRow, NoLoopDeletes
  <1>7. ~CloseCall(p) /\ ~FreeSlot(p) /\ ~UpdateRow(p)
    BY <1>2, <1>4 DEF CloseCall, FreeSlot, UpdateRow
  <1>8. ~BeginUpdate(p) /\ ~EndUpdate(p) /\ ~SkipUpdate(p) /\ ~Lookup(p)
    BY LookupLeads
  <1>9. ~CreateCall(p) /\ ~TransferStep(p) /\ ~RpcDebug(p)
    BY WhereStepsLead
  <1>10. CASE Stimulus(p)
    <2>1. \A op \in Ops, d \in Dialogs \cup {NoCall} : ~StartScan(p, op, d)
      BY WhereStepsLead
    <2>2. \A op \in Ops, d \in Dialogs : ~StartMessage(p, op, d)
      BY LookupLeads
    <2>3. PICK t \in tm : InviteCb(p, t) \/ ReferCb(p, t) \/ ByeCb(p, t)
      BY <1>9, <1>10, <2>1, <2>2 DEF Stimulus, Callback
    <2>4. ~UNCHANGED control
      BY <2>3 DEF InviteCb, ReferCb, ByeCb, control
    <2>5. \E op \in Callbacks : \E label : Continue(p, t, op, label)
      BY <2>3, <2>4 DEF InviteCb, ReferCb, ByeCb, Callbacks
    <2>6. job'[p].op \in Callbacks
      BY <1>1, <2>5 DEF Continue, ControlTypes, IdleJob
    <2>7. QED
      BY <2>6, KindsApart
  <1>11. QED
    BY <1>5, <1>6, <1>7, <1>8, <1>9, <1>10, Zenon DEF Step, MessageStep, MessageWork

(* A process that deletes a row gets the lock: nobody else holds it.       *)
LEMMA DeleteIsGranted ==
    ASSUME Overlap = FALSE, TypeOK, ControlOK, OneAtWork, LocksBalanced, NoLoopDeletes,
           NEW p \in Procs, DeleteRow(p)
    PROVE  ~LockRefused
  <1>1. pc[p] = "del" /\ job[p].op \notin Scans
    BY DEF DeleteRow, NoLoopDeletes
  <1>2. \A q \in Procs \ {p} : pc[q] \in {"idle", "inv_wait"}
    BY OthersRest DEF Step, AtRest
  <1>3. \A q \in Procs : ~HoldsCallsShared(q) /\ ~HoldsCallsExcl(q)
    <2>1. ~HoldsCallsShared(p) /\ ~HoldsCallsExcl(p)
      BY <1>1 DEF HoldsCallsShared, HoldsCallsExcl
    <2>2. \A q \in Procs \ {p} : job[q].op \notin Scans
      BY <1>2, KindsApart DEF ControlOK, HandlerPcs
    <2>3. QED
      BY <1>2, <2>1, <2>2 DEF HoldsCallsShared, HoldsCallsExcl
  <1>4. CallReaders = {} /\ CallWriters = {}
    BY <1>3 DEF CallReaders, CallWriters
  <1>5. pcall_lock = 0
    BY <1>4, FS_EmptySet DEF LocksBalanced
  <1>6. QED
    BY <1>5 DEF LockRefused, SetGranted

(* A new call has its row, with the status of a call that enters.          *)
LEMMA RowsAfterCreate ==
    ASSUME Overlap = FALSE, TypeOK, ControlOK, SerialInv, RowsListed, RowsSay,
           "db" \notin Faults, "mem" \notin Faults, NEW p \in Procs, CreateCall(p)
    PROVE  RowsListed' /\ RowsSay'
  <1>1. Step(p)
    BY DEF Step, MessageStep
  <1>2. /\ pc[p] = "create" /\ job[p].slot \in Slots /\ job[p].dlg \in Dialogs
        /\ ~Active(job[p].slot) /\ \A s \in Slots : Active(s) => call_id[s] # job[p].dlg
    BY Readable, WorkingPlaces DEF CreateCall, SerialInv, Informed, SlotFresh, CallerKnown
  <1>3. SetState(job[p].slot, CLSTA_ENTER) /\ RowInserted(job[p].dlg) /\ Goto(p, "handle")
    BY DEF CreateCall, NoConnection
  <1>4. pc'[p] = "handle" /\ job'[p] = job[p]
    BY <1>3, Readable, WhereTo
  <1>5. PICK slot \in Slots, d0 \in Dialogs : slot = job[p].slot /\ d0 = job[p].dlg
    BY <1>2
  <1>6. /\ call_id'[slot] = d0 /\ \A s \in Slots \ {slot} : call_id'[s] = call_id[s]
        /\ call_state'[slot] = CLSTA_ENTER
        /\ \A s \in Slots \ {slot} : call_state'[s] = call_state[s]
        /\ db'[d0] = 1 /\ \A d \in Dialogs \ {d0} : db'[d] = db[d]
    <2>1. IdTypes /\ StateTypes /\ RowTypes
      BY TypeParts
    <2>2. QED
      BY <1>2, <1>3, <1>5, <2>1, StateStored, StatusNumbers
      DEF CreateCall, IdTypes, RowTypes, RowInserted
  <1>7. /\ Kept(slot)' /\ ~Kept(slot)
        /\ \A s \in Slots \ {slot} : (Kept(s)' <=> Kept(s)) /\ (Settled(s)' <=> Settled(s))
    <2>1. ASSUME NEW s \in Slots
          PROVE  /\ Kept(s) <=> Active(s)
                 /\ Kept(s)' <=> Active(s)'
                 /\ Settled(s) <=> Kept(s) /\ call_state[s] \notin {CLSTA_BYE, CLSTA_BYEOK}
                 /\ Settled(s)' <=> Kept(s)' /\ call_state'[s] \notin {CLSTA_BYE, CLSTA_BYEOK}
      BY <1>1, <1>2, <1>4, KeptBy DEF SerialInv
    <2>2. \A s \in Slots \ {slot} : Active(s)' <=> Active(s)
      BY <1>6 DEF Active
    <2>3. Active(slot)' /\ ~Active(slot)
      BY <1>2, <1>5, <1>6, StateNumbers DEF Active
    <2>4. QED
      BY <1>6, <2>1, <2>2, <2>3
  <1>8. RowsListed'
    <2>1. ASSUME NEW d \in Dialogs
          PROVE  db'[d] = NoRow <=> \A s \in Slots : Kept(s)' => call_id'[s] # d
      BY <1>6, <1>7 DEF RowsListed, NoRow
    <2>2. QED
      BY <2>1 DEF RowsListed
  <1>9. RowsSay'
    <2>1. ASSUME NEW s \in Slots, Settled(s)'
          PROVE  db'[call_id'[s]] = call_state'[s] \div 100
      <3>1. CASE s = slot
        BY <1>6, <3>1, StatusNumbers
      <3>2. CASE s # slot
        <4>1. Settled(s) /\ Active(s)
          BY <1>7, <2>1, <3>2 DEF Settled, Kept
        <4>2. call_id[s] \in Dialogs /\ call_id[s] # d0
          BY <1>2, <1>5, <4>1 DEF SerialInv, CallsNamed
        <4>3. QED
          BY <1>6, <3>2, <4>1, <4>2 DEF RowsSay
      <3>3. QED
        BY <3>1, <3>2
    <2>2. QED
      BY <2>1 DEF RowsSay
  <1>10. QED
    BY <1>8, <1>9

(* delete_call takes the row of its call and of no other.                  *)
LEMMA RowsAfterDelete ==
    ASSUME Overlap = FALSE, TypeOK, ControlOK, SerialInv, OnceInv, LocksBalanced,
           RowsListed, RowsSay, NoLoopDeletes,
           "db" \notin Faults, NEW p \in Procs, DeleteRow(p)
    PROVE  RowsListed' /\ RowsSay'
  <1>1. Step(p) /\ ControlTypes
    BY TypeParts DEF Step
  <1>2. pc[p] = "del" /\ job[p].slot \in Slots /\ pc'[p] = "free" /\ job'[p] = job[p]
    BY <1>1, WhereTo, Readable DEF DeleteRow
  <1> DEFINE slot == job[p].slot
             d0 == call_id[slot]
  <1>3. UNCHANGED <<call_state, call_id>> /\ RowDeleted(d0)
    BY DeleteIsGranted DEF DeleteRow, NoConnection, SerialInv
  <1>4. \A d \in Dialogs : db'[d] = IF d = d0 THEN NoRow ELSE db[d]
    BY <1>3 DEF RowDeleted
  <1>5. \A s \in Slots : /\ Kept(s)' <=> Kept(s) /\ s # slot
                         /\ Settled(s)' <=> Settled(s) /\ s # slot
    <2>1. ASSUME NEW s \in Slots
          PROVE  /\ Kept(s) <=> Active(s)
                 /\ Kept(s)' <=> Active(s)' /\ s # slot
                 /\ Settled(s) <=> Kept(s) /\ call_state[s] \notin {CLSTA_BYE, CLSTA_BYEOK}
                 /\ Settled(s)' <=> Kept(s)' /\ call_state'[s] \notin {CLSTA_BYE, CLSTA_BYEOK}
      BY <1>1, <1>2, KeptBy DEF SerialInv
    <2>2. QED
      BY <1>3, <2>1 DEF Active
  <1>6. \A s \in Slots \ {slot} : d0 # NoCall => call_id[s] # d0
    BY <1>2 DEF OnceInv, OnlySlot
  <1> HIDE DEF slot, d0
  <1>7. slot \in Slots /\ call_id[slot] = d0
    BY <1>2 DEF slot, d0
  <1>8. \A d \in Dialogs : d # NoCall
    BY TableAssumption
  <1>9. RowsListed'
    <2>1. ASSUME NEW d \in Dialogs
          PROVE  db'[d] = NoRow <=> \A s \in Slots : Kept(s)' => call_id'[s] # d
      BY <1>3, <1>4, <1>5, <1>6, <1>7, <1>8 DEF RowsListed
    <2>2. QED
      BY <2>1 DEF RowsListed
  <1>10. RowsSay'
    <2>1. ASSUME NEW s \in Slots, Settled(s)'
          PROVE  db'[call_id'[s]] = call_state'[s] \div 100
      <3>1. Settled(s) /\ Active(s) /\ s # slot
        BY <1>5, <2>1 DEF Settled, Kept
      <3>2. call_id[s] \in Dialogs /\ call_id[s] # d0
        BY <1>6, <1>8, <3>1 DEF SerialInv, CallsNamed
      <3>3. QED
        BY <1>3, <1>4, <3>1, <3>2 DEF RowsSay
    <2>2. QED
      BY <2>1 DEF RowsSay
  <1>11. QED
    BY <1>9, <1>10

(* update_call_rec brings the row of its call up to date, if there is one. *)
LEMMA RowsAfterUpdate ==
    ASSUME Overlap = FALSE, TypeOK, ControlOK, SerialInv, OnceInv,
           RowsListed, RowsSay, "db" \notin Faults,
           NEW p \in Procs, UpdateRow(p) \/ ReferUpdate(p)
    PROVE  RowsListed' /\ RowsSay'
  <1>1. Step(p) /\ ControlTypes
    BY TypeParts DEF Step, TransferStep
  <1>2. pc[p] \in {"upd", "refer_upd"} /\ job[p].slot \in Slots
    BY Readable DEF UpdateRow, ReferUpdate
  <1>3. pc'[p] \in {"idle", "refer_send"}
    BY <1>1, WhereTo DEF UpdateRow, ReferUpdate
  <1> DEFINE slot == job[p].slot
             d0 == call_id[slot]
  <1>4. UNCHANGED <<call_state, call_id>> /\ RowUpdated(d0, call_state[slot])
    BY DEF UpdateRow, ReferUpdate, NoConnection, table
  <1>5. \A d \in Dialogs : db'[d] = IF d = d0 /\ db[d] # NoRow THEN call_state[slot] \div 100
                                                              ELSE db[d]
    BY <1>4 DEF RowUpdated
  <1>6. \A s \in Slots : /\ Kept(s)' <=> Kept(s)
                         /\ s # slot => (Settled(s)' <=> Settled(s))
    <2>1. ASSUME NEW s \in Slots
          PROVE  /\ Kept(s) <=> Active(s)
                 /\ Kept(s)' <=> Active(s)'
                 /\ s # slot =>
                    (Settled(s) <=> Kept(s) /\ call_state[s] \notin {CLSTA_BYE, CLSTA_BYEOK})
                 /\ Settled(s)' <=> Kept(s)' /\ call_state'[s] \notin {CLSTA_BYE, CLSTA_BYEOK}
      BY <1>1, <1>2, <1>3, KeptBy DEF SerialInv
    <2>2. QED
      BY <1>4, <2>1 DEF Active
  <1>7. \A s \in Slots \ {slot} : d0 # NoCall => call_id[s] # d0
    BY <1>2 DEF OnceInv, OnlySlot
  <1>8. call_state[slot] \in CallStates
    BY <1>2, Readable
  <1> HIDE DEF slot, d0
  <1>9. slot \in Slots /\ call_id[slot] = d0
    BY <1>2 DEF slot, d0
  <1>10. \A d \in Dialogs : d # NoCall /\ (db'[d] = NoRow <=> db[d] = NoRow)
    BY <1>5, <1>8, StatusNumbers, TableAssumption
  <1>11. RowsListed'
    <2>1. ASSUME NEW d \in Dialogs
          PROVE  db'[d] = NoRow <=> \A s \in Slots : Kept(s)' => call_id'[s] # d
      BY <1>4, <1>6, <1>10 DEF RowsListed
    <2>2. QED
      BY <2>1 DEF RowsListed
  <1>12. RowsSay'
    <2>1. ASSUME NEW s \in Slots, Settled(s)'
          PROVE  db'[call_id'[s]] = call_state'[s] \div 100
      <3>1. Kept(s) /\ Active(s) /\ call_id[s] \in Dialogs
        BY <1>6, <2>1 DEF Settled, Kept, SerialInv, CallsNamed
      <3>2. db[call_id[s]] # NoRow
        BY <3>1 DEF RowsListed
      <3>3. CASE s = slot
        BY <1>4, <1>5, <1>9, <3>1, <3>2, <3>3
      <3>4. CASE s # slot
        <4>1. Settled(s) /\ call_id[s] # d0
          BY <1>6, <1>7, <1>10, <2>1, <3>1, <3>4
        <4>2. QED
          BY <1>4, <1>5, <3>1, <4>1 DEF RowsSay
      <3>5. QED
        BY <3>3, <3>4
    <2>2. QED
      BY <2>1 DEF RowsSay
  <1>13. QED
    BY <1>11, <1>12

(* A freed slot was not kept any more, and every other step changes no row *)
(* and no status, or leaves the process about to update it.                *)
LEMMA RowsAfterOthers ==
    ASSUME Overlap = FALSE, TypeOK, ControlOK, SerialInv, RowsListed, RowsSay,
           NEW p \in Procs, Step(p) \/ Stimulus(p), UNCHANGED <<call_id, db>>,
           ~CreateCall(p), ~DeleteRow(p), ~UpdateRow(p), ~ReferUpdate(p)
    PROVE  RowsListed' /\ RowsSay'
  <1>1. /\ StateTypes /\ ControlTypes /\ StateTypes'
    <2>1. TypeOK'
      BY TypeStep DEF Next
    <2>2. QED
      BY <2>1, TypeParts DEF TypeOK, StateTypes
  <1>2. \A s \in Slots : call_state[s] \in CallStates /\ call_state'[s] \in CallStates
    BY <1>1 DEF StateTypes
  <1>3. /\ pc[p] \notin {"upd", "refer_upd"} /\ pc'[p] # "free"
        /\ pc[p] = "free" <=> FreeSlot(p)
    BY RowPlaces DEF FreeSlot
  <1>4. ASSUME NEW s \in Slots
        PROVE  /\ Kept(s)' <=> Kept(s)
               /\ Settled(s)' => Settled(s) /\ call_state'[s] \div 100 = call_state[s] \div 100
    <2>1. /\ Kept(s) <=> Active(s) /\ ~(FreeSlot(p) /\ job[p].slot = s)
          /\ Kept(s)' <=> Active(s)'
          /\ Settled(s) <=> Kept(s) /\ call_state[s] \notin {CLSTA_BYE, CLSTA_BYEOK}
          /\ Settled(s)' <=>
               /\ Kept(s)' /\ call_state'[s] \notin {CLSTA_BYE, CLSTA_BYEOK}
               /\ ~(pc'[p] \in {"upd", "refer_upd"} /\ job'[p].slot = s)
      BY <1>3, KeptBy DEF SerialInv
    <2>2. StateMove(p, s)
      BY StateMoves DEF SerialInv
    <2>3. CASE FreeSlot(p) /\ job[p].slot = s
      <3>1. s = job[p].slot /\ call_state'[s] = 0
        BY <1>1, <2>3, StateStored DEF FreeSlot
      <3>2. QED
        BY <2>1, <2>3, <3>1 DEF Active
    <2>4. CASE ~(FreeSlot(p) /\ job[p].slot = s)
      <3>1. CASE call_state'[s] = call_state[s]
        BY <2>1, <2>4, <3>1 DEF Active
      <3>2. CASE EntersStep(s)
        BY <1>2, <2>1, <2>4, <3>2, StateNumbers, StatusNumbers
        DEF EntersStep, Early, Active
      <3>3. CASE QueuedStep(p, s) \/ ReferredStep(p, s)
        BY <2>1, <2>4, <3>3, StateNumbers DEF QueuedStep, ReferredStep, Early, Active
      <3>4. CASE AcceptedStep(s)
        BY <2>1, <2>4, <3>4, StateNumbers, StatusNumbers DEF AcceptedStep, Active
      <3>5. CASE EndingStep(p, s)
        BY <2>1, <2>4, <3>5, StateNumbers DEF EndingStep, Active
      <3>6. QED
        BY <2>2, <2>4, <3>1, <3>2, <3>3, <3>4, <3>5 DEF StateMove, FreedStep
    <2>5. QED
      BY <2>3, <2>4
  <1>5. RowsListed'
    BY <1>4 DEF RowsListed
  <1>6. RowsSay'
    BY <1>4 DEF RowsSay
  <1>7. QED
    BY <1>5, <1>6

(* Every step leaves the rows as they should be.                           *)
LEMMA RowsStep ==
    ASSUME Overlap = FALSE, Faults \cap {"db", "tm", "mem", "leak", "resend"} = {},
           TypeOK, ControlOK, SerialInv, OnceInv, LocksBalanced, RowsInv, [Next]_vars
    PROVE  RowsInv'
  <1>1. CASE UNCHANGED vars
    BY <1>1 DEF vars, table, world, RowsInv, RowsListed, RowsSay, NoLoopDeletes, Kept, Settled, Active
  <1>2. ASSUME NEW d \in Dialogs, SessionExpires(d)
        PROVE  RowsInv'
    BY <1>2
    DEF SessionExpires, table, control, RowsInv, RowsListed, RowsSay, NoLoopDeletes, Kept,
        Settled, Active
  <1>3. ASSUME NEW p \in Procs, Step(p) \/ Stimulus(p)
        PROVE  RowsInv'
    <2>1. NoLoopDeletes'
      <3>1. pc'[p] \in {"end", "del", "free"} => job'[p].op \notin Scans
        BY <1>3, NoLoopDeletesStep DEF RowsInv
      <3>2. \A q \in Procs \ {p} : pc'[q] \in {"idle", "inv_wait"}
        BY <1>3, OneAtWorkStep DEF SerialInv, AtRest
      <3>3. QED
        BY <3>1, <3>2 DEF NoLoopDeletes
    <2>2. RowsListed' /\ RowsSay'
      <3>1. CASE CreateCall(p)
        BY <3>1, RowsAfterCreate DEF RowsInv
      <3>2. CASE DeleteRow(p)
        BY <3>2, RowsAfterDelete DEF RowsInv
      <3>3. CASE UpdateRow(p) \/ ReferUpdate(p)
        BY <3>3, RowsAfterUpdate DEF RowsInv
      <3>4. CASE ~CreateCall(p) /\ ~DeleteRow(p) /\ ~UpdateRow(p) /\ ~ReferUpdate(p)
        BY <1>3, <3>4, TableWriters, RowsAfterOthers DEF RowsInv
      <3>5. QED
        BY <3>1, <3>2, <3>3, <3>4
    <2>3. QED
      BY <2>1, <2>2 DEF RowsInv
  <1>4. QED
    BY <1>1, <1>2, <1>3 DEF Next

(* At first there are no calls and no rows.                                *)
LEMMA RowsInit == Init => RowsInv
  <1> SUFFICES ASSUME Init PROVE RowsInv
    OBVIOUS
  <1>1. /\ \A s \in Slots : ~Kept(s)
        /\ \A d \in Dialogs : db[d] = NoRow
        /\ \A p \in Procs : pc[p] = "idle"
    BY DEF Init, Kept, Active
  <1>2. QED
    BY <1>1 DEF RowsInv, RowsListed, RowsSay, NoLoopDeletes, Settled

(* When no handler is at work, the rows are those of the calls, with the   *)
(* status of each.                                                         *)
LEMMA RowsSettled == RowsInv => StatusTableRight
  <1> SUFFICES ASSUME RowsInv, Quiet, NEW d \in Dialogs
               PROVE  /\ db[d] = NoRow <=> \A s \in Slots : Active(s) => call_id[s] # d
                      /\ \A s \in Slots :
                            /\ Active(s) /\ call_id[s] = d
                            /\ call_state[s] \notin {CLSTA_BYE, CLSTA_BYEOK}
                            => db[d] = call_state[s] \div 100
    BY DEF StatusTableRight
  <1>1. \A s \in Slots :
            /\ Kept(s) <=> Active(s)
            /\ Settled(s) <=> Active(s) /\ call_state[s] \notin {CLSTA_BYE, CLSTA_BYEOK}
    BY DEF Quiet, Kept, Settled
  <1>2. QED
    BY <1>1 DEF RowsInv, RowsListed, RowsSay

(* The status table is right about every call whenever no handler is at    *)
(* work, for any table, any callers and whatever they send, late           *)
(* transactions included. It needs the calls of the outside world to       *)
(* succeed: without a connection, or when close_call has to delete a call  *)
(* under the shared lock of a loop, the row stays; and when a caller       *)
(* repeats an INVITE whose first call is gone, the end of the old          *)
(* transaction takes the row of the new call.                              *)
THEOREM StatusTableIsRight ==
    ASSUME Overlap = FALSE, "debug" \notin Ops,
           Faults \cap {"db", "tm", "mem", "leak", "resend"} = {}
    PROVE  Spec => []StatusTableRight
  <1>1. TypeOK /\ ControlOK /\ SerialInv /\ OnceInv /\ LocksBalanced /\ RowsInv /\ [Next]_vars
        => RowsInv'
    BY RowsStep
  <1>2. "leak" \notin Faults /\ "resend" \notin Faults
    OBVIOUS
  <1>3. Spec => []LocksBalanced
    BY <1>2, LocksAreBalanced
  <1>4. Spec => [](SerialInv /\ OnceInv)
    BY <1>2, OnceInvariant
  <1>5. QED
    BY <1>1, <1>3, <1>4, RowsInit, RowsSettled, ControlInvariant, PTL DEF Spec

-----------------------------------------------------------------------------
(* A call that is being deleted.                                           *)
Going(s) == \E p \in Procs : pc[p] \in {"del", "free"} /\ job[p].slot = s

(* A call gets into the queue only after its caller has got the 200.       *)
Waits(s) == call_state[s] \in {CLSTA_INQUEUE, CLSTA_REFER, CLSTA_RFRWAIT}
Answered(s) == Waits(s) => ua[call_id[s]] >= UA_CONFIRMED

(* From the 200 on it hears music, until it is told BYE or deleted.        *)
Playing(s) ==
    /\ Active(s) /\ call_state[s] \notin {CLSTA_BYE, CLSTA_BYEOK} /\ ~Going(s)
    /\ ua[call_id[s]] >= UA_CONFIRMED
    => rtp[call_id[s]] = "playing"

(* What a handler knows of its caller: it offers RTP only to one that was  *)
(* not answered, and takes into the queue only one that was.               *)
CallerAt(p) ==
    /\ job[p].op = "INVITE" /\ pc[p] \in {"enter", "update", "lookup", "create", "handle"}
       => ua[job[p].dlg] < UA_CONFIRMED
    /\ job[p].op \in Messages /\ (job[p].op = "ACK" \/ pc[p] = "ack_queue")
       => ua[job[p].dlg] >= UA_CONFIRMED
    /\ job[p].op \in Messages /\ pc[p] \in {"handle", "ack_queue"}
       => call_id[job[p].slot] = job[p].dlg

CallersInv == \A p \in Procs : CallerAt(p)

MusicInv ==
    /\ \A s \in Slots : Answered(s) /\ Playing(s)
    /\ CallersInv

(* Who learns of an answer, and when: from send_rtp_answer. A caller that  *)
(* is sent a REFER has had its answer.                                     *)
LEMMA AnswersSpread ==
    ASSUME TypeOK, NEW p \in Procs, Step(p) \/ Stimulus(p), NEW d \in Dialogs
    PROVE  /\ ua[d] >= UA_CONFIRMED => ua'[d] >= UA_CONFIRMED
           /\ ua'[d] >= UA_CONFIRMED =>
                \/ ua[d] >= UA_CONFIRMED
                \/ InviteAnswer(p) /\ d = job[p].dlg /\ rtp'[d] = "playing"
                \/ ReferSend(p) /\ d = call_id[job[p].slot]
  <1>1. /\ UaTypes /\ RtpTypes /\ ua[d] \in 0..4
        /\ UA_IDLE = 0 /\ UA_CALLING = 1 /\ UA_EARLY = 2 /\ UA_CONFIRMED = 3 /\ UA_REFERRED = 4
    BY TypeParts DEF UaTypes, UA_IDLE, UA_CALLING, UA_EARLY, UA_CONFIRMED, UA_REFERRED
  <1> DEFINE Same == ua'[d] >= UA_CONFIRMED <=> ua[d] >= UA_CONFIRMED
  <1>2. UNCHANGED ua => Same
    OBVIOUS
  <1>3. InviteRing(p) => Same
    BY <1>1 DEF InviteRing, UaTypes
  <1>4. ASSUME NEW op \in Ops, NEW e \in Dialogs, StartMessage(p, op, e) PROVE Same
    BY <1>1, <1>4 DEF StartMessage, UaTypes
  <1>5. InviteAnswer(p) => /\ ua[d] >= UA_CONFIRMED => ua'[d] >= UA_CONFIRMED
                           /\ Same \/ (d = job[p].dlg /\ rtp'[d] = "playing")
    BY <1>1 DEF InviteAnswer, UaTypes, RtpTypes
  <1>6. ReferSend(p) => /\ ua[d] >= UA_CONFIRMED => ua'[d] >= UA_CONFIRMED
                        /\ Same \/ d = call_id[job[p].slot]
    BY <1>1 DEF ReferSend, UaTypes
  <1> HIDE DEF Same
  <1>7. ASSUME Same
        PROVE  ua'[d] >= UA_CONFIRMED <=> ua[d] >= UA_CONFIRMED
    BY <1>7 DEF Same
  <1>8. QED
    BY <1>2, <1>3, <1>4, <1>5, <1>6, <1>7, UaWritten

(* Who loses its music: the one whose RTP is offered anew, or whose call a *)
(* handler ends, marked as ending or on its way to delete_call.            *)
LEMMA MusicStops ==
    ASSUME TypeOK, ControlOK, NEW p \in Procs, Step(p) \/ Stimulus(p), NEW d \in Dialogs,
           rtp[d] = "playing"
    PROVE  \/ rtp'[d] = "playing"
           \/ d = job[p].dlg /\ InviteOffer(p)
           \/ /\ d = job[p].dlg /\ Handling(p) /\ job[p].slot \in Slots
              /\ \/ call_state'[job[p].slot] \in {CLSTA_BYE, CLSTA_BYEOK}
                 \/ pc'[p] = "del" /\ job'[p] = job[p]
  <1>1. ControlTypes /\ StateTypes /\ RtpTypes
    BY TypeParts
  <1>2. UNCHANGED rtp => rtp'[d] = "playing"
    OBVIOUS
  <1>3. InviteOffer(p) \/ InviteAnswer(p)
        => rtp'[d] = "playing" \/ (d = job[p].dlg /\ InviteOffer(p))
    BY <1>1 DEF InviteOffer, InviteAnswer, RtpTypes
  <1>4. EndRTP(p) => \/ rtp'[d] = "playing"
                     \/ d = job[p].dlg /\ job[p].op \notin Scans
    BY DEF EndRTP
  <1>5. ASSUME pc[p] \in {"end", "close", "handle"}, job[p].op \notin Scans
        PROVE  Handling(p) /\ job[p].slot \in Slots
    BY <1>1, <1>5, JobType, Readable DEF Handling, ControlOK
  <1>6. ASSUME EndThenDelete(p)
        PROVE  /\ pc[p] = "end" /\ EndRTP(p) /\ pc'[p] = "del" /\ job'[p] = job[p]
    BY <1>1, <1>6, WhereTo DEF EndThenDelete
  <1>7. ASSUME CloseCall(p), job[p].slot \in Slots
        PROVE  /\ pc[p] = "close" /\ EndRTP(p)
               /\ \/ call_state'[job[p].slot] \in {CLSTA_BYE, CLSTA_BYEOK}
                  \/ pc'[p] = "del" /\ job'[p] = job[p]
    BY <1>1, <1>7, WhereTo, StateStored DEF CloseCall
  <1>8. ASSUME Bye(p), job[p].slot \in Slots
        PROVE  /\ pc[p] = "handle" /\ job[p].op \notin Scans
               /\ \/ UNCHANGED rtp
                  \/ EndRTP(p) /\ call_state'[job[p].slot] \in {CLSTA_BYE, CLSTA_BYEOK}
    BY <1>1, <1>8, StateStored DEF Bye, Handles, Scans
  <1>9. \/ UNCHANGED rtp \/ InviteOffer(p) \/ InviteAnswer(p)
        \/ EndThenDelete(p) \/ CloseCall(p) \/ Bye(p)
    <2>1. MessageStep(p) => UNCHANGED rtp \/ InviteOffer(p) \/ InviteAnswer(p) \/ Bye(p)
      <3>1. \/ BeginUpdate(p) \/ EndUpdate(p) \/ SkipUpdate(p) \/ Lookup(p)
            \/ CreateCall(p) \/ InviteRefuse(p) \/ InviteRing(p)
            \/ InviteTransaction(p) \/ InviteTrying(p) \/ InvitePrack(p)
            \/ InviteWait(p) \/ InviteCancelled(p) \/ InviteAccept(p)
            => UNCHANGED rtp
        BY DEF BeginUpdate, EndUpdate, SkipUpdate, Lookup, CreateCall, InviteRefuse,
           InviteRing, InviteTransaction, InviteTrying, InvitePrack, InviteWait,
           InviteCancelled, InviteAccept, world
      <3>2. \/ Ack(p) \/ AckQueue(p) \/ Prack(p) \/ PrackReply(p) \/ Cancel(p)
            \/ Notify(p) \/ NotifyRequeue(p) \/ ReInvite(p) \/ Deny(p)
            => UNCHANGED rtp
        BY DEF Ack, AckQueue, Prack, PrackReply, Cancel, Notify, NotifyRequeue,
           ReInvite, Deny, world
      <3>3. QED
        BY <3>1, <3>2, Zenon DEF MessageStep
    <2>2. TransferStep(p) => UNCHANGED rtp
      BY DEF TransferStep, DropScan, RetrieveScan, RetrievePick, EndScan, Refer,
         ReferUpdate, ReferSend, world
    <2>3. DeleteRow(p) \/ FreeSlot(p) \/ UpdateRow(p) => UNCHANGED rtp
      BY DEF DeleteRow, FreeSlot, UpdateRow, world
    <2>4. Stimulus(p) => UNCHANGED rtp
      BY DEF Stimulus, StartMessage, StartScan, RpcDebug, Callback, InviteCb, ReferCb, ByeCb,
         world
    <2>5. QED
      BY <2>1, <2>2, <2>3, <2>4 DEF Step
  <1>10. CloseCall(p) \/ Bye(p) => job[p].slot \in Slots
    BY Readable DEF CloseCall, Bye, Handles
  <1>11. QED
    BY <1>2, <1>3, <1>4, <1>5, <1>6, <1>7, <1>8, <1>9, <1>10

(* A process keeps its job until it is done with it or gets another one.   *)
LEMMA JobKept ==
    ASSUME TypeOK, NEW p \in Procs, Step(p) \/ Stimulus(p)
    PROVE  \/ \E op \in Ops, d \in Dialogs : StartMessage(p, op, d)
           \/ \E op \in Ops, d \in Dialogs \cup {NoCall} : StartScan(p, op, d)
           \/ job'[p].op \in Callbacks \cup {"none"}
           \/ job'[p].op = job[p].op /\ job'[p].dlg = job[p].dlg
  <1>1. ControlTypes
    BY TypeParts
  <1> DEFINE Keeps == \/ job'[p].op \in Callbacks \cup {"none"}
                      \/ job'[p].op = job[p].op /\ job'[p].dlg = job[p].dlg
  <1>2. UNCHANGED job => Keeps
    OBVIOUS
  <1>3. Finish(p) => Keeps
    BY <1>1, WhereTo, IdleJobFields
  <1>4. (\E label : Goto(p, label)) => Keeps
    BY DEF Goto
  <1>5. ASSUME NEW label, NEW s, GotoSlot(p, label, s) PROVE Keeps
    BY <1>1, <1>5, WhereToSlot
  <1>6. RetrievePick(p) => Keeps
    BY <1>1 DEF RetrievePick, ControlTypes, Jobs
  <1>7. ASSUME NEW t \in tm, InviteCb(p, t) \/ ReferCb(p, t) \/ ByeCb(p, t) PROVE Keeps
    <2>1. UNCHANGED job \/ \E op \in Callbacks : \E label : Continue(p, t, op, label)
      BY <1>7 DEF InviteCb, ReferCb, ByeCb, control, Callbacks
    <2>2. ASSUME NEW op \in Callbacks, NEW label, Continue(p, t, op, label) PROVE Keeps
      BY <1>1, <2>2 DEF Continue, ControlTypes, IdleJob
    <2>3. QED
      BY <1>2, <2>1, <2>2
  <1> HIDE DEF Keeps
  <1>8. MessageWork(p) => Keeps
    <2>1. \/ InviteRefuse(p) \/ InviteOffer(p) \/ InviteTransaction(p) \/ InviteTrying(p)
          \/ InviteRing(p) \/ InvitePrack(p) \/ InviteWait(p) \/ InviteCancelled(p)
          \/ InviteAnswer(p) \/ InviteAccept(p)
          => Keeps
      BY <1>3, <1>4 DEF InviteRefuse, InviteOffer, InviteTransaction, InviteTrying,
         InviteRing, InvitePrack, InviteWait, InviteCancelled, InviteAnswer, InviteAccept
    <2>2. \/ Ack(p) \/ AckQueue(p) \/ Prack(p) \/ PrackReply(p) \/ Bye(p) \/ Cancel(p)
          \/ Notify(p) \/ NotifyRequeue(p) \/ ReInvite(p) \/ Deny(p)
          => Keeps
      BY <1>3, <1>4 DEF Ack, AckQueue, Prack, PrackReply, Bye, Cancel, Notify,
         NotifyRequeue, ReInvite, Deny
    <2>3. QED
      BY <2>1, <2>2, Zenon DEF MessageWork
  <1>9. BeginUpdate(p) \/ EndUpdate(p) \/ SkipUpdate(p) \/ Lookup(p) \/ CreateCall(p) => Keeps
    BY <1>2, <1>3, <1>4, <1>5 DEF BeginUpdate, EndUpdate, SkipUpdate, Lookup, CreateCall
  <1>10. TransferStep(p) => Keeps
    BY <1>3, <1>4, <1>5, <1>6
    DEF TransferStep, DropScan, RetrieveScan, EndScan, Refer, ReferUpdate, ReferSend
  <1>11. EndThenDelete(p) \/ CloseCall(p) \/ DeleteRow(p) \/ FreeSlot(p) \/ UpdateRow(p)
         => Keeps
    BY <1>3, <1>4, <1>5
    DEF EndThenDelete, CloseCall, DeleteRow, FreeSlot, UpdateRow, Return
  <1>12. RpcDebug(p) => Keeps
    BY <1>2 DEF RpcDebug
  <1>13. Stimulus(p) =>
            \/ Keeps
            \/ \E op \in Ops, d \in Dialogs : StartMessage(p, op, d)
            \/ \E op \in Ops, d \in Dialogs \cup {NoCall} : StartScan(p, op, d)
    BY <1>7, <1>12, Zenon DEF Stimulus, Callback
  <1>14. Step(p) => Keeps
    BY <1>8, <1>9, <1>10, <1>11, Zenon DEF Step, MessageStep, MessageWork
  <1>15. QED
    BY <1>13, <1>14 DEF Keeps

(* A process keeps its message until it is done with it.                   *)
LEMMA MessageKept ==
    ASSUME TypeOK, NEW p \in Procs, Step(p) \/ Stimulus(p), job'[p].op \in Messages
    PROVE  \/ \E op \in Ops, d \in Dialogs : StartMessage(p, op, d)
           \/ job'[p].op = job[p].op /\ job'[p].dlg = job[p].dlg
  <1>1. ASSUME NEW op \in Ops, NEW d \in Dialogs \cup {NoCall}, StartScan(p, op, d)
        PROVE  FALSE
    BY <1>1, TypeParts, KindsApart DEF StartScan, ControlTypes, IdleJob
  <1>2. QED
    BY <1>1, JobKept, KindsApart

(* How a process gets to the handler of its message, and to the end of an  *)
(* ACK.                                                                    *)
LEMMA HandlerReached ==
    ASSUME TypeOK, ControlOK, NEW p \in Procs, Step(p) \/ Stimulus(p)
    PROVE  /\ pc'[p] \in {"enter", "update", "lookup", "create", "handle"} =>
                \/ \E op \in Ops, d \in Dialogs : StartMessage(p, op, d)
                \/ BeginUpdate(p) \/ EndUpdate(p) \/ SkipUpdate(p) \/ Lookup(p) \/ CreateCall(p)
           /\ pc'[p] = "handle" => Lookup(p) \/ CreateCall(p)
           /\ pc'[p] = "ack_queue" => Ack(p) /\ job'[p] = job[p]
  <1>1. ControlTypes
    BY TypeParts
  <1>2. MessageWork(p) => pc'[p] \notin {"enter", "update", "lookup", "create", "handle"}
    <2>1. MessageWork(p) => Finish(p) \/ \E label \in Working \ {"handle"} : Goto(p, label)
      BY WorkingPlaces
      DEF MessageWork, InviteRefuse, InviteOffer, InviteTransaction, InviteTrying,
          InviteRing, InvitePrack, InviteWait, InviteCancelled, InviteAnswer,
          InviteAccept, Ack, AckQueue, Prack, PrackReply, Bye, Cancel, Notify,
          NotifyRequeue, ReInvite, Deny
    <2>2. QED
      BY <1>1, <2>1, WhereTo, WorkingPlaces
  <1>3. MessageWork(p) /\ pc'[p] = "ack_queue" => Ack(p)
    <2>1. MessageWork(p) =>
            Ack(p) \/ Finish(p) \/ \E label \in Working \ {"ack_queue"} : Goto(p, label)
      BY WorkingPlaces
      DEF MessageWork, InviteRefuse, InviteOffer, InviteTransaction, InviteTrying,
          InviteRing, InvitePrack, InviteWait, InviteCancelled, InviteAnswer,
          InviteAccept, AckQueue, Prack, PrackReply, Bye, Cancel, Notify,
          NotifyRequeue, ReInvite, Deny
    <2>2. QED
      BY <1>1, <2>1, WhereTo
  <1>4. Ack(p) /\ pc'[p] = "ack_queue" => job'[p] = job[p]
    BY <1>1, WhereTo DEF Ack
  <1>5. TransferStep(p) \/ EndThenDelete(p) \/ CloseCall(p) \/ DeleteRow(p) \/ FreeSlot(p)
           \/ UpdateRow(p) \/ RpcDebug(p) \/ Callback(p)
        => pc'[p] \notin {"enter", "update", "lookup", "create", "handle", "ack_queue"}
    BY WhereStepsLead
  <1>6. \A op \in Ops, d \in Dialogs \cup {NoCall} : StartScan(p, op, d) => pc'[p] = "scan"
    BY WhereStepsLead
  <1>7. /\ BeginUpdate(p) \/ EndUpdate(p) \/ SkipUpdate(p) => pc'[p] \in {"update", "lookup"}
        /\ Lookup(p) \/ CreateCall(p) => pc'[p] \in {"handle", "create", "idle"}
        /\ \A op \in Ops, d \in Dialogs : StartMessage(p, op, d) => pc'[p] = "enter"
    BY LookupLeads, WhereStepsLead
  <1>8. CASE Step(p)
    <2>1. \/ BeginUpdate(p) \/ EndUpdate(p) \/ SkipUpdate(p)
          \/ Lookup(p) \/ CreateCall(p) \/ MessageWork(p) \/ TransferStep(p)
          \/ EndThenDelete(p) \/ CloseCall(p) \/ DeleteRow(p) \/ FreeSlot(p)
          \/ UpdateRow(p)
      BY <1>8, Zenon DEF Step, MessageStep, MessageWork
    <2>2. QED
      BY <1>2, <1>3, <1>4, <1>5, <1>7, <2>1
  <1>9. CASE Stimulus(p)
    BY <1>5, <1>6, <1>7, <1>9 DEF Stimulus
  <1>10. QED
    BY <1>8, <1>9

(* A process knows of its caller what it should.                           *)
LEMMA CallerAtStep ==
    ASSUME Overlap = FALSE, "resend" \notin Faults, TypeOK, ControlOK, SerialInv, CallersInv,
           NEW p \in Procs, Step(p) \/ Stimulus(p)
    PROVE  CallersInv'
  <1>1. /\ ControlTypes /\ UaTypes /\ IdTypes
        /\ \A d \in Dialogs : ua[d] \in 0..4
        /\ UA_IDLE = 0 /\ UA_CALLING = 1 /\ UA_CONFIRMED = 3
    BY TypeParts DEF UaTypes, UA_IDLE, UA_CALLING, UA_CONFIRMED, UA_REFERRED
  <1>2. \A d \in Dialogs : ua[d] >= UA_CONFIRMED => ua'[d] >= UA_CONFIRMED
    BY AnswersSpread
  <1>3. \A q \in Procs : job[q].op \in Messages => job[q].dlg \in Dialogs
    BY DEF SerialInv, Informed, CallerKnown
  <1>4. ASSUME NEW q \in Procs \ {p} PROVE CallerAt(q)'
    <2>1. pc'[q] \in {"idle", "inv_wait"} /\ pc'[q] = pc[q] /\ job'[q] = job[q]
      BY OneAtWorkStep DEF SerialInv, AtRest
    <2>2. CallerAt(q) /\ (pc[q] = "idle" => job[q].op = "none")
      BY DEF CallersInv, ControlOK
    <2>3. QED
      BY <1>2, <1>3, <2>1, <2>2, KindsApart DEF CallerAt
  <1>5. ASSUME NEW op \in Ops, NEW d \in Dialogs, StartMessage(p, op, d) PROVE CallerAt(p)'
    <2>1. pc'[p] = "enter" /\ job'[p].op = op /\ job'[p].dlg = d
      BY <1>1, <1>5 DEF StartMessage, ControlTypes, IdleJob
    <2>2. op = "INVITE" => ua'[d] < UA_CONFIRMED
      BY <1>1, <1>5 DEF StartMessage, MayArrive, UaTypes
    <2>3. op = "ACK" => ua[d] >= UA_CONFIRMED
      BY <1>5 DEF StartMessage, MayArrive
    <2>4. QED
      BY <1>2, <2>1, <2>2, <2>3 DEF CallerAt
  <1>6. ASSUME ~\E op \in Ops, d \in Dialogs : StartMessage(p, op, d),
               job'[p].op \in Messages
        PROVE  CallerAt(p)'
    <2>1. job'[p].op = job[p].op /\ job'[p].dlg = job[p].dlg /\ job[p].dlg \in Dialogs
      BY <1>3, <1>6, MessageKept
    <2>2. ASSUME job'[p].op = "INVITE",
                 pc'[p] \in {"enter", "update", "lookup", "create", "handle"}
          PROVE  ua'[job'[p].dlg] < UA_CONFIRMED
      <3>1. BeginUpdate(p) \/ EndUpdate(p) \/ SkipUpdate(p) \/ Lookup(p) \/ CreateCall(p)
        BY <1>6, <2>2, HandlerReached
      <3>2. pc[p] \in {"enter", "update", "lookup", "create"} /\ UNCHANGED ua
        BY <3>1 DEF BeginUpdate, EndUpdate, SkipUpdate, Lookup, CreateCall, world
      <3>3. QED
        BY <2>1, <2>2, <3>2 DEF CallersInv, CallerAt
    <2>3. ASSUME job'[p].op = "ACK" \/ pc'[p] = "ack_queue"
          PROVE  ua'[job'[p].dlg] >= UA_CONFIRMED
      <3>1. job[p].op = "ACK"
        BY <2>1, <2>3, HandlerReached DEF Ack, Handles
      <3>2. ua[job[p].dlg] >= UA_CONFIRMED
        BY <1>6, <2>1, <3>1 DEF CallersInv, CallerAt
      <3>3. QED
        BY <1>2, <2>1, <3>2
    <2>4. ASSUME pc'[p] \in {"handle", "ack_queue"}
          PROVE  call_id'[job'[p].slot] = job'[p].dlg
      <3>1. CASE pc'[p] = "ack_queue"
        <4>1. pc[p] = "handle" /\ job'[p] = job[p] /\ UNCHANGED call_id
          BY <3>1, HandlerReached DEF Ack, Handles, table
        <4>2. QED
          BY <1>6, <4>1 DEF CallersInv, CallerAt
      <3>2. CASE pc'[p] = "handle" /\ CreateCall(p)
        <4>1. job[p].slot \in Slots /\ job'[p] = job[p]
          BY <1>1, <3>2, WhereTo, Readable DEF CreateCall
        <4>2. QED
          BY <1>1, <3>2, <4>1 DEF CreateCall, IdTypes
      <3>3. CASE pc'[p] = "handle" /\ Lookup(p) /\ ~CreateCall(p)
        <4>1. job[p].op \in Messages /\ pc[p] = "lookup" /\ UNCHANGED call_id
          BY <1>6, <2>1, <3>3 DEF Lookup, table
        <4>2. Handling(p)' /\ ~Handling(p)
          BY <1>6, <3>3, <4>1 DEF Handling
        <4>3. PICK s \in Slots : call_id[s] = job[p].dlg /\ GotoSlot(p, "handle", s)
          <5>1. ASSUME NEW s, GotoSlot(p, "create", s) PROVE FALSE
            BY <1>1, <3>3, <5>1, WhereToSlot
          <5>2. ~Finish(p)
            BY <1>1, <3>3, WhereTo
          <5>3. QED
            BY <3>3, <5>1, <5>2 DEF Lookup, Matching
        <4>4. job'[p].slot = s
          BY <1>1, <4>3, WhereToSlot
        <4>5. QED
          BY <2>1, <4>1, <4>3, <4>4
      <3>4. QED
        BY <2>4, <3>1, <3>2, <3>3, HandlerReached
    <2>5. QED
      BY <2>2, <2>3, <2>4 DEF CallerAt
  <1>7. ASSUME job'[p].op \notin Messages PROVE CallerAt(p)'
    BY <1>7 DEF CallerAt, Messages
  <1>8. QED
    BY <1>4, <1>5, <1>6, <1>7 DEF CallersInv

(* A call that gets into the queue was answered.                           *)
LEMMA AnsweredStep ==
    ASSUME TypeOK, ControlOK, SerialInv, MusicInv, NEW p \in Procs, Step(p) \/ Stimulus(p),
           ~CreateCall(p), NEW s \in Slots
    PROVE  Answered(s)'
  <1>1. SUFFICES ASSUME call_state'[s] \in {CLSTA_INQUEUE, CLSTA_REFER, CLSTA_RFRWAIT}
                 PROVE  ua'[call_id'[s]] >= UA_CONFIRMED
    BY DEF Answered, Waits
  <1>2. UNCHANGED call_id /\ (Active(s)' => Active(s))
    BY OnlyCreateFills DEF SerialInv
  <1>3. call_id[s] \in Dialogs
    BY <1>1, <1>2, StateNumbers DEF SerialInv, CallsNamed, Active
  <1>4. ua[call_id[s]] >= UA_CONFIRMED
    <2>1. StateMove(p, s)
      BY StateMoves DEF SerialInv
    <2>2. CASE AckQueue(p) /\ s = job[p].slot
      <3>1. pc[p] = "ack_queue" /\ job[p].op \in Messages
        BY <2>2, Readable, WorkingPlaces DEF AckQueue, HandlerPcs
      <3>2. QED
        BY <2>2, <3>1 DEF MusicInv, CallersInv, CallerAt
    <2>3. CASE ~(AckQueue(p) /\ s = job[p].slot)
      <3>1. Waits(s)
        BY <1>1, <2>1, <2>3, StateNumbers
        DEF StateMove, EntersStep, QueuedStep, ReferredStep, AcceptedStep, EndingStep,
            FreedStep, Waits
      <3>2. QED
        BY <3>1 DEF MusicInv, Answered
    <2>4. QED
      BY <2>2, <2>3
  <1>5. QED
    BY <1>2, <1>3, <1>4, AnswersSpread

(* Nobody who is to hear music loses it.                                   *)
LEMMA PlayingStep ==
    ASSUME Overlap = FALSE, TypeOK, ControlOK, SerialInv, OnceInv, MusicInv,
           NEW p \in Procs, Step(p) \/ Stimulus(p), ~CreateCall(p), NEW s \in Slots
    PROVE  Playing(s)'
  <1>1. SUFFICES ASSUME Active(s)', call_state'[s] \notin {CLSTA_BYE, CLSTA_BYEOK}, ~Going(s)',
                        ua'[call_id'[s]] >= UA_CONFIRMED
                 PROVE  rtp'[call_id'[s]] = "playing"
    BY DEF Playing
  <1>2. UNCHANGED call_id /\ Active(s)
    BY <1>1, OnlyCreateFills DEF SerialInv
  <1>3. PICK d \in Dialogs : d = call_id[s]
    BY <1>2 DEF SerialInv, CallsNamed
  <1>4. SUFFICES ASSUME rtp'[d] # "playing" PROVE FALSE
    BY <1>2, <1>3
  <1>5. call_state[s] \notin {CLSTA_BYE, CLSTA_BYEOK}
    <2>1. StateMove(p, s)
      BY StateMoves DEF SerialInv
    <2>2. QED
      BY <1>1, <2>1, StateNumbers
      DEF StateMove, EntersStep, QueuedStep, ReferredStep, AcceptedStep, EndingStep,
          FreedStep, Early, Active
  <1>6. ~Going(s)
    <2>1. SUFFICES ASSUME NEW q \in Procs, pc[q] \in {"del", "free"}, job[q].slot = s
                   PROVE  FALSE
      BY DEF Going
    <2>2. q = p
      BY <2>1, OneAtWorkStep DEF SerialInv, AtRest
    <2>3. CASE pc[p] = "del"
      <3>1. pc'[p] = "free" /\ job'[p] = job[p]
        BY <2>3, RowPlaces, Readable, WhereTo DEF DeleteRow
      <3>2. QED
        BY <1>1, <2>1, <2>2, <3>1 DEF Going
    <2>4. CASE pc[p] = "free"
      <3>1. call_state'[s] = 0
        BY <2>1, <2>2, <2>4, RowPlaces, Readable, StateStored DEF FreeSlot
      <3>2. QED
        BY <1>1, <3>1 DEF Active
    <2>5. QED
      BY <2>1, <2>2, <2>3, <2>4
  <1>7. ua[d] >= UA_CONFIRMED
    <2>1. CASE ReferSend(p) /\ d = call_id[job[p].slot]
      <3>1. job[p].slot \in Slots /\ call_state[job[p].slot] = CLSTA_REFER
        BY <2>1, Readable DEF ReferSend, SerialInv, Informed, StateKnown
      <3>2. QED
        BY <2>1, <3>1 DEF MusicInv, Answered, Waits
    <2>2. QED
      BY <1>1, <1>2, <1>3, <1>4, <2>1, AnswersSpread
  <1>8. rtp[d] = "playing"
    BY <1>2, <1>3, <1>5, <1>6, <1>7 DEF MusicInv, Playing
  <1>9. CASE d = job[p].dlg /\ InviteOffer(p)
    <2>1. job[p].op = "INVITE" /\ pc[p] = "handle"
      BY <1>9 DEF InviteOffer, Handles
    <2>2. ua[d] \in 0..4 /\ UA_CONFIRMED = 3
      BY TypeParts DEF UaTypes, UA_IDLE, UA_CONFIRMED, UA_REFERRED
    <2>3. QED
      BY <1>7, <1>9, <2>1, <2>2 DEF MusicInv, CallersInv, CallerAt
  <1>10. CASE /\ d = job[p].dlg /\ Handling(p) /\ job[p].slot \in Slots
              /\ \/ call_state'[job[p].slot] \in {CLSTA_BYE, CLSTA_BYEOK}
                 \/ pc'[p] = "del" /\ job'[p] = job[p]
    <2>1. job[p].slot = s
      <3>1. OnlySlot(job[p].dlg, job[p].slot)
        BY <1>10 DEF OnceInv
      <3>2. QED
        BY <1>3, <1>10, <3>1, TableAssumption DEF OnlySlot
    <2>2. QED
      BY <1>1, <1>10, <2>1 DEF Going
  <1>11. QED
    BY <1>4, <1>8, <1>9, <1>10, MusicStops

(* Every step keeps the music right.                                       *)
LEMMA MusicStep ==
    ASSUME Overlap = FALSE, Faults \cap {"rtp", "resend"} = {},
           TypeOK, ControlOK, SerialInv, OnceInv, MusicInv, [Next]_vars
    PROVE  MusicInv'
  <1>1. CASE UNCHANGED vars
    BY <1>1 DEF vars, table, world, MusicInv, Answered, Waits, Playing, Going, Active, CallersInv, CallerAt
  <1>2. ASSUME NEW d \in Dialogs, SessionExpires(d) PROVE MusicInv'
    BY <1>2 DEF SessionExpires
  <1>3. ASSUME NEW p \in Procs, Step(p) \/ Stimulus(p) PROVE MusicInv'
    <2>1. CallersInv'
      BY <1>3, CallerAtStep DEF MusicInv
    <2>2. ASSUME ~CreateCall(p) PROVE MusicInv'
      BY <1>3, <2>1, <2>2, AnsweredStep, PlayingStep DEF MusicInv
    <2>3. ASSUME CreateCall(p) PROVE MusicInv'
      <3>1. /\ ControlTypes /\ StateTypes /\ IdTypes /\ UaTypes
            /\ pc[p] = "create" /\ job[p].slot \in Slots /\ job[p].op = "INVITE"
            /\ ~Active(job[p].slot) /\ job[p].dlg \in Dialogs /\ UNCHANGED <<ua, rtp>>
        BY <2>3, Readable, WorkingPlaces
        DEF CreateCall, SerialInv, Informed, SlotFresh, CallerKnown, world
      <3>2. PICK slot \in Slots : slot = job[p].slot
        BY <3>1
      <3>3. /\ \A s \in Slots \ {slot} : call_id'[s] = call_id[s] /\ call_state'[s] = call_state[s]
            /\ call_id'[slot] = job[p].dlg
            /\ call_state'[slot] = CLSTA_ENTER \/ call_state'[slot] = 0
        BY <2>3, <3>1, <3>2, StateStored DEF CreateCall, IdTypes, Active
      <3>4. ua[job[p].dlg] < UA_CONFIRMED /\ ua[job[p].dlg] \in 0..4 /\ UA_CONFIRMED = 3
        BY <3>1 DEF MusicInv, CallersInv, CallerAt, UaTypes, UA_IDLE, UA_CONFIRMED, UA_REFERRED
      <3>5. \A s \in Slots : ~Going(s)
        <4>1. \A q \in Procs : pc[q] \notin {"del", "free"}
          BY <1>3, <3>1, OneAtWorkStep DEF SerialInv, AtRest
        <4>2. QED
          BY <4>1 DEF Going
      <3>6. ASSUME NEW s \in Slots \ {slot} PROVE Answered(s)' /\ Playing(s)'
        BY <3>1, <3>3, <3>5, <3>6 DEF MusicInv, Answered, Waits, Playing, Active
      <3>7. Answered(slot)' /\ Playing(slot)'
        BY <3>1, <3>3, <3>4, StateNumbers DEF Answered, Waits, Playing, Active
      <3>8. QED
        BY <2>1, <3>6, <3>7 DEF MusicInv
    <2>4. QED
      BY <2>2, <2>3
  <1>4. QED
    BY <1>1, <1>2, <1>3 DEF Next

(* At first nobody waits.                                                  *)
LEMMA MusicInit == Init => MusicInv
  <1> SUFFICES ASSUME Init PROVE MusicInv
    OBVIOUS
  <1>1. /\ \A s \in Slots : call_state[s] = 0
        /\ \A p \in Procs : pc[p] = "idle" /\ job[p].op = "none"
    BY DEF Init, IdleJob
  <1>2. QED
    BY <1>1, StateNumbers, KindsApart
    DEF MusicInv, Answered, Waits, Playing, Active, CallersInv, CallerAt

(* Who is answered and not ending hears music when no handler is at work.  *)
LEMMA MusicHeard == MusicInv => MusicWhileQueued
  <1> SUFFICES ASSUME MusicInv, Quiet, NEW s \in Slots, call_state[s] = CLSTA_INQUEUE
               PROVE  rtp[call_id[s]] = "playing"
    BY DEF MusicWhileQueued
  <1>1. ~Going(s) /\ Active(s) /\ call_state[s] \notin {CLSTA_BYE, CLSTA_BYEOK}
    BY StateNumbers DEF Quiet, Going, Active
  <1>2. QED
    BY <1>1 DEF MusicInv, Answered, Waits, Playing

(* Whoever waits in the queue hears music, for any table and any callers,  *)
(* through refused and given up transfers, early BYEs, late transactions   *)
(* and failures of everything but the RTP proxy itself: end_RTP is called  *)
(* only for the call of the message, and that call leaves.                 *)
THEOREM QueuedCallsHearMusic ==
    ASSUME Overlap = FALSE, Faults \cap {"rtp", "resend"} = {}
    PROVE  Spec => []MusicWhileQueued
  <1>1. TypeOK /\ ControlOK /\ SerialInv /\ OnceInv /\ MusicInv /\ [Next]_vars => MusicInv'
    BY MusicStep
  <1>2. Spec => [](SerialInv /\ OnceInv)
    BY OnceInvariant
  <1>3. QED
    BY <1>1, <1>2, MusicInit, MusicHeard, ControlInvariant, PTL DEF Spec

-----------------------------------------------------------------------------
(* What keeps the promises of QueueService besides: no call is closed,     *)
(* deleted or answered that another process is still working on.           *)
BeforeAnswer ==
    {"inv_tran", "inv_try", "inv_ring", "inv_prack", "inv_wait", "inv_cancel", "inv_answer"}

(* first_invite_msg, its PRACK wait included, has the call to itself.      *)
Entering(p) ==
    pc[p] \in BeforeAnswer =>
        /\ job[p].op = "INVITE" /\ call_id[job[p].slot] = job[p].dlg
        /\ Early(job[p].slot) /\ ua[job[p].dlg] < UA_CONFIRMED

OneInvite ==
    \A p, q \in Procs :
        job[p].op = "INVITE" /\ job[q].op = "INVITE" /\ job[p].dlg = job[q].dlg => p = q

(* The calls whose BYE has no answer yet are those told BYE.               *)
ByesOwed ==
    \A t \in tm : t.kind = "bye" => call_state[t.slot] = CLSTA_BYE /\ call_id[t.slot] = t.dlg

(* A BYE of the caller does not cross one of ours.                         *)
NoCrossing(p) ==
    job[p].op = "BYE" =>
        /\ ua[job[p].dlg] >= UA_CONFIRMED
        /\ \A t \in tm : t.kind = "bye" => t.dlg # job[p].dlg

DropsAlone(p) == job[p].op = "drop" => \A q \in Procs : pc[q] # "inv_wait"

Closing(p) ==
    pc[p] = "close" => job[p].op # "BYE" /\ (job[p].op = "drop" \/ ~Early(job[p].slot))

(* What is deleted is not in queue, and nobody will come back to it.       *)
Deleting(p) ==
    pc[p] \in {"end", "del", "free"} =>
        /\ call_state[job[p].slot] # CLSTA_INQUEUE
        /\ \A t \in tm : t.kind = "bye" => t.slot # job[p].slot
        /\ \A q \in Procs : pc[q] = "inv_wait" => job[q].slot # job[p].slot

CalmAt(p) ==
    Entering(p) /\ NoCrossing(p) /\ DropsAlone(p) /\ Closing(p) /\ Deleting(p)

CalmInv == OneInvite /\ ByesOwed /\ \A p \in Procs : CalmAt(p)

(* How a process comes to answer a call.                                   *)
LEMMA EnteringReached ==
    ASSUME TypeOK, ControlOK, NEW p \in Procs, Step(p) \/ Stimulus(p), pc'[p] \in BeforeAnswer
    PROVE  /\ \/ InviteOffer(p) \/ InviteTransaction(p) \/ InviteTrying(p) \/ InviteRing(p)
              \/ InvitePrack(p) \/ InviteWait(p) \/ InviteCancelled(p)
           /\ job'[p] = job[p]
  <1>1. ControlTypes
    BY TypeParts
  <1>2. \/ CreateCall(p) \/ TransferStep(p) \/ EndThenDelete(p) \/ CloseCall(p) \/ DeleteRow(p)
        \/ FreeSlot(p) \/ UpdateRow(p) \/ RpcDebug(p) \/ Callback(p)
        => FALSE
    BY WhereStepsLead DEF BeforeAnswer
  <1>3. \A op \in Ops, d \in Dialogs \cup {NoCall} : ~StartScan(p, op, d)
    BY WhereStepsLead DEF BeforeAnswer
  <1>4. /\ BeginUpdate(p) \/ EndUpdate(p) \/ SkipUpdate(p) \/ Lookup(p) => FALSE
        /\ \A op \in Ops, d \in Dialogs : ~StartMessage(p, op, d)
    BY LookupLeads DEF BeforeAnswer
  <1>5. MessageWork(p)
    BY <1>2, <1>3, <1>4, Zenon DEF Step, Stimulus, MessageStep, MessageWork
  <1>6. MessageWork(p) =>
          \/ InviteOffer(p) \/ InviteTransaction(p) \/ InviteTrying(p) \/ InviteRing(p)
          \/ InvitePrack(p) \/ InviteWait(p) \/ InviteCancelled(p)
          \/ Finish(p)
          \/ \E label \in {"inv_accept", "ack_queue", "prack_reply", "ntf_requeue",
                           "end", "close", "del", "upd"} : Goto(p, label)
    BY DEF MessageWork, InviteRefuse, InviteAnswer, InviteAccept, Ack, AckQueue, Prack,
           PrackReply, Bye, Cancel, Notify, NotifyRequeue, ReInvite, Deny
  <1>7. \/ InviteOffer(p) \/ InviteTransaction(p) \/ InviteTrying(p) \/ InviteRing(p)
        \/ InvitePrack(p) \/ InviteWait(p) \/ InviteCancelled(p)
    BY <1>1, <1>5, <1>6, WhereTo DEF BeforeAnswer
  <1>8. \E label : Goto(p, label)
    BY <1>7 DEF InviteOffer, InviteTransaction, InviteTrying, InviteRing, InvitePrack,
       InviteWait, InviteCancelled
  <1>9. QED
    BY <1>1, <1>7, <1>8, WhereTo

(* close_call is called for a transfer that is over or given up, a call    *)
(* put on hold, or by mohqueue.drop_call.                                  *)
LEMMA ClosingStep ==
    ASSUME TypeOK, ControlOK, NEW p \in Procs, Step(p) \/ Stimulus(p)
    PROVE  Closing(p)'
  <1> SUFFICES ASSUME pc'[p] = "close"
               PROVE  /\ job'[p].op # "BYE"
                      /\ job'[p].op = "drop" \/ ~(call_state'[job'[p].slot] \in 1..(CLSTA_INQUEUE - 1))
    BY DEF Closing, Early
  <1>1. ControlTypes
    BY TypeParts
  <1>2. \/ CreateCall(p) \/ EndThenDelete(p) \/ CloseCall(p) \/ DeleteRow(p)
        \/ FreeSlot(p) \/ UpdateRow(p) \/ RpcDebug(p) \/ Callback(p)
        => FALSE
    BY WhereStepsLead
  <1>3. \A op \in Ops, d \in Dialogs \cup {NoCall} : ~StartScan(p, op, d)
    BY WhereStepsLead
  <1>4. /\ BeginUpdate(p) \/ EndUpdate(p) \/ SkipUpdate(p) \/ Lookup(p) => FALSE
        /\ \A op \in Ops, d \in Dialogs : ~StartMessage(p, op, d)
    BY LookupLeads
  <1>5. MessageWork(p) \/ TransferStep(p)
    BY <1>2, <1>3, <1>4, Zenon DEF Step, Stimulus, MessageStep, MessageWork
  <1>6. Goto(p, "close") => job'[p] = job[p]
    BY <1>1, WhereTo
  <1>7. CASE MessageWork(p)
    <2>1. MessageWork(p) =>
            \/ Notify(p) \/ ReInvite(p) \/ Finish(p)
            \/ \E label \in Working \ {"close"} : Goto(p, label)
      BY WorkingPlaces
      DEF MessageWork, InviteRefuse, InviteOffer, InviteTransaction, InviteTrying,
          InviteRing, InvitePrack, InviteWait, InviteCancelled, InviteAnswer, InviteAccept,
          Ack, AckQueue, Prack, PrackReply, Bye, Cancel, NotifyRequeue, Deny
    <2>2. ~Finish(p) /\ \A label \in Working \ {"close"} : ~Goto(p, label)
      BY <1>1, WhereTo
    <2>3. /\ Handles(p, "NOTIFY") \/ Handles(p, "reINVITE")
          /\ State(p) = CLSTA_RFRWAIT \/ State(p) \div 100 >= 2
          /\ Goto(p, "close") /\ UNCHANGED call_state
      <3>1. \A label \in {"end", "ntf_requeue"} : ~Goto(p, label)
        BY <1>1, WhereTo
      <3>2. QED
        BY <1>7, <2>1, <2>2, <3>1 DEF Notify, ReInvite, table
    <2>4. State(p) \in Nat /\ job[p].slot \in Slots
      BY <2>3, Readable DEF Handles, State
    <2>5. ~(State(p) \in 1..(CLSTA_INQUEUE - 1))
      BY <2>3, <2>4, StateNumbers
    <2>6. QED
      BY <1>6, <2>3, <2>5 DEF Handles, State
  <1>8. CASE TransferStep(p)
    <2>1. ~Finish(p) /\ \A label \in {"pick", "refer_upd", "refer_send", "upd"} : ~Goto(p, label)
      BY <1>1, WhereTo
    <2>2. ASSUME NEW s, GotoSlot(p, "scan", s) \/ GotoSlot(p, "refer", s) PROVE FALSE
      BY <1>1, <2>2, WhereToSlot
    <2>3. ~RetrievePick(p)
      BY <1>1 DEF RetrievePick, ControlTypes
    <2>4. /\ Goto(p, "close") /\ UNCHANGED call_state
          /\ \/ job[p].op = "drop"
             \/ job[p].op = "retrieve" /\ call_state[job[p].slot] \in {CLSTA_REFER, CLSTA_RFRWAIT}
      BY <1>8, <2>1, <2>2, <2>3
      DEF TransferStep, DropScan, RetrieveScan, EndScan, Refer, ReferUpdate, ReferSend, table
    <2>5. QED
      BY <1>6, <2>4, StateNumbers
  <1>9. QED
    BY <1>5, <1>7, <1>8

(* How a process comes to delete a call, when nothing it calls fails.      *)
LEMMA DeletingReached ==
    ASSUME TypeOK, ControlOK, Faults \cap {"tm", "mem"} = {},
           NEW p \in Procs, Step(p) \/ Stimulus(p), pc'[p] \in {"end", "del", "free"}
    PROVE  \/ /\ pc[p] \in {"end", "del"} /\ job'[p] = job[p] /\ UNCHANGED <<call_state, tm>>
           \/ /\ InviteRefuse(p) \/ InviteWait(p) \/ InviteCancelled(p) \/ InviteAnswer(p)
              /\ job'[p] = job[p] /\ UNCHANGED <<call_state, tm>>
           \/ Bye(p) /\ State(p) # CLSTA_BYEOK /\ job'[p] = job[p]
           \/ /\ Notify(p) /\ State(p) = CLSTA_RFRWAIT
              /\ job'[p] = job[p] /\ UNCHANGED <<call_state, tm>>
           \/ \E t \in tm :
                /\ \/ InviteCb(p, t) /\ call_state[t.slot] < CLSTA_INQUEUE
                   \/ ReferCb(p, t) /\ call_state[t.slot] = CLSTA_REFER
                   \/ ByeCb(p, t)
                /\ job'[p].slot = t.slot /\ UNCHANGED call_state
  <1>1. ControlTypes
    BY TypeParts
  <1>2. ~Finish(p)
    BY <1>1, WhereTo
  <1>3. ASSUME NEW label, NEW s, GotoSlot(p, label, s) PROVE label \in {"end", "del", "free"}
    BY <1>1, <1>3, WhereToSlot
  <1>4. ~Return(p)
    <2>1. ~GotoSlot(p, "scan", job[p].slot + 1)
      BY <1>3
    <2>2. QED
      BY <1>1, <1>2, <2>1, WhereTo DEF Return
  <1>5. \A label : Goto(p, label) => label \in {"end", "del", "free"} /\ job'[p] = job[p]
    BY <1>1, WhereTo
  <1>6. CASE MessageWork(p)
    <2>1. \/ InviteRefuse(p) \/ InviteWait(p) \/ InviteCancelled(p) \/ InviteAnswer(p)
          \/ Bye(p) \/ Notify(p)
      <3>1. MessageWork(p) =>
              \/ InviteRefuse(p) \/ InviteWait(p) \/ InviteCancelled(p) \/ InviteAnswer(p)
              \/ Bye(p) \/ Notify(p) \/ Finish(p)
              \/ \E label \in {"inv_tran", "inv_try", "inv_ring", "inv_prack", "inv_wait",
                               "inv_answer", "inv_accept", "ack_queue", "prack_reply", "upd",
                               "close"} : Goto(p, label)
        BY DEF MessageWork, InviteOffer, InviteTransaction, InviteTrying, InviteRing,
            InvitePrack, InviteAccept, Ack, AckQueue, Prack, PrackReply, Cancel,
            NotifyRequeue, ReInvite, Deny
      <3>2. QED
        BY <1>2, <1>5, <1>6, <3>1
    <2>2. CASE InviteRefuse(p) \/ InviteWait(p) \/ InviteCancelled(p) \/ InviteAnswer(p)
      BY <1>2, <1>5, <2>2
      DEF InviteRefuse, InviteWait, InviteCancelled, InviteAnswer, table, world
    <2>3. CASE Bye(p)
      BY <1>2, <1>5, <2>3 DEF Bye
    <2>4. CASE Notify(p)
      BY <1>2, <1>5, <2>4 DEF Notify, table, world
    <2>5. QED
      BY <2>1, <2>2, <2>3, <2>4
  <1>7. CASE EndThenDelete(p) \/ DeleteRow(p)
    BY <1>1, <1>7, WhereTo DEF EndThenDelete, DeleteRow, table, world
  <1>8. ~CloseCall(p) /\ ~FreeSlot(p) /\ ~UpdateRow(p)
    BY <1>2, <1>4 DEF CloseCall, FreeSlot, UpdateRow
  <1>9. ~BeginUpdate(p) /\ ~EndUpdate(p) /\ ~SkipUpdate(p) /\ ~Lookup(p)
    BY LookupLeads
  <1>10. ~CreateCall(p) /\ ~TransferStep(p) /\ ~RpcDebug(p)
    BY WhereStepsLead
  <1>11. CASE Stimulus(p)
    <2>1. \A op \in Ops, d \in Dialogs \cup {NoCall} : ~StartScan(p, op, d)
      BY WhereStepsLead
    <2>2. \A op \in Ops, d \in Dialogs : ~StartMessage(p, op, d)
      BY LookupLeads
    <2>3. PICK t \in tm : InviteCb(p, t) \/ ReferCb(p, t) \/ ByeCb(p, t)
      BY <1>10, <1>11, <2>1, <2>2 DEF Stimulus, Callback
    <2>4. call_state[t.slot] \in Nat
      BY Readable, TypeParts DEF TmTypes, Transactions
    <2>5. ~UNCHANGED control
      BY <2>3 DEF InviteCb, ReferCb, ByeCb, control
    <2>6. ASSUME NEW op, NEW label, Continue(p, t, op, label)
          PROVE  job'[p].slot = t.slot /\ label \in {"end", "del", "free"}
      BY <1>1, <2>6 DEF Continue, ControlTypes, IdleJob
    <2>7. QED
      BY <2>3, <2>4, <2>5, <2>6, StateNumbers DEF InviteCb, ReferCb, ByeCb, table
  <1>12. QED
    BY <1>6, <1>7, <1>8, <1>9, <1>10, <1>11, Zenon DEF Step, MessageStep, MessageWork

(* A call in the table keeps its slot and is moved as StateMove says.      *)
LEMMA ActiveMoves ==
    ASSUME TypeOK, ControlOK, SerialInv, NEW p \in Procs, Step(p) \/ Stimulus(p),
           NEW s \in Slots, Active(s)
    PROVE  call_id'[s] = call_id[s] /\ StateMove(p, s)
  <1>1. CASE CreateCall(p)
    <2>1. /\ StateTypes /\ IdTypes /\ job[p].slot \in Slots /\ ~Active(job[p].slot)
      BY <1>1, Readable DEF CreateCall, SerialInv, Informed, SlotFresh
    <2>2. PICK slot \in Slots : slot = job[p].slot
      BY <2>1
    <2>3. s # slot
      BY <2>1, <2>2
    <2>4. UNCHANGED call_state \/ SetState(slot, CLSTA_ENTER)
      BY <1>1, <2>2 DEF CreateCall
    <2>5. call_state'[s] = call_state[s]
      BY <2>1, <2>2, <2>3, <2>4, StateStored
    <2>6. call_id'[s] = call_id[s]
      BY <1>1, <2>1, <2>2, <2>3 DEF CreateCall, IdTypes
    <2>7. QED
      BY <2>5, <2>6 DEF StateMove
  <1>2. CASE ~CreateCall(p)
    BY <1>2, OnlyCreateFills, StateMoves DEF SerialInv
  <1>3. QED
    BY <1>1, <1>2

(* What a process that waits for a PRACK has to itself, whatever others do.*)
LEMMA WaitingStep ==
    ASSUME Overlap = FALSE, TypeOK, ControlOK, SerialInv, CallersInv, CalmInv,
           NEW p \in Procs, Step(p) \/ Stimulus(p), NEW q \in Procs \ {p}
    PROVE  Entering(q)'
  <1> SUFFICES ASSUME pc'[q] \in BeforeAnswer PROVE Entering(q)'
    BY DEF Entering
  <1>1. pc[q] = "inv_wait" /\ pc'[q] = "inv_wait" /\ job'[q] = job[q]
    BY OneAtWorkStep DEF SerialInv, AtRest, BeforeAnswer
  <1>2. job[q].slot \in Slots /\ job[q].dlg \in Dialogs /\ job[q].op = "INVITE"
    BY <1>1, Readable DEF HandlerPcs, SerialInv, Informed, CallerKnown, CalmInv, CalmAt,
       Entering, BeforeAnswer
  <1>3. PICK s \in Slots, d \in Dialogs : s = job[q].slot /\ d = job[q].dlg
    BY <1>2
  <1>4. call_id[s] = d /\ Early(s) /\ Active(s) /\ ua[d] < UA_CONFIRMED
    BY <1>1, <1>3 DEF CalmInv, CalmAt, Entering, BeforeAnswer, Early, Active
  <1>5. ua[d] \in 0..4 /\ ua'[d] \in 0..4 /\ UA_CONFIRMED = 3 /\ ua[d] # UA_IDLE
    <2>1. TypeOK'
      BY TypeStep DEF Next
    <2>2. UaTypes /\ ua' \in [Dialogs -> UA_IDLE..UA_REFERRED]
      BY <2>1, TypeParts DEF TypeOK
    <2>3. QED
      BY <1>2, <1>3, <2>2 DEF UaTypes, UA_IDLE, UA_REFERRED, UA_CONFIRMED, SerialInv, Informed, CallerKnown, Messages
  <1>6. call_id'[s] = d /\ StateMove(p, s)
    BY <1>4, ActiveMoves
  <1>7. ua'[d] < UA_CONFIRMED
    <2>1. SUFFICES ASSUME ua'[d] >= UA_CONFIRMED PROVE FALSE
      BY <1>5
    <2>2. CASE InviteAnswer(p) /\ d = job[p].dlg
      <3>1. job[p].op = "INVITE"
        BY <2>2 DEF InviteAnswer, CalmInv, CalmAt, Entering, BeforeAnswer
      <3>2. QED
        BY <1>2, <1>3, <2>2, <3>1 DEF CalmInv, OneInvite
    <2>3. CASE ReferSend(p) /\ d = call_id[job[p].slot]
      <3>1. job[p].slot \in Slots /\ call_state[job[p].slot] = CLSTA_REFER
        BY <2>3, Readable DEF ReferSend, SerialInv, Informed, StateKnown
      <3>2. job[p].slot = s
        BY <1>4, <2>3, <3>1, StateNumbers DEF SerialInv, OneSlotPerCall, Active
      <3>3. QED
        BY <1>4, <3>1, <3>2, StateNumbers DEF Early
    <2>4. QED
      BY <1>4, <1>5, <2>1, <2>2, <2>3, AnswersSpread
  <1>8. Early(s)'
    <2>1. call_state[s] \in 1..199
      BY <1>4, StateNumbers DEF Early
    <2>2. CASE QueuedStep(p, s)
      <3>1. AckQueue(p) /\ s = job[p].slot
        BY <2>1, <2>2, StateNumbers DEF QueuedStep
      <3>2. pc[p] = "ack_queue" /\ job[p].op \in Messages
        BY <3>1, Readable, WorkingPlaces DEF AckQueue, HandlerPcs
      <3>3. ua[job[p].dlg] >= UA_CONFIRMED /\ call_id[s] = job[p].dlg
        BY <3>1, <3>2 DEF CallersInv, CallerAt
      <3>4. QED
        BY <1>4, <1>5, <3>3
    <2>3. CASE EndingStep(p, s)
      <3>1. CloseCall(p) /\ s = job[p].slot
        BY <1>4, <2>3 DEF EndingStep
      <3>2. pc[p] = "close" /\ job[p].op # "drop"
        BY <1>1, <3>1 DEF CloseCall, CalmInv, CalmAt, DropsAlone
      <3>3. QED
        BY <1>4, <3>1, <3>2 DEF CalmInv, CalmAt, Closing
    <2>4. CASE FreedStep(p, s)
      BY <1>1, <1>3, <2>4 DEF FreedStep, FreeSlot, CalmInv, CalmAt, Deleting
    <2>5. CASE call_state'[s] = call_state[s] \/ EntersStep(s)
      BY <1>4, <2>5 DEF Early, EntersStep
    <2>6. ~ReferredStep(p, s) /\ ~AcceptedStep(s)
      BY <2>1, StateNumbers DEF ReferredStep, AcceptedStep
    <2>7. QED
      BY <1>6, <2>2, <2>3, <2>4, <2>5, <2>6 DEF StateMove
  <1>9. QED
    BY <1>1, <1>2, <1>3, <1>6, <1>7, <1>8 DEF Entering, Early

(* first_invite_msg on its way to the answer.                              *)
LEMMA EnteringStep ==
    ASSUME TypeOK, ControlOK, SerialInv, CallersInv, CalmInv, NEW p \in Procs, Step(p) \/ Stimulus(p)
    PROVE  Entering(p)'
  <1> SUFFICES ASSUME pc'[p] \in BeforeAnswer PROVE Entering(p)'
    BY DEF Entering
  <1>1. /\ \/ InviteOffer(p) \/ InviteTransaction(p) \/ InviteTrying(p) \/ InviteRing(p)
           \/ InvitePrack(p) \/ InviteWait(p) \/ InviteCancelled(p)
        /\ job'[p] = job[p]
    BY EnteringReached
  <1>2. pc[p] \in BeforeAnswer \/ (pc[p] = "handle" /\ job[p].op = "INVITE")
    BY <1>1 DEF InviteOffer, InviteTransaction, InviteTrying, InviteRing, InvitePrack,
       InviteWait, InviteCancelled, Handles, BeforeAnswer
  <1>3. job[p].slot \in Slots /\ StateTypes /\ job[p].op \in Messages
    BY <1>2, Readable, WorkingPlaces DEF BeforeAnswer, HandlerPcs
  <1>4. /\ job[p].op = "INVITE" /\ call_id[job[p].slot] = job[p].dlg
        /\ Early(job[p].slot) /\ ua[job[p].dlg] < UA_CONFIRMED /\ job[p].dlg \in Dialogs
    BY <1>2, <1>3
    DEF CalmInv, CalmAt, Entering, CallersInv, CallerAt, SerialInv, Informed, StateKnown,
        CallerKnown
  <1>5. ua'[job[p].dlg] < UA_CONFIRMED
    <2>1. ua[job[p].dlg] \in 0..4 /\ UA_CONFIRMED = 3 /\ UA_EARLY = 2 /\ UaTypes
      BY <1>4, Readable DEF UaTypes, UA_IDLE, UA_REFERRED, UA_CONFIRMED, UA_EARLY
    <2>2. CASE InviteRing(p)
      BY <1>4, <2>1, <2>2 DEF InviteRing, UaTypes
    <2>3. CASE ~InviteRing(p)
      BY <1>1, <1>4, <2>3 DEF InviteOffer, InviteTransaction, InviteTrying, InvitePrack,
         InviteWait, InviteCancelled, world
    <2>4. QED
      BY <2>2, <2>3
  <1>6. call_id' = call_id
    BY <1>1 DEF InviteOffer, InviteTransaction, InviteTrying, InviteRing, InvitePrack,
       InviteWait, InviteCancelled, table
  <1>7. PICK s \in Slots : s = job[p].slot
    BY <1>3
  <1>8. Early(s)'
    <2>1. \/ UNCHANGED call_state
          \/ SetState(s, CLSTA_TRYING) \/ SetState(s, CLSTA_PRACKSTRT)
      BY <1>1, <1>7 DEF InviteOffer, InviteTransaction, InviteTrying, InviteRing,
         InvitePrack, InviteWait, InviteCancelled, table
    <2>2. QED
      BY <1>3, <1>4, <1>7, <2>1, StateStored, StateNumbers DEF Early
  <1>9. QED
    BY <1>1, <1>4, <1>5, <1>6, <1>7, <1>8 DEF Entering, Early

(* A call that was told BYE stays so until its BYE is answered.            *)
LEMMA ByesOwedStep ==
    ASSUME TypeOK, ControlOK, SerialInv, CallersInv, CalmInv,
           NEW p \in Procs, Step(p) \/ Stimulus(p)
    PROVE  ByesOwed'
  <1> SUFFICES ASSUME NEW t \in tm', t.kind = "bye"
               PROVE  call_state'[t.slot] = CLSTA_BYE /\ call_id'[t.slot] = t.dlg
    BY DEF ByesOwed
  <1>1. CASE t \in tm
    <2>1. PICK s \in Slots : s = t.slot
      BY <1>1, TypeParts DEF TmTypes, Transactions
    <2>2. call_state[s] = CLSTA_BYE /\ call_id[s] = t.dlg
      BY <1>1, <2>1 DEF CalmInv, ByesOwed
    <2>3. call_id'[s] = call_id[s] /\ StateMove(p, s)
      BY <2>2, ActiveMoves, StateNumbers DEF Active
    <2>4. ~EntersStep(s) /\ ~QueuedStep(p, s) /\ ~ReferredStep(p, s) /\ ~AcceptedStep(s)
      BY <2>2, StateNumbers
      DEF EntersStep, QueuedStep, ReferredStep, AcceptedStep, Early
    <2>5. ~(Bye(p) /\ s = job[p].slot)
      <3>1. SUFFICES ASSUME Bye(p), s = job[p].slot PROVE FALSE
        OBVIOUS
      <3>2. call_id[s] = job[p].dlg /\ job[p].op = "BYE"
        BY <3>1 DEF Bye, Handles, CallersInv, CallerAt, Messages
      <3>3. QED
        BY <1>1, <2>2, <3>2 DEF CalmInv, CalmAt, NoCrossing
    <2>6. ~FreedStep(p, s)
      BY <1>1, <2>1 DEF FreedStep, FreeSlot, CalmInv, CalmAt, Deleting
    <2>7. call_state'[s] = CLSTA_BYE
      BY <2>2, <2>3, <2>4, <2>5, <2>6 DEF StateMove, EndingStep
    <2>8. QED
      BY <2>1, <2>2, <2>3, <2>7
  <1>2. CASE t \notin tm
    <2>1. /\ CloseCall(p) /\ t.slot = job[p].slot /\ t.dlg = call_id[job[p].slot]
          /\ job[p].slot \in Slots /\ StateTypes
      BY <1>2, TransactionsStarted, Readable DEF CloseCall
    <2>2. PICK s \in Slots : s = job[p].slot
      BY <2>1
    <2>3. SetState(s, CLSTA_BYE) /\ UNCHANGED call_id
      BY <1>2, <2>1, <2>2 DEF CloseCall
    <2>4. call_state'[s] = CLSTA_BYE
      BY <2>1, <2>3, StateStored
    <2>5. QED
      BY <2>1, <2>2, <2>3, <2>4
  <1>3. QED
    BY <1>1, <1>2

(* One process per INVITE, and BYEs and drops alone.                       *)
LEMMA JobsStep ==
    ASSUME Overlap = FALSE, Faults \cap {"resend", "early", "glare"} = {},
           TypeOK, ControlOK, SerialInv, CallersInv, CalmInv, NEW p \in Procs, Step(p) \/ Stimulus(p)
    PROVE  OneInvite' /\ NoCrossing(p)' /\ DropsAlone(p)'
  <1>1. ControlTypes /\ \A q \in Procs \ {p} : AtRest(q) /\ pc'[q] = pc[q] /\ job'[q] = job[q]
    BY OneAtWorkStep, TypeParts DEF SerialInv
  <1>2. ASSUME NEW op \in Ops, NEW d \in Dialogs, StartMessage(p, op, d)
        PROVE  /\ job'[p].op = op /\ job'[p].dlg = d /\ op \in Messages /\ UNCHANGED tm
               /\ MayArrive(op, d)
    BY <1>1, <1>2 DEF StartMessage, ControlTypes, IdleJob
  <1>3. ASSUME NEW op \in Ops, NEW d \in Dialogs \cup {NoCall}, StartScan(p, op, d)
        PROVE  /\ job'[p].op = op /\ op \in Scans /\ pc'[p] = "scan"
               /\ op = "drop" => \A q \in Procs : pc[q] # "inv_wait"
    BY <1>1, <1>3 DEF StartScan, ControlTypes, IdleJob
  <1>4. OneInvite'
    <2>1. SUFFICES ASSUME NEW q \in Procs \ {p}, job[q].op = "INVITE", job'[p].op = "INVITE",
                          job'[p].dlg = job[q].dlg
                   PROVE  FALSE
      BY <1>1 DEF OneInvite, CalmInv
    <2>2. CASE \E op \in Ops, d \in Dialogs : StartMessage(p, op, d)
      <3>1. PICK op \in Ops, d \in Dialogs : StartMessage(p, op, d)
        BY <2>2
      <3>2. ua[d] = UA_IDLE
        BY <1>2, <2>1, <3>1 DEF MayArrive
      <3>3. ua[job[q].dlg] # UA_IDLE
        BY <2>1 DEF SerialInv, Informed, CallerKnown, Messages
      <3>4. QED
        BY <1>2, <2>1, <3>1, <3>2, <3>3
    <2>3. CASE job'[p].op = job[p].op /\ job'[p].dlg = job[p].dlg
      BY <2>1, <2>3 DEF CalmInv, OneInvite
    <2>4. QED
      BY <2>1, <2>2, <2>3, MessageKept DEF Messages
  <1>5. NoCrossing(p)'
    <2>1. SUFFICES ASSUME job'[p].op = "BYE"
                   PROVE  /\ ua'[job'[p].dlg] >= UA_CONFIRMED
                          /\ \A t \in tm' : t.kind = "bye" => t.dlg # job'[p].dlg
      BY DEF NoCrossing
    <2>2. CASE \E op \in Ops, d \in Dialogs : StartMessage(p, op, d)
      <3>1. PICK op \in Ops, d \in Dialogs : StartMessage(p, op, d)
        BY <2>2
      <3>2. ua[d] >= UA_CONFIRMED /\ \A t \in tm : ~(t.kind = "bye" /\ t.dlg = d)
        BY <1>2, <2>1, <3>1 DEF MayArrive
      <3>3. QED
        BY <1>2, <3>1, <3>2, AnswersSpread
    <2>3. CASE job'[p].op = job[p].op /\ job'[p].dlg = job[p].dlg
      <3>1. job[p].dlg \in Dialogs /\ ua[job[p].dlg] >= UA_CONFIRMED
        BY <2>1, <2>3 DEF CalmInv, CalmAt, NoCrossing, SerialInv, Informed, CallerKnown, Messages
      <3>2. ~CloseCall(p)
        BY <2>1, <2>3 DEF CloseCall, CalmInv, CalmAt, Closing
      <3>3. QED
        BY <2>1, <2>3, <3>1, <3>2, AnswersSpread, TransactionsStarted
        DEF CalmInv, CalmAt, NoCrossing
    <2>4. QED
      BY <2>1, <2>2, <2>3, MessageKept DEF Messages
  <1>6. DropsAlone(p)'
    <2>1. SUFFICES ASSUME job'[p].op = "drop", NEW q \in Procs, pc'[q] = "inv_wait" PROVE FALSE
      BY DEF DropsAlone
    <2>2. CASE \E op \in Ops, d \in Dialogs \cup {NoCall} : StartScan(p, op, d)
      BY <1>1, <1>3, <2>1, <2>2
    <2>3. CASE job'[p].op = job[p].op
      <3>1. q = p
        BY <1>1, <2>1, <2>3 DEF CalmInv, CalmAt, DropsAlone
      <3>2. InvitePrack(p) \/ InviteOffer(p) \/ InviteTransaction(p) \/ InviteTrying(p)
            \/ InviteRing(p) \/ InviteWait(p) \/ InviteCancelled(p)
        BY <2>1, <3>1, EnteringReached DEF BeforeAnswer
      <3>3. pc[p] \in HandlerPcs
        BY <3>2 DEF InviteOffer, InviteTransaction, InviteTrying, InviteRing, InvitePrack,
           InviteWait, InviteCancelled, Handles, HandlerPcs
      <3>4. QED
        BY <2>1, <2>3, <3>3 DEF ControlOK, Messages
    <2>4. ~\E op \in Ops, d \in Dialogs : StartMessage(p, op, d)
      BY <1>2, <2>1, KindsApart
    <2>5. QED
      BY <2>1, <2>2, <2>3, <2>4, JobKept, KindsApart
  <1>7. QED
    BY <1>4, <1>5, <1>6

(* A call that is deleted was not in queue, no BYE of it is unanswered and *)
(* nobody waits for its PRACK.                                             *)
LEMMA DeletingStep ==
    ASSUME Overlap = FALSE, Faults \cap {"tm", "mem", "late"} = {},
           TypeOK, ControlOK, SerialInv, CallersInv, CalmInv, NEW p \in Procs, Step(p) \/ Stimulus(p)
    PROVE  Deleting(p)'
  <1> SUFFICES ASSUME pc'[p] \in {"end", "del", "free"} PROVE Deleting(p)'
    BY DEF Deleting
  <1>1. \A q \in Procs \ {p} : AtRest(q) /\ pc'[q] = pc[q] /\ job'[q] = job[q]
    BY OneAtWorkStep DEF SerialInv
  <1>2. ASSUME NEW u \in tm, u.kind = "bye"
        PROVE  call_state[u.slot] = CLSTA_BYE /\ call_id[u.slot] = u.dlg
    BY <1>2 DEF CalmInv, ByesOwed
  <1>3. ASSUME NEW q \in Procs, pc[q] = "inv_wait"
        PROVE  /\ job[q].op = "INVITE" /\ call_id[job[q].slot] = job[q].dlg
               /\ Early(job[q].slot) /\ ua[job[q].dlg] < UA_CONFIRMED
    BY <1>3 DEF CalmInv, CalmAt, Entering, BeforeAnswer
  <1> DEFINE Safe(slot) == /\ call_state'[slot] # CLSTA_INQUEUE
                           /\ \A u \in tm' : u.kind = "bye" => u.slot # slot
                           /\ \A q \in Procs \ {p} : pc[q] = "inv_wait" => job[q].slot # slot
  <1>4. SUFFICES Safe(job'[p].slot)
    BY <1>1 DEF Deleting
  <1>5. ASSUME NEW slot \in Slots, call_state[slot] # CLSTA_INQUEUE, call_state[slot] # CLSTA_BYE,
               ~Early(slot) \/ \A q \in Procs \ {p} : job[q].op = "INVITE" => job[q].dlg # call_id[slot],
               UNCHANGED call_state, tm' \subseteq tm
        PROVE  Safe(slot)
    BY <1>2, <1>3, <1>5
  <1>6. CASE pc[p] \in {"end", "del"} /\ job'[p] = job[p] /\ UNCHANGED <<call_state, tm>>
    BY <1>6 DEF CalmInv, CalmAt, Deleting
  <1>7. CASE /\ InviteRefuse(p) \/ InviteWait(p) \/ InviteCancelled(p) \/ InviteAnswer(p)
             /\ job'[p] = job[p] /\ UNCHANGED <<call_state, tm>>
    <2>1. pc[p] \in BeforeAnswer \/ (pc[p] = "handle" /\ job[p].op = "INVITE")
      BY <1>7 DEF InviteRefuse, InviteWait, InviteCancelled, InviteAnswer, Handles, BeforeAnswer
    <2>2. job[p].slot \in Slots
      BY <2>1, Readable DEF BeforeAnswer
    <2>3. job[p].op = "INVITE" /\ Early(job[p].slot) /\ call_id[job[p].slot] = job[p].dlg
      BY <2>1
      DEF CalmInv, CalmAt, Entering, SerialInv, Informed, StateKnown, CallersInv, CallerAt,
          Messages
    <2>4. \A q \in Procs \ {p} : job[q].op = "INVITE" => job[q].dlg # job[p].dlg
      BY <2>3 DEF CalmInv, OneInvite
    <2>5. call_state[job[p].slot] # CLSTA_INQUEUE /\ call_state[job[p].slot] # CLSTA_BYE
      BY <2>3, StateNumbers DEF Early
    <2>6. QED
      BY <1>5, <1>7, <2>2, <2>3, <2>4, <2>5
  <1>8. CASE Bye(p) /\ State(p) # CLSTA_BYEOK /\ job'[p] = job[p]
    <2>1. /\ pc[p] = "handle" /\ job[p].op = "BYE" /\ job[p].slot \in Slots
          /\ StateTypes /\ UNCHANGED tm
      BY <1>8, Readable DEF Bye, Handles
    <2>2. PICK slot \in Slots : slot = job[p].slot
      BY <2>1
    <2>3. /\ call_id[slot] = job[p].dlg /\ ua[job[p].dlg] >= UA_CONFIRMED
          /\ \A u \in tm : u.kind = "bye" => u.dlg # job[p].dlg
          /\ job[p].dlg \in Dialogs
      BY <2>1, <2>2
      DEF CallersInv, CallerAt, CalmInv, CalmAt, NoCrossing, Messages, SerialInv, Informed,
          CallerKnown
    <2>4. ua[job[p].dlg] \in 0..4 /\ UA_CONFIRMED = 3
      BY <2>3, Readable DEF UaTypes, UA_IDLE, UA_REFERRED, UA_CONFIRMED
    <2>5. call_state'[slot] # CLSTA_INQUEUE
      <3>1. CASE State(p) >= CLSTA_INQUEUE
        BY <1>8, <2>1, <2>2, <3>1, StateStored, StateNumbers DEF Bye
      <3>2. CASE ~(State(p) >= CLSTA_INQUEUE)
        BY <1>8, <2>1, <2>2, <3>2, Readable, StateNumbers DEF Bye, State
      <3>3. QED
        BY <3>1, <3>2
    <2>6. QED
      BY <1>2, <1>3, <1>8, <2>1, <2>2, <2>3, <2>4, <2>5
  <1>9. CASE /\ Notify(p) /\ State(p) = CLSTA_RFRWAIT
             /\ job'[p] = job[p] /\ UNCHANGED <<call_state, tm>>
    <2>1. job[p].slot \in Slots /\ call_state[job[p].slot] = CLSTA_RFRWAIT
      BY <1>9, Readable DEF Notify, Handles, State
    <2>2. QED
      BY <1>5, <1>9, <2>1, StateNumbers DEF Early
  <1>10. ASSUME NEW t \in tm, job'[p].slot = t.slot, UNCHANGED call_state,
                \/ InviteCb(p, t) /\ call_state[t.slot] < CLSTA_INQUEUE
                \/ ReferCb(p, t) /\ call_state[t.slot] = CLSTA_REFER
                \/ ByeCb(p, t)
         PROVE  Safe(job'[p].slot)
    <2>1. t.slot \in Slots /\ tm' = tm \ {t} /\ t \in Transactions
      BY <1>10, TypeParts DEF TmTypes, Transactions, InviteCb, ReferCb, ByeCb
    <2>2. CASE InviteCb(p, t) /\ call_state[t.slot] < CLSTA_INQUEUE
      <3>1. call_id[t.slot] = t.dlg /\ ~InHandler(t)
        BY <2>2 DEF InviteCb, InTime
      <3>2. \A q \in Procs : job[q].op = "INVITE" => job[q].dlg # t.dlg
        BY <3>1 DEF InHandler, ControlOK
      <3>3. QED
        BY <1>5, <1>10, <2>1, <2>2, <3>1, <3>2, StateNumbers
    <2>3. CASE ReferCb(p, t) /\ call_state[t.slot] = CLSTA_REFER
      BY <1>5, <1>10, <2>1, <2>3, StateNumbers DEF Early
    <2>4. CASE ByeCb(p, t)
      <3>1. t.kind = "bye" /\ call_state[t.slot] = CLSTA_BYE /\ call_id[t.slot] = t.dlg
        BY <1>2, <2>4 DEF ByeCb
      <3>2. \A u \in tm : u.kind = "bye" /\ u.slot = t.slot => u = t
        <4>1. ASSUME NEW u \in tm, u.kind = "bye", u.slot = t.slot PROVE u = t
          <5>1. u \in Transactions /\ u.dlg = t.dlg
            BY <1>2, <3>1, <4>1, TypeParts DEF TmTypes
          <5>2. QED
            BY <2>1, <3>1, <4>1, <5>1 DEF Transactions
        <4>2. QED
          BY <4>1
      <3>3. \A q \in Procs \ {p} : pc[q] = "inv_wait" => job[q].slot # t.slot
        BY <1>3, <3>1, StateNumbers DEF Early
      <3>4. QED
        BY <1>10, <2>1, <3>1, <3>2, <3>3, StateNumbers
    <2>5. QED
      BY <1>10, <2>2, <2>3, <2>4
  <1> HIDE DEF Safe
  <1>11. QED
    BY <1>6, <1>7, <1>8, <1>9, <1>10, DeletingReached

(* Every step keeps the handlers out of each other's way.                  *)
LEMMA CalmStep ==
    ASSUME Overlap = FALSE,
           Faults \cap {"tm", "mem", "resend", "early", "glare", "late"} = {},
           TypeOK, ControlOK, SerialInv, CallersInv, CalmInv, [Next]_vars
    PROVE  CalmInv'
  <1>1. CASE UNCHANGED vars
    BY <1>1
    DEF vars, table, world, CalmInv, OneInvite, ByesOwed, CalmAt, Entering, NoCrossing,
        DropsAlone, Closing, Deleting, Early
  <1>2. ASSUME NEW d \in Dialogs, SessionExpires(d) PROVE CalmInv'
    BY <1>2
    DEF SessionExpires, table, control, CalmInv, OneInvite, ByesOwed, CalmAt, Entering,
        NoCrossing, DropsAlone, Closing, Deleting, Early
  <1>3. ASSUME NEW p \in Procs, Step(p) \/ Stimulus(p) PROVE CalmInv'
    <2>1. OneInvite' /\ ByesOwed' /\ CalmAt(p)'
      BY <1>3, JobsStep, ByesOwedStep, EnteringStep, ClosingStep, DeletingStep DEF CalmAt
    <2>2. ASSUME NEW q \in Procs \ {p} PROVE CalmAt(q)'
      <3>1. pc'[q] \in {"idle", "inv_wait"} /\ pc'[q] = pc[q] /\ job'[q] = job[q]
        BY <1>3, OneAtWorkStep DEF SerialInv, AtRest
      <3>2. job[q].op \in {"none", "INVITE"}
        BY <3>1 DEF ControlOK, CalmInv, CalmAt, Entering, BeforeAnswer
      <3>3. QED
        BY <1>3, <3>1, <3>2, WaitingStep DEF CalmAt, NoCrossing, DropsAlone, Closing, Deleting
    <2>3. QED
      BY <2>1, <2>2 DEF CalmInv
  <1>4. QED
    BY <1>1, <1>2, <1>3 DEF Next

(* At first nobody works.                                                  *)
LEMMA CalmInit == Init => CalmInv
  <1> SUFFICES ASSUME Init PROVE CalmInv
    OBVIOUS
  <1>1. tm = {} /\ \A p \in Procs : pc[p] = "idle" /\ job[p].op = "none"
    BY DEF Init, IdleJob
  <1>2. QED
    BY <1>1 DEF CalmInv, OneInvite, ByesOwed, CalmAt, Entering, NoCrossing, DropsAlone,
       Closing, Deleting, BeforeAnswer

(* The callers know what they should, whatever the music does.             *)
LEMMA CallersStep ==
    ASSUME Overlap = FALSE, "resend" \notin Faults, TypeOK, ControlOK, SerialInv, CallersInv,
           [Next]_vars
    PROVE  CallersInv'
  <1>1. CASE UNCHANGED vars
    BY <1>1 DEF vars, table, world, CallersInv, CallerAt
  <1>2. ASSUME NEW d \in Dialogs, SessionExpires(d) PROVE CallersInv'
    BY <1>2 DEF SessionExpires, table, control, CallersInv, CallerAt
  <1>3. QED
    BY <1>1, <1>2, CallerAtStep DEF Next

LEMMA CallersInit == Init => CallersInv
  BY KindsApart DEF Init, IdleJob, CallersInv, CallerAt

(* Nothing that a handler is still working on is closed, answered or       *)
(* deleted by another one: no callback comes for the call of a handler, no *)
(* message or command ends a call that waits for its PRACK, and only one   *)
(* BYE of a call is ever unanswered.                                       *)
THEOREM CalmInvariant ==
    ASSUME Overlap = FALSE,
           Faults \cap {"tm", "mem", "resend", "early", "glare", "late"} = {}
    PROVE  Spec => [](SerialInv /\ OnceInv /\ CallersInv /\ CalmInv)
  <1>1. "resend" \notin Faults
    OBVIOUS
  <1>2. TypeOK /\ ControlOK /\ SerialInv /\ CallersInv /\ [Next]_vars => CallersInv'
    BY <1>1, CallersStep
  <1>3. TypeOK /\ ControlOK /\ SerialInv /\ CallersInv /\ CalmInv /\ [Next]_vars => CalmInv'
    BY CalmStep
  <1>4. Spec => [](SerialInv /\ OnceInv)
    BY <1>1, OnceInvariant
  <1>5. QED
    BY <1>2, <1>3, <1>4, CallersInit, CalmInit, ControlInvariant, PTL DEF Spec

-----------------------------------------------------------------------------
(* The promises of QueueService. How far the call of a slot is:            *)
StatePhase(s) ==
    CASE call_state[s] < CLSTA_INQUEUE -> "entering"
      [] call_state[s] = CLSTA_INQUEUE -> "queued"
      [] call_state[s] \in {CLSTA_REFER, CLSTA_RFRWAIT} -> "transferring"
      [] OTHER -> "ending"

(* A caller whose INVITE was not looked up yet.                            *)
New(d) == ua[d] = UA_IDLE \/ OnItsWay(d)

(* The phase of a call is that of its slot; who has none is new or gone.   *)
PhasesRead ==
    /\ \A s \in Slots : Active(s) => Phase(call_id[s]) = StatePhase(s)
    /\ \A d \in Dialogs :
        (\A s \in Slots : Active(s) => call_id[s] # d)
        => Phase(d) = IF New(d) THEN "none" ELSE "gone"

LEMMA PhasesAreRead == OneSlotPerCall => PhasesRead
  <1> SUFFICES ASSUME OneSlotPerCall PROVE PhasesRead
    OBVIOUS
  <1>1. ASSUME NEW s \in Slots, Active(s) PROVE Phase(call_id[s]) = StatePhase(s)
    <2> DEFINE t == CHOOSE t \in Slots : Active(t) /\ call_id[t] = call_id[s]
    <2>1. t \in Slots /\ Active(t) /\ call_id[t] = call_id[s]
      BY <1>1
    <2>2. t = s
      BY <1>1, <2>1 DEF OneSlotPerCall
    <2>3. Phase(call_id[s]) = StatePhase(t)
      BY <1>1 DEF Phase, StatePhase
    <2> HIDE DEF t
    <2>4. QED
      BY <2>2, <2>3
  <1>2. ASSUME NEW d \in Dialogs, \A s \in Slots : Active(s) => call_id[s] # d
        PROVE  Phase(d) = IF New(d) THEN "none" ELSE "gone"
    BY <1>2 DEF Phase, New
  <1>3. QED
    BY <1>1, <1>2 DEF PhasesRead

LEMMA PhasesAreReadNext == OneSlotPerCall' => PhasesRead'
  BY PhasesAreRead, PTL

(* The phases by the numbers of the states.                                *)
LEMMA PhaseNumbers ==
    ASSUME TypeOK, NEW s \in Slots
    PROVE  /\ call_state[s] \in CallStates
           /\ Early(s) => StatePhase(s) = "entering"
           /\ call_state[s] = CLSTA_INQUEUE => StatePhase(s) = "queued"
           /\ call_state[s] \in {CLSTA_REFER, CLSTA_RFRWAIT} => StatePhase(s) = "transferring"
           /\ call_state[s] \in {CLSTA_BYE, CLSTA_BYEOK} => StatePhase(s) = "ending"
           /\ StatePhase(s) \in {"entering", "queued", "transferring", "ending"}
           /\ Active(s) =>
                \/ Early(s) \/ call_state[s] = CLSTA_INQUEUE
                \/ call_state[s] \in {CLSTA_REFER, CLSTA_RFRWAIT}
                \/ call_state[s] \in {CLSTA_BYE, CLSTA_BYEOK}
  <1>1. call_state[s] \in CallStates
    BY TypeParts DEF StateTypes
  <1>2. QED
    BY <1>1
    DEF CallStates, StatePhase, Early, Active, CLSTA_ENTER, CLSTA_TRYING, CLSTA_PRACKSTRT,
        CLSTA_PRACKRPLY, CLSTA_INVITED, CLSTA_CANCEL, CLSTA_INQUEUE, CLSTA_REFER,
        CLSTA_RFRWAIT, CLSTA_BYEOK, CLSTA_BYE

(* A call that is not touched keeps its phase.                             *)
LEMMA PhaseKept ==
    ASSUME PhasesRead, PhasesRead', NEW d \in Dialogs, New(d)' <=> New(d),
           \A s \in Slots :
              (Active(s) /\ call_id[s] = d) \/ (Active(s)' /\ call_id'[s] = d)
              => call_id'[s] = call_id[s] /\ call_state'[s] = call_state[s]
    PROVE  Phase(d)' = Phase(d)
  <1>1. CASE \E s \in Slots : Active(s) /\ call_id[s] = d
    <2>1. PICK s \in Slots : Active(s) /\ call_id[s] = d
      BY <1>1
    <2>2. Active(s)' /\ call_id'[s] = d /\ StatePhase(s)' = StatePhase(s)
      BY <2>1 DEF Active, StatePhase
    <2>3. Phase(d) = StatePhase(s)
      BY <2>1 DEF PhasesRead
    <2>4. Phase(d)' = StatePhase(s)'
      BY <2>2 DEF PhasesRead
    <2>5. QED
      BY <2>2, <2>3, <2>4
  <1>2. CASE ~\E s \in Slots : Active(s) /\ call_id[s] = d
    <2>1. \A s \in Slots : Active(s) => call_id[s] # d
      BY <1>2
    <2>2. \A s \in Slots : Active(s)' => call_id'[s] # d
      BY <1>2 DEF Active
    <2>3. Phase(d) = IF New(d) THEN "none" ELSE "gone"
      BY <2>1 DEF PhasesRead
    <2>4. Phase(d)' = IF New(d)' THEN "none" ELSE "gone"
      BY <2>2 DEF PhasesRead
    <2>5. QED
      BY <2>3, <2>4
  <1>3. QED
    BY <1>1, <1>2

(* What one call does is a move of QueueService.                           *)
LEMMA MoveOne ==
    ASSUME NEW d \in Dialogs, NEW from, NEW to,
           Phase(d) \in from, Phase(d)' = to,
           \A e \in Dialogs \ {d} : Phase(e)' = Phase(e)
    PROVE  Service!Move(d, from, to)
  BY DEF Service!Move

-----------------------------------------------------------------------------
(* A new caller is one until the call is looked up and not found.          *)
LEMMA NewLost ==
    ASSUME Overlap = FALSE, TypeOK, ControlOK, SerialInv, OnceInv,
           NEW p \in Procs, Step(p) \/ Stimulus(p), NEW d \in Dialogs, New(d), ~New(d)'
    PROVE  /\ Lookup(p) \/ CreateCall(p)
           /\ job[p].op = "INVITE" /\ d = job[p].dlg
  <1>1. /\ ControlTypes /\ UaTypes
        /\ pc[p] \in HandlerPcs => job[p].op \in Messages
    BY TypeParts DEF ControlOK
  <1>2. UA_IDLE = 0 /\ UA_CALLING = 1 /\ UA_EARLY = 2 /\ UA_CONFIRMED = 3 /\ UA_REFERRED = 4
    BY DEF UA_IDLE, UA_CALLING, UA_EARLY, UA_CONFIRMED, UA_REFERRED
  <1>3. CASE ua[d] = UA_IDLE
    <2>1. ua'[d] # UA_IDLE /\ ~OnItsWay(d)'
      BY DEF New
    <2>2. ~InviteRing(p) /\ ~InviteAnswer(p)
      <3>1. SUFFICES ASSUME InviteRing(p) \/ InviteAnswer(p) PROVE FALSE
        OBVIOUS
      <3>2. pc[p] \in HandlerPcs
        BY <3>1 DEF InviteRing, InviteAnswer, HandlerPcs
      <3>3. d # job[p].dlg
        BY <1>1, <1>3, <3>2 DEF SerialInv, Informed, CallerKnown
      <3>4. QED
        BY <1>1, <2>1, <1>3, <3>1, <3>3 DEF InviteRing, InviteAnswer, UaTypes
    <2>3. ~ReferSend(p)
      <3>1. SUFFICES ASSUME ReferSend(p) PROVE FALSE
        OBVIOUS
      <3>2. job[p].slot \in Slots
        BY <3>1, Readable DEF ReferSend
      <3>3. d # call_id[job[p].slot]
        BY <1>3, <3>2 DEF OnceInv, NewCallsUnseen, Unseen
      <3>4. QED
        BY <1>1, <2>1, <1>3, <3>1, <3>3 DEF ReferSend, UaTypes
    <2>4. ASSUME NEW op \in Ops, NEW e \in Dialogs, StartMessage(p, op, e) PROVE FALSE
      <3>1. e = d
        BY <1>1, <1>3, <2>1, <2>4 DEF StartMessage, UaTypes
      <3>2. op = "INVITE"
        BY <1>2, <1>3, <2>4, <3>1 DEF StartMessage, MayArrive, Messages
      <3>3. pc'[p] = "enter" /\ job'[p].op = "INVITE" /\ job'[p].dlg = d
        BY <1>1, <2>4, <3>1, <3>2 DEF StartMessage, ControlTypes, IdleJob
      <3>4. QED
        BY <2>1, <3>3 DEF OnItsWay
    <2>5. QED
      BY <1>3, <2>1, <2>2, <2>3, <2>4, UaWritten
  <1>4. CASE OnItsWay(d)
    <2>1. PICK q \in Procs : /\ job[q].op = "INVITE" /\ job[q].dlg = d
                             /\ pc[q] \in {"enter", "update", "lookup", "create"}
      BY <1>4 DEF OnItsWay
    <2>2. ~(/\ job'[q].op = "INVITE" /\ job'[q].dlg = d
            /\ pc'[q] \in {"enter", "update", "lookup", "create"})
      BY DEF New, OnItsWay
    <2>3. q = p
      BY <2>1, <2>2, OneAtWorkStep DEF SerialInv
    <2>4. \/ BeginUpdate(p) \/ EndUpdate(p) \/ SkipUpdate(p) \/ Lookup(p) \/ CreateCall(p)
      <3>1. MessageWork(p) => pc[p] \in HandlerPcs \ {"enter", "update", "lookup", "create"}
        BY DEF MessageWork, InviteRefuse, InviteOffer, InviteTransaction, InviteTrying,
           InviteRing, InvitePrack, InviteWait, InviteCancelled, InviteAnswer, InviteAccept,
           Ack, AckQueue, Prack, PrackReply, Bye, Cancel, Notify, NotifyRequeue, ReInvite,
           Deny, Handles, HandlerPcs
      <3>2. /\ TransferStep(p) => pc[p] \in {"scan", "pick", "refer", "refer_upd", "refer_send"}
            /\ EndThenDelete(p) \/ CloseCall(p) \/ DeleteRow(p) \/ FreeSlot(p) \/ UpdateRow(p)
               => pc[p] \in {"end", "close", "del", "free", "upd"}
            /\ Stimulus(p) => pc[p] = "idle"
        BY DEF TransferStep, DropScan, RetrieveScan, RetrievePick, EndScan, Refer,
           ReferUpdate, ReferSend, EndThenDelete, CloseCall, DeleteRow, FreeSlot, UpdateRow,
           Stimulus, StartMessage, StartScan, RpcDebug, Callback, InviteCb, ReferCb, ByeCb
      <3>3. /\ pc[p] \notin {"scan", "pick", "refer", "refer_upd", "refer_send"}
            /\ pc[p] \notin {"end", "close", "del", "free", "upd"} /\ pc[p] # "idle"
        BY <2>1, <2>3
      <3>4. ~MessageWork(p) /\ ~TransferStep(p) /\ ~Stimulus(p)
            /\ ~(EndThenDelete(p) \/ CloseCall(p) \/ DeleteRow(p) \/ FreeSlot(p) \/ UpdateRow(p))
        BY <2>1, <2>3, <3>1, <3>2, <3>3
      <3>5. QED
        BY <3>4, Zenon DEF Step, MessageStep, MessageWork
    <2>5. BeginUpdate(p) \/ EndUpdate(p) \/ SkipUpdate(p)
          => pc'[p] \in {"update", "lookup"} /\ job'[p] = job[p]
      BY <1>1, WhereTo DEF BeginUpdate, EndUpdate, SkipUpdate, ControlTypes
    <2>6. QED
      BY <2>1, <2>2, <2>3, <2>4, <2>5
  <1>5. QED
    BY <1>3, <1>4 DEF New

(* The callers after a step.                                               *)
LEMMA NewAfter ==
    ASSUME "resend" \notin Faults, Overlap = FALSE, TypeOK, ControlOK, SerialInv, OnceInv,
           NEW p \in Procs, Step(p) \/ Stimulus(p), NEW d \in Dialogs,
           ~(Lookup(p) \/ CreateCall(p)) \/ job[p].op # "INVITE" \/ d # job[p].dlg
    PROVE  New(d)' <=> New(d)
  <1>1. New(d)' => New(d)
    BY CallersNew DEF New
  <1>2. QED
    BY <1>1, NewLost

-----------------------------------------------------------------------------
(* A step stores one state at most.                                        *)
LEMMA OneStateStored ==
    ASSUME TypeOK, ControlOK, NEW p \in Procs, Step(p) \/ Stimulus(p)
    PROVE  UNCHANGED call_state \/ \E slot \in Slots : \E state : SetState(slot, state)
  <1> DEFINE Stored == UNCHANGED call_state \/ \E slot \in Slots : \E state : SetState(slot, state)
  <1>1. ASSUME pc[p] \notin {"idle", "enter", "update", "lookup", "scan"},
               NEW state, SetState(job[p].slot, state)
        PROVE  Stored
    BY <1>1, Readable
  <1>2. UNCHANGED call_state => Stored
    OBVIOUS
  <1>3. MessageStep(p) => Stored
    <2>1. \/ BeginUpdate(p) \/ EndUpdate(p) \/ SkipUpdate(p) \/ Lookup(p)
          \/ InviteRefuse(p) \/ InviteOffer(p) \/ InviteTransaction(p) \/ InviteRing(p)
          \/ InviteWait(p) \/ InviteCancelled(p) \/ InviteAnswer(p)
          \/ Ack(p) \/ Prack(p) \/ Notify(p) \/ ReInvite(p) \/ Deny(p)
          => UNCHANGED call_state
      BY DEF BeginUpdate, EndUpdate, SkipUpdate, Lookup, InviteRefuse, InviteOffer,
         InviteTransaction, InviteRing, InviteWait, InviteCancelled, InviteAnswer,
         Ack, Prack, Notify, ReInvite, Deny, table
    <2>2. \/ CreateCall(p) \/ InviteTrying(p) \/ InvitePrack(p) \/ InviteAccept(p)
          \/ AckQueue(p) \/ PrackReply(p) \/ Bye(p) \/ Cancel(p) \/ NotifyRequeue(p)
          => UNCHANGED call_state
             \/ (pc[p] \notin {"idle", "enter", "update", "lookup", "scan"}
                 /\ \E state : SetState(job[p].slot, state))
      BY DEF CreateCall, InviteTrying, InvitePrack, InviteAccept, AckQueue, PrackReply,
         Bye, Cancel, NotifyRequeue, Handles, table
    <2>3. QED
      BY <1>1, <1>2, <2>1, <2>2, Zenon DEF MessageStep
  <1>4. TransferStep(p) => Stored
    <2>1. DropScan(p) \/ RetrieveScan(p) \/ RetrievePick(p) \/ EndScan(p) \/ ReferUpdate(p)
          => UNCHANGED call_state
      BY DEF DropScan, RetrieveScan, RetrievePick, EndScan, ReferUpdate, table
    <2>2. Refer(p) \/ ReferSend(p)
          => UNCHANGED call_state
             \/ (pc[p] \notin {"idle", "enter", "update", "lookup", "scan"}
                 /\ \E state : SetState(job[p].slot, state))
      BY DEF Refer, ReferSend
    <2>3. QED
      BY <1>1, <1>2, <2>1, <2>2, Zenon DEF TransferStep
  <1>5. EndThenDelete(p) \/ CloseCall(p) \/ DeleteRow(p) \/ FreeSlot(p) \/ UpdateRow(p) => Stored
    <2>1. EndThenDelete(p) \/ DeleteRow(p) \/ UpdateRow(p) => UNCHANGED call_state
      BY DEF EndThenDelete, DeleteRow, UpdateRow, table
    <2>2. CloseCall(p) \/ FreeSlot(p)
          => UNCHANGED call_state
             \/ (pc[p] \notin {"idle", "enter", "update", "lookup", "scan"}
                 /\ \E state : SetState(job[p].slot, state))
      BY DEF CloseCall, FreeSlot
    <2>3. QED
      BY <1>1, <1>2, <2>1, <2>2, Zenon
  <1>6. Stimulus(p) => Stored
    <2>1. ASSUME NEW t \in tm, InviteCb(p, t) \/ ReferCb(p, t) \/ ByeCb(p, t) PROVE Stored
      <3>1. t.slot \in Slots
        BY TypeParts DEF TmTypes, Transactions
      <3>2. QED
        BY <2>1, <3>1 DEF InviteCb, ReferCb, ByeCb, table
    <2>2. RpcDebug(p) => UNCHANGED call_state
      BY DEF RpcDebug, table
    <2>3. /\ \A op \in Ops, d \in Dialogs : StartMessage(p, op, d) => UNCHANGED call_state
          /\ \A op \in Ops, d \in Dialogs \cup {NoCall} : StartScan(p, op, d) => UNCHANGED call_state
      BY DEF StartMessage, StartScan, table
    <2>4. QED
      BY <1>2, <2>1, <2>2, <2>3, Zenon DEF Stimulus, Callback
  <1>7. QED
    BY <1>3, <1>4, <1>5, <1>6, Zenon DEF Step

(* What a step does to the callers it is not about.                        *)
SamePhases == \A d \in Dialogs : Phase(d)' = Phase(d)

LEMMA StoredPhases ==
    ASSUME PhasesRead, PhasesRead', StateTypes, UNCHANGED call_id,
           \A d \in Dialogs : New(d)' <=> New(d),
           NEW slot \in Slots, NEW state, SetState(slot, state)
    PROVE  \A d \in Dialogs \ {call_id[slot]} : Phase(d)' = Phase(d)
  <1>1. \A s \in Slots \ {slot} : call_state'[s] = call_state[s]
    BY StateStored
  <1>2. QED
    BY <1>1, PhaseKept

(* The moves of QueueService that the steps from the table make.           *)
LEMMA ServiceMoves ==
    ASSUME "resend" \notin Faults, Overlap = FALSE, TypeOK, ControlOK,
           SerialInv, OnceInv, CalmInv, PhasesRead, PhasesRead',
           NEW p \in Procs, Step(p) \/ Stimulus(p), ~CreateCall(p), ~Lookup(p)
    PROVE  Service!Next \/ SamePhases
  <1>1. \A d \in Dialogs : New(d)' <=> New(d)
    BY NewAfter
  <1>2. UNCHANGED call_id /\ \A s \in Slots : Active(s)' => Active(s)
    BY OnlyCreateFills DEF SerialInv
  <1>3. StateTypes
    BY TypeParts
  <1>4. CASE UNCHANGED call_state
    BY <1>1, <1>2, <1>4, PhaseKept DEF SamePhases
  <1>5. CASE \E slot \in Slots : \E state : SetState(slot, state)
    <2>1. PICK s \in Slots : \E state : SetState(s, state)
      BY <1>5
    <2>2. \A t \in Slots \ {s} : call_state'[t] = call_state[t]
      BY <1>3, <2>1, StateStored
    <2>3. \A e \in Dialogs \ {call_id[s]} : Phase(e)' = Phase(e)
      BY <1>1, <1>2, <1>3, <2>1, StoredPhases
    <2>4. CASE ~Active(s)
      <3>1. \A t \in Slots : call_state'[t] = call_state[t]
        BY <1>2, <2>2, <2>4 DEF Active
      <3>2. QED
        BY <1>1, <1>2, <3>1, PhaseKept DEF SamePhases
    <2>5. CASE Active(s)
      <3>1. PICK d \in Dialogs : d = call_id[s]
        BY <2>5 DEF SerialInv, CallsNamed
      <3>2. StateMove(p, s)
        BY <2>5, ActiveMoves
      <3>3. Phase(d) = StatePhase(s)
        BY <2>5, <3>1 DEF PhasesRead
      <3>4. call_state'[s] # 0 => Phase(d)' = StatePhase(s)'
        BY <1>2, <3>1 DEF PhasesRead, Active
      <3>5. Phase(d)' = Phase(d) => SamePhases
        BY <2>3, <3>1 DEF SamePhases
      <3>6. ASSUME NEW from, NEW to, Phase(d) \in from, Phase(d)' = to
            PROVE  Service!Move(d, from, to)
        BY <2>3, <3>1, <3>6, MoveOne
      <3>7. CASE call_state'[s] = call_state[s]
        BY <2>5, <3>3, <3>4, <3>5, <3>7 DEF Active, StatePhase
      <3>8. CASE EntersStep(s) \/ AcceptedStep(s)
        <4>1. call_state'[s] # 0 /\ StatePhase(s)' = StatePhase(s)
          BY <3>8, StateNumbers DEF EntersStep, AcceptedStep, Early, StatePhase
        <4>2. QED
          BY <3>3, <3>4, <3>5, <4>1
      <3>9. CASE QueuedStep(p, s)
        <4>1. Phase(d)' = "queued" /\ Phase(d) \in {"entering", "transferring"}
          BY <3>3, <3>4, <3>9, PhaseNumbers, StateNumbers DEF QueuedStep, StatePhase
        <4>2. Service!Queue(d) \/ Service!Requeue(d)
          BY <3>6, <4>1 DEF Service!Queue, Service!Requeue
        <4>3. QED
          BY <4>2 DEF Service!Next
      <3>10. CASE ReferredStep(p, s)
        <4>1. Phase(d)' = "transferring" /\ Phase(d) = "queued"
          BY <3>3, <3>4, <3>10, StateNumbers DEF ReferredStep, StatePhase
        <4>2. Service!Transfer(d)
          BY <3>6, <4>1 DEF Service!Transfer
        <4>3. QED
          BY <4>2 DEF Service!Next
      <3>11. CASE EndingStep(p, s)
        <4>1. Phase(d)' = "ending"
          BY <3>4, <3>11, StateNumbers DEF EndingStep, StatePhase
        <4>2. Phase(d) \in {"entering", "queued", "transferring", "ending"}
          BY <3>3, PhaseNumbers
        <4>3. CASE Phase(d) = "ending"
          BY <3>5, <4>1, <4>3
        <4>4. CASE Phase(d) # "ending"
          <5>1. Service!End(d)
            BY <3>6, <4>1, <4>2, <4>4 DEF Service!End
          <5>2. QED
            BY <5>1 DEF Service!Next
        <4>5. QED
          BY <4>3, <4>4
      <3>12. CASE FreedStep(p, s)
        <4>1. call_state'[s] = 0 /\ call_state[s] # CLSTA_INQUEUE
          BY <3>12 DEF FreedStep, FreeSlot, CalmInv, CalmAt, Deleting
        <4>2. \A t \in Slots : Active(t)' => call_id'[t] # d
          BY <1>2, <2>5, <3>1, <4>1 DEF SerialInv, OneSlotPerCall, Active
        <4>3. ~New(d)'
          BY <1>1, <3>1 DEF OnceInv, NewCallsUnseen, Unseen, New
        <4>4. Phase(d)' = "gone"
          BY <4>2, <4>3 DEF PhasesRead
        <4>5. Phase(d) \in {"entering", "transferring", "ending"}
          BY <2>5, <3>3, <4>1, PhaseNumbers
        <4>6. Service!Fail(d) \/ Service!Abandon(d) \/ Service!Gone(d)
          BY <3>6, <4>4, <4>5 DEF Service!Fail, Service!Abandon, Service!Gone
        <4>7. QED
          BY <4>6 DEF Service!Next
      <3>13. QED
        BY <3>2, <3>7, <3>8, <3>9, <3>10, <3>11, <3>12 DEF StateMove
    <2>6. QED
      BY <2>4, <2>5
  <1>6. QED
    BY <1>4, <1>5, OneStateStored

(* find_call refuses who is not let in; who is found or let in is as new   *)
(* as before.                                                              *)
LEMMA LookupServes ==
    ASSUME "resend" \notin Faults, Overlap = FALSE, TypeOK, ControlOK,
           SerialInv, OnceInv, PhasesRead, PhasesRead', NEW p \in Procs, Lookup(p)
    PROVE  Service!Next \/ SamePhases
  <1>1. Step(p) \/ Stimulus(p)
    BY DEF Step, MessageStep
  <1>2. UNCHANGED <<call_state, call_id>>
    BY DEF Lookup, table
  <1>3. \A d \in Dialogs : (New(d)' <=> New(d)) => Phase(d)' = Phase(d)
    BY <1>2, PhaseKept
  <1>4. CASE \A d \in Dialogs : New(d)' <=> New(d)
    BY <1>3, <1>4 DEF SamePhases
  <1>5. CASE ~\A d \in Dialogs : New(d)' <=> New(d)
    <2>1. PICK d \in Dialogs : ~(New(d)' <=> New(d))
      BY <1>5
    <2>2. New(d)' => New(d)
      BY <1>1, CallersNew DEF New
    <2>3. New(d) /\ ~New(d)'
      BY <2>1, <2>2
    <2>4. \A e \in Dialogs \ {d} : New(e)' <=> New(e)
      BY <1>1, <2>3, NewLost, NewAfter
    <2>5. \A s \in Slots : call_id[s] # d
      BY <2>3 DEF OnceInv, NewCallsUnseen, Unseen, New
    <2>6. Phase(d) = "none"
      BY <2>3, <2>5 DEF PhasesRead
    <2>7. \A s \in Slots : call_id'[s] # d
      BY <1>2, <2>5
    <2>8. Phase(d)' = "gone"
      BY <2>3, <2>7 DEF PhasesRead
    <2>9. Service!Move(d, {"none"}, "gone")
      BY <1>3, <2>4, <2>6, <2>8, MoveOne
    <2>10. QED
      BY <2>9 DEF Service!Next, Service!Refuse
  <1>6. QED
    BY <1>4, <1>5

(* The instance counts as this module does.                                *)
LEMMA SameCount == Service!Cardinality(Service!Present) = Cardinality(Service!Present)
  BY DEF Cardinality, Service!Cardinality

(* A slot that is free is room for a call.                                 *)
LEMMA RoomForOne ==
    ASSUME TypeOK, CallsNamed, PhasesRead, NEW slot \in Slots, ~Active(slot)
    PROVE  Cardinality(Service!Present) < MaxCalls
  <1> DEFINE Taken == {s \in Slots : Active(s)}
             callOf == [s \in Taken |-> call_id[s]]
  <1>1. MaxCalls \in Nat
    BY TableAssumption
  <1>2. IsFiniteSet(Slots) /\ Cardinality(Slots) = MaxCalls
    BY <1>1, FS_Interval DEF Slots
  <1>3. IsFiniteSet(Slots \ {slot}) /\ Cardinality(Slots \ {slot}) = MaxCalls - 1
    BY <1>2, FS_RemoveElement
  <1>4. IsFiniteSet(Taken) /\ Cardinality(Taken) <= MaxCalls - 1
    <2>1. Taken \in SUBSET (Slots \ {slot})
      OBVIOUS
    <2> HIDE DEF Taken
    <2>2. QED
      BY <1>3, <2>1, FS_Subset
  <1>5. \A d \in Service!Present : \E s \in Taken : callOf[s] = d
    <2>1. SUFFICES ASSUME NEW d \in Dialogs, Phase(d) \notin {"none", "gone"}
                   PROVE  \E s \in Slots : Active(s) /\ call_id[s] = d
      BY DEF Service!Present
    <2>2. QED
      BY <2>1 DEF PhasesRead
  <1>6. \A s \in Taken : callOf[s] \in Service!Present
    <2>1. SUFFICES ASSUME NEW s \in Slots, Active(s) PROVE call_id[s] \in Service!Present
      OBVIOUS
    <2>2. call_id[s] \in Dialogs /\ Phase(call_id[s]) = StatePhase(s)
      BY <2>1 DEF CallsNamed, PhasesRead
    <2>3. Phase(call_id[s]) \notin {"none", "gone"}
      BY <2>2, PhaseNumbers
    <2>4. QED
      BY <2>2, <2>3 DEF Service!Present
  <1>7. callOf \in Surjection(Taken, Service!Present)
    BY <1>5, <1>6 DEF Surjection
  <1> HIDE DEF Taken, callOf
  <1>8. IsFiniteSet(Service!Present) /\ Cardinality(Service!Present) <= Cardinality(Taken)
    BY <1>4, <1>7, FS_Surjection
  <1>9. Cardinality(Service!Present) \in Nat /\ Cardinality(Taken) \in Nat
    BY <1>4, <1>8, FS_CardinalityType
  <1>10. QED
    BY <1>1, <1>4, <1>8, <1>9

(* create_call lets a new caller in.                                       *)
LEMMA CreateServes ==
    ASSUME "resend" \notin Faults, "mem" \notin Faults, Overlap = FALSE, TypeOK, ControlOK,
           SerialInv, OnceInv, PhasesRead, PhasesRead', NEW p \in Procs, CreateCall(p)
    PROVE  Service!Next
  <1>1. Step(p) \/ Stimulus(p)
    BY DEF Step, MessageStep
  <1>2. /\ StateTypes /\ IdTypes /\ job[p].slot \in Slots
        /\ pc[p] = "create" /\ job[p].op = "INVITE" /\ job[p].op \in Messages
        /\ ~Active(job[p].slot) /\ \A t \in Slots : Active(t) => call_id[t] # job[p].dlg
    BY Readable DEF CreateCall, SerialInv, Informed, SlotFresh, HandlerPcs
  <1>3. PICK s \in Slots : s = job[p].slot
    BY <1>2
  <1>4. PICK d \in Dialogs : d = job[p].dlg
    BY <1>2 DEF SerialInv, Informed, CallerKnown
  <1>5. /\ SetState(s, CLSTA_ENTER)
        /\ call_id' = [call_id EXCEPT ![s] = d]
    BY <1>3, <1>4 DEF CreateCall
  <1>6. /\ call_state'[s] = CLSTA_ENTER /\ call_id'[s] = d
        /\ \A t \in Slots \ {s} : call_state'[t] = call_state[t] /\ call_id'[t] = call_id[t]
    BY <1>2, <1>5, StateStored DEF IdTypes
  <1>7. Phase(d) = "none"
    <2>1. New(d)
      BY <1>2, <1>4 DEF New, OnItsWay
    <2>2. QED
      BY <1>2, <1>4, <2>1 DEF PhasesRead
  <1>8. Phase(d)' = "entering"
    <2>1. Active(s)' /\ StatePhase(s)' = "entering"
      BY <1>6, StateNumbers DEF Active, StatePhase
    <2>2. QED
      BY <1>6, <2>1 DEF PhasesRead
  <1>9. ASSUME NEW e \in Dialogs \ {d} PROVE Phase(e)' = Phase(e)
    <2>1. New(e)' <=> New(e)
      BY <1>1, <1>4, NewAfter
    <2>2. ASSUME NEW t \in Slots,
                 (Active(t) /\ call_id[t] = e) \/ (Active(t)' /\ call_id'[t] = e)
          PROVE  call_id'[t] = call_id[t] /\ call_state'[t] = call_state[t]
      BY <1>2, <1>3, <1>6, <2>2
    <2>3. QED
      BY <2>1, <2>2, PhaseKept
  <1>10. Cardinality(Service!Present) < MaxCalls
    BY <1>2, <1>3, RoomForOne DEF SerialInv
  <1>11. Service!Move(d, {"none"}, "entering")
    BY <1>7, <1>8, <1>9, MoveOne
  <1>12. Service!Enter(d)
    BY <1>10, <1>11, SameCount DEF Service!Enter
  <1>13. QED
    BY <1>12, Zenon DEF Service!Next

(* Every step of the handlers is a move of QueueService, or none.          *)
LEMMA ServiceStep ==
    ASSUME "resend" \notin Faults, "mem" \notin Faults, Overlap = FALSE, TypeOK, ControlOK,
           SerialInv, OnceInv, CalmInv, [Next]_vars
    PROVE  Service!Next \/ UNCHANGED [d \in Dialogs |-> Phase(d)]
  <1>1. PhasesRead
    BY PhasesAreRead DEF SerialInv
  <1>2. PhasesRead'
    BY SerialStep, PhasesAreReadNext DEF SerialInv
  <1>3. SamePhases => UNCHANGED [d \in Dialogs |-> Phase(d)]
    BY DEF SamePhases
  <1>4. ASSUME UNCHANGED <<call_state, call_id, ua, pc, job>> PROVE SamePhases
    <2>1. \A d \in Dialogs : New(d)' <=> New(d)
      BY <1>4 DEF New, OnItsWay
    <2>2. QED
      BY <1>1, <1>2, <1>4, <2>1, PhaseKept DEF SamePhases
  <1>5. ASSUME NEW d \in Dialogs, SessionExpires(d) PROVE SamePhases
    BY <1>4, <1>5 DEF SessionExpires, table, control
  <1>6. CASE UNCHANGED vars
    BY <1>3, <1>4, <1>6 DEF vars, table, world
  <1>7. ASSUME NEW p \in Procs, Step(p) \/ Stimulus(p) PROVE Service!Next \/ SamePhases
    BY <1>1, <1>2, <1>7, ServiceMoves, LookupServes, CreateServes
  <1>8. QED
    BY <1>3, <1>5, <1>6, <1>7 DEF Next

(* Nobody has called yet.                                                  *)
LEMMA ServiceInit == Init => Service!Init
  <1> SUFFICES ASSUME Init PROVE Service!Init
    OBVIOUS
  <1>1. \A d \in Dialogs : Phase(d) = "none"
    BY DEF Init, Phase, Active
  <1>2. QED
    BY <1>1 DEF Service!Init

(* As long as handlers do not overlap, but for the PRACK wait, the module  *)
(* keeps the promises of QueueService: a call comes once, enters while     *)
(* there is room, and once it is in queue it leaves only to be transferred *)
(* or to end, never by just being deleted. Each fault that is excluded     *)
(* breaks a promise.                                                       *)
THEOREM QueueServiceImplemented ==
    ASSUME Overlap = FALSE,
           Faults \cap {"tm", "mem", "resend", "early", "glare", "late"} = {}
    PROVE  Spec => ImplementsQueueService
  <1>1. "resend" \notin Faults /\ "mem" \notin Faults
    OBVIOUS
  <1>2. TypeOK /\ ControlOK /\ SerialInv /\ OnceInv /\ CalmInv /\ [Next]_vars
        => [Service!Next]_[d \in Dialogs |-> Phase(d)]
    BY <1>1, ServiceStep
  <1>3. QED
    BY <1>2, ServiceInit, ControlInvariant, CalmInvariant, PTL
    DEF Spec, ImplementsQueueService, Service!Spec
=============================================================================
