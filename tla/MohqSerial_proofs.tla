---------------------------- MODULE MohqSerial_proofs ----------------------------
(* Proofs about the handlers when their work does not overlap: one process *)
(* at most is in a handler and not in the PRACK wait. Then what a process  *)
(* has read of its slot is still true when it stores the next state there, *)
(* and from that follow what the table, the status table and the music are *)
(* worth.                                                                  *)
EXTENDS Mohq_proofs

AtRest(p) == pc[p] \in {"idle", "inv_wait"}

OneAtWork == \A p, q \in Procs : ~AtRest(p) /\ ~AtRest(q) => p = q

(* The states of a call that is not in queue yet.                          *)
Early(s) == call_state[s] \in 1..(CLSTA_INQUEUE - 1)

EarlyPlaces ==
    {"inv_tran", "inv_try", "inv_ring", "inv_prack", "inv_cancel", "inv_answer",
     "inv_accept", "ack_queue", "prack_reply"}

(* What a process that is about to store a state has read of the slot.     *)
StateKnown(p) ==
    LET s == job[p].slot
    IN /\ pc[p] \in {"handle", "close"} => Active(s)
       /\ pc[p] \in EarlyPlaces => Early(s)
       /\ pc[p] = "handle" /\ job[p].op = "INVITE" => Early(s)
       /\ pc[p] = "ntf_requeue" => call_state[s] = CLSTA_RFRWAIT
       /\ pc[p] = "refer" => call_state[s] = CLSTA_INQUEUE
       /\ pc[p] \in {"refer_upd", "refer_send"} => call_state[s] = CLSTA_REFER

(* A new call gets an open slot, and is in no other.                       *)
SlotFresh(p) ==
    pc[p] = "create" =>
        /\ job[p].op = "INVITE" /\ ~Active(job[p].slot)
        /\ \A s \in Slots : Active(s) => call_id[s] # job[p].dlg

(* The best call of a scan, which has passed it, stays in queue.           *)
BestQueued(p) ==
    /\ pc[p] \in {"scan", "pick", "close", "end", "del", "free"}
    /\ job[p].best # -1
    => job[p].best < job[p].slot /\ call_state[job[p].best] = CLSTA_INQUEUE

(* A message comes from a caller who has sent an INVITE.                   *)
CallerKnown(p) ==
    job[p].op \in Messages => job[p].dlg \in Dialogs /\ ua[job[p].dlg] # UA_IDLE

Informed(p) == StateKnown(p) /\ SlotFresh(p) /\ BestQueued(p) /\ CallerKnown(p)

CallsNamed == \A s \in Slots : Active(s) => call_id[s] \in Dialogs

SerialInv == OneAtWork /\ CallsNamed /\ OneSlotPerCall /\ \A p \in Procs : Informed(p)

-----------------------------------------------------------------------------
(* Where a step leaves the process that makes it.                          *)
LEMMA WhereTo ==
    ASSUME ControlTypes, NEW p \in Procs
    PROVE  /\ \A label : Goto(p, label) =>
                Frame(p) /\ pc'[p] = label /\ job'[p] = job[p]
           /\ Finish(p) => Frame(p) /\ pc'[p] = "idle" /\ job'[p] = IdleJob
           /\ UNCHANGED control => Frame(p) /\ pc'[p] = pc[p] /\ job'[p] = job[p]
  BY DEF ControlTypes, Jobs, Goto, Finish, Frame, control

(* The same with another slot.                                             *)
LEMMA WhereToSlot ==
    ASSUME ControlTypes, NEW p \in Procs, NEW label, NEW s, GotoSlot(p, label, s)
    PROVE  /\ Frame(p) /\ pc'[p] = label
           /\ job'[p].slot = s /\ job'[p].op = job[p].op
           /\ job'[p].best = job[p].best /\ job'[p].dlg = job[p].dlg
  BY DEF ControlTypes, Jobs, GotoSlot, Frame

(* An idle job is about nothing.                                           *)
LEMMA IdleJobFields ==
    /\ IdleJob.op = "none" /\ IdleJob.best = -1
    /\ IdleJob.slot = 0 /\ IdleJob.dlg = NoCall
  BY DEF IdleJob

(* Storing a state changes one slot.                                       *)
LEMMA StateStored ==
    ASSUME StateTypes, NEW slot \in Slots, NEW state, SetState(slot, state)
    PROVE  /\ call_state'[slot] = state
           /\ \A s \in Slots \ {slot} : call_state'[s] = call_state[s]
  BY DEF StateTypes, SetState

(* The call states by their numbers.                                       *)
LEMMA StateNumbers ==
    /\ CLSTA_ENTER = 100 /\ CLSTA_TRYING = 101 /\ CLSTA_PRACKSTRT = 102
    /\ CLSTA_PRACKRPLY = 103 /\ CLSTA_INVITED = 104 /\ CLSTA_CANCEL = 105
    /\ CLSTA_INQUEUE = 200 /\ CLSTA_REFER = 301 /\ CLSTA_RFRWAIT = 302
    /\ CLSTA_BYEOK = 304 /\ CLSTA_BYE = 305
    /\ CallStates \subseteq Nat
    /\ \A state \in CallStates : state \in 1..199 <=> state # 0 /\ state < 200
  BY DEF CallStates, CLSTA_ENTER, CLSTA_TRYING, CLSTA_PRACKSTRT,
         CLSTA_PRACKRPLY, CLSTA_INVITED, CLSTA_CANCEL, CLSTA_INQUEUE,
         CLSTA_REFER, CLSTA_RFRWAIT, CLSTA_BYEOK, CLSTA_BYE

-----------------------------------------------------------------------------
(* Whoever makes a step, all others are at rest: a process that was        *)
(* working is the only one, and one that was not needs CanRun.             *)
LEMMA OthersRest ==
    ASSUME Overlap = FALSE, OneAtWork, NEW p \in Procs, Step(p) \/ Stimulus(p)
    PROVE  \A q \in Procs \ {p} : AtRest(q)
  <1>1. ASSUME CanRun(p) PROVE \A q \in Procs \ {p} : AtRest(q)
    BY <1>1 DEF CanRun, AtRest
  <1>2. ASSUME ~AtRest(p) PROVE \A q \in Procs \ {p} : AtRest(q)
    BY <1>2 DEF OneAtWork
  <1>3. MessageStep(p) => CanRun(p) \/ ~AtRest(p)
    BY DEF MessageStep, BeginUpdate, EndUpdate, SkipUpdate, Lookup, CreateCall,
       InviteRefuse, InviteOffer, InviteTransaction, InviteTrying, InviteRing,
       InvitePrack, InviteWait, InviteCancelled, InviteAnswer, InviteAccept,
       Ack, AckQueue, Prack, PrackReply, Bye, Cancel, Notify, NotifyRequeue,
       ReInvite, Deny, Handles, AtRest
  <1>4. TransferStep(p) => ~AtRest(p)
    BY DEF TransferStep, DropScan, RetrieveScan, RetrievePick, EndScan, Refer,
       ReferUpdate, ReferSend, AtRest
  <1>5. /\ EndThenDelete(p) \/ CloseCall(p) \/ DeleteRow(p) \/ FreeSlot(p) \/ UpdateRow(p)
        => ~AtRest(p)
    BY DEF EndThenDelete, CloseCall, DeleteRow, FreeSlot, UpdateRow, AtRest
  <1>6. Stimulus(p) => CanRun(p)
    BY DEF Stimulus, StartMessage, StartScan, RpcDebug, Callback, InviteCb, ReferCb, ByeCb
  <1>7. QED
    BY <1>1, <1>2, <1>3, <1>4, <1>5, <1>6 DEF Step

(* A step is about one process.                                            *)
LEMMA StepFrames ==
    ASSUME TypeOK, ControlOK, NEW p \in Procs, Step(p) \/ Stimulus(p)
    PROVE  Frame(p)
  <1>1. ControlTypes
    BY TypeParts
  <1>2. RpcDebug(p) => Frame(p)
    BY DEF RpcDebug, Frame
  <1>3. Refer(p) => Frame(p)
    BY <1>1, WhereTo DEF Refer
  <1>4. QED
    BY <1>2, <1>3, StepOrderly DEF Orderly

(* So one process is at work afterwards, if any.                           *)
LEMMA OneAtWorkStep ==
    ASSUME TypeOK, ControlOK, Overlap = FALSE, OneAtWork,
           NEW p \in Procs, Step(p) \/ Stimulus(p)
    PROVE  /\ OneAtWork'
           /\ \A q \in Procs \ {p} :
                AtRest(q) /\ pc'[q] = pc[q] /\ job'[q] = job[q]
  BY OthersRest, StepFrames DEF OneAtWork, AtRest, Frame

-----------------------------------------------------------------------------
(* Who has news for the callers.                                           *)
LEMMA UaWritten ==
    ASSUME NEW p \in Procs, Step(p) \/ Stimulus(p)
    PROVE  \/ UNCHANGED ua \/ InviteRing(p) \/ InviteAnswer(p) \/ ReferSend(p)
           \/ \E op \in Ops, e \in Dialogs : StartMessage(p, op, e)
  <1>1. MessageStep(p) => UNCHANGED ua \/ InviteRing(p) \/ InviteAnswer(p)
    <2>1. \/ BeginUpdate(p) \/ EndUpdate(p) \/ SkipUpdate(p) \/ Lookup(p)
          \/ CreateCall(p) \/ InviteRefuse(p) \/ InviteOffer(p)
          \/ InviteTransaction(p) \/ InviteTrying(p) \/ InvitePrack(p)
          \/ InviteWait(p) \/ InviteCancelled(p) \/ InviteAccept(p)
          => UNCHANGED ua
      BY DEF BeginUpdate, EndUpdate, SkipUpdate, Lookup, CreateCall, InviteRefuse,
         InviteOffer, InviteTransaction, InviteTrying, InvitePrack, InviteWait,
         InviteCancelled, InviteAccept, world
    <2>2. \/ Ack(p) \/ AckQueue(p) \/ Prack(p) \/ PrackReply(p) \/ Bye(p) \/ Cancel(p)
          \/ Notify(p) \/ NotifyRequeue(p) \/ ReInvite(p) \/ Deny(p)
          => UNCHANGED ua
      BY DEF Ack, AckQueue, Prack, PrackReply, Bye, Cancel, Notify, NotifyRequeue,
         ReInvite, Deny, world
    <2>3. QED
      BY <2>1, <2>2, Zenon DEF MessageStep
  <1>2. TransferStep(p) => UNCHANGED ua \/ ReferSend(p)
    BY DEF TransferStep, DropScan, RetrieveScan, RetrievePick, EndScan, Refer,
       ReferUpdate, world
  <1>3. /\ EndThenDelete(p) \/ CloseCall(p) \/ DeleteRow(p) \/ FreeSlot(p) \/ UpdateRow(p)
        => UNCHANGED ua
    BY DEF EndThenDelete, CloseCall, DeleteRow, FreeSlot, UpdateRow, world
  <1>4. Stimulus(p) => UNCHANGED ua \/ \E op \in Ops, e \in Dialogs : StartMessage(p, op, e)
    BY DEF Stimulus, StartScan, RpcDebug, Callback, InviteCb, ReferCb, ByeCb, world
  <1>5. QED
    BY <1>1, <1>2, <1>3, <1>4 DEF Step

(* A caller who has sent its INVITE stays one who has.                     *)
LEMMA CallersStay ==
    ASSUME TypeOK, NEW p \in Procs, Step(p) \/ Stimulus(p)
    PROVE  \A d \in Dialogs : ua[d] # UA_IDLE => ua'[d] # UA_IDLE
  <1>1. UaTypes
    BY TypeParts
  <1>2. UNCHANGED ua => \A d \in Dialogs : ua[d] # UA_IDLE => ua'[d] # UA_IDLE
    OBVIOUS
  <1>3. \A d \in Dialogs : ua[d] \in 0..4
    BY <1>1 DEF UaTypes, UA_IDLE, UA_REFERRED
  <1>4. InviteRing(p) => \A d \in Dialogs : ua[d] # UA_IDLE => ua'[d] # UA_IDLE
    BY <1>1, <1>3 DEF UaTypes, InviteRing, UA_IDLE, UA_EARLY
  <1>5. InviteAnswer(p) => \A d \in Dialogs : ua[d] # UA_IDLE => ua'[d] # UA_IDLE
    BY <1>1, <1>3 DEF UaTypes, InviteAnswer, UA_IDLE, UA_CONFIRMED
  <1>6. ReferSend(p) => \A d \in Dialogs : ua[d] # UA_IDLE => ua'[d] # UA_IDLE
    BY <1>1 DEF UaTypes, ReferSend, UA_IDLE, UA_REFERRED
  <1>7. ASSUME NEW op \in Ops, NEW e \in Dialogs, StartMessage(p, op, e)
         PROVE  \A d \in Dialogs : ua[d] # UA_IDLE => ua'[d] # UA_IDLE
    BY <1>1, <1>7 DEF UaTypes, StartMessage, UA_IDLE, UA_CALLING
  <1>8. QED
    BY <1>2, <1>4, <1>5, <1>6, <1>7, UaWritten

(* At rest a process knows nothing that a step of another could make wrong.*)
LEMMA RestInformed ==
    ASSUME TypeOK, ControlOK, Overlap = FALSE, OneAtWork,
           NEW p \in Procs, Step(p) \/ Stimulus(p),
           NEW q \in Procs \ {p}, Informed(q)
    PROVE  Informed(q)'
  <1>1. pc'[q] \in {"idle", "inv_wait"} /\ pc'[q] = pc[q] /\ job'[q] = job[q]
    BY OneAtWorkStep DEF AtRest
  <1>2. CallerKnown(q)'
    BY <1>1, CallersStay DEF CallerKnown, Informed
  <1>3. QED
    BY <1>1, <1>2 DEF Informed, StateKnown, SlotFresh, BestQueued, EarlyPlaces

(* The types that the steps below read.                                    *)
LEMMA Readable ==
    ASSUME TypeOK, ControlOK, NEW p \in Procs
    PROVE  /\ ControlTypes /\ StateTypes /\ IdTypes /\ UaTypes
           /\ \A s \in Slots : call_state[s] \in CallStates /\ call_state[s] \in Nat
           /\ pc[p] \notin {"idle", "enter", "update", "lookup", "scan"}
              => job[p].slot \in Slots
           /\ job[p].best # -1 => job[p].best \in Slots /\ job[p].op = "retrieve"
           /\ pc[p] \in HandlerPcs => job[p].op \in Messages /\ job[p].best = -1
  <1>1. ControlTypes /\ StateTypes /\ IdTypes /\ UaTypes
    BY TypeParts
  <1>2. \A s \in Slots : call_state[s] \in CallStates /\ call_state[s] \in Nat
    BY <1>1, StateNumbers DEF StateTypes
  <1>3. job[p].best # -1 => job[p].best \in Slots
    BY <1>1, JobType, SlotRange
  <1>4. QED
    BY <1>1, <1>2, <1>3, KindsApart DEF ControlOK

(* A process that becomes idle, or goes on to where it needs to know       *)
(* nothing, is informed.                                                   *)
LEMMA InformedThere ==
    ASSUME NEW p \in Procs, Informed(p),
           \/ pc'[p] = "idle" /\ job'[p] = IdleJob
           \/ /\ pc'[p] \notin {"create", "handle", "close", "ntf_requeue", "refer",
                                "refer_upd", "refer_send"} \cup EarlyPlaces
              /\ job'[p].op = job[p].op /\ job'[p].dlg = job[p].dlg
              /\ job'[p].best = -1
              /\ \A d \in Dialogs : ua[d] # UA_IDLE => ua'[d] # UA_IDLE
    PROVE  Informed(p)'
  <1>1. CASE pc'[p] = "idle" /\ job'[p] = IdleJob
    BY <1>1, IdleJobFields, KindsApart
    DEF Informed, StateKnown, SlotFresh, BestQueued, CallerKnown, EarlyPlaces
  <1>2. CASE ~(pc'[p] = "idle" /\ job'[p] = IdleJob)
    BY <1>2
    DEF Informed, StateKnown, SlotFresh, BestQueued, CallerKnown, EarlyPlaces
  <1>3. QED
    BY <1>1, <1>2

(* mohq_process up to the handler.                                         *)
LEMMA LookupInforms ==
    ASSUME TypeOK, ControlOK, CallsNamed, NEW p \in Procs, Informed(p),
           Step(p) \/ Stimulus(p)
    PROVE  /\ BeginUpdate(p) => Informed(p)'
           /\ EndUpdate(p) => Informed(p)'
           /\ SkipUpdate(p) => Informed(p)'
           /\ Lookup(p) => Informed(p)'
           /\ CreateCall(p) => Informed(p)'
  <1>1. /\ ControlTypes /\ StateTypes /\ IdTypes
        /\ pc[p] \in HandlerPcs => job[p].op \in Messages /\ job[p].best = -1
    BY Readable
  <1>2. \A d \in Dialogs : ua[d] # UA_IDLE => ua'[d] # UA_IDLE
    BY CallersStay
  <1>3. ASSUME BeginUpdate(p) \/ EndUpdate(p) PROVE Informed(p)'
    <2>1. pc'[p] \in {"update", "lookup"} /\ job'[p] = job[p] /\ job[p].best = -1
      BY <1>1, <1>3, WorkingPlaces DEF BeginUpdate, EndUpdate, ControlTypes, HandlerPcs
    <2>2. QED
      BY <1>2, <2>1, InformedThere DEF EarlyPlaces
  <1>4. SkipUpdate(p) => Informed(p)'
    BY <1>1, <1>2, WhereTo, WorkingPlaces, InformedThere DEF SkipUpdate, EarlyPlaces
  <1>5. ASSUME Lookup(p) PROVE Informed(p)'
    <2>1. /\ pc[p] = "lookup" /\ job[p].op \in Messages /\ job[p].best = -1
          /\ UNCHANGED <<call_state, call_id>>
      BY <1>1, <1>5, WorkingPlaces DEF Lookup, table
    <2>2. CASE Finish(p)
      BY <1>1, <2>2, WhereTo, InformedThere
    <2>3. CASE \E s \in Matching(job[p].op, job[p].dlg) :
                  job[p].op # "INVITE" /\ GotoSlot(p, "handle", s)
      <3>1. PICK s \in Matching(job[p].op, job[p].dlg) :
                  job[p].op # "INVITE" /\ GotoSlot(p, "handle", s)
        BY <2>3
      <3>2. s \in Slots /\ Active(s)
        BY <3>1 DEF Matching, Active
      <3>3. /\ pc'[p] = "handle" /\ job'[p].slot = s /\ job'[p].op # "INVITE"
            /\ job'[p].op = job[p].op /\ job'[p].dlg = job[p].dlg /\ job'[p].best = -1
        <4>1. GotoSlot(p, "handle", s) /\ job[p].op # "INVITE"
          BY <3>1
        <4>2. QED
          BY <1>1, <2>1, <4>1, WhereToSlot
      <3>4. QED
        BY <1>2, <2>1, <3>2, <3>3
        DEF Informed, StateKnown, SlotFresh, BestQueued, CallerKnown, EarlyPlaces, Active
    <2>4. CASE \E s \in OpenSlots :
                  /\ job[p].op = "INVITE" /\ Matching(job[p].op, job[p].dlg) = {}
                  /\ GotoSlot(p, "create", s)
      <3>1. PICK s \in OpenSlots :
                  /\ job[p].op = "INVITE" /\ Matching(job[p].op, job[p].dlg) = {}
                  /\ GotoSlot(p, "create", s)
        BY <2>4
      <3>2. s \in Slots /\ ~Active(s) /\ job[p].op = "INVITE"
        BY <3>1 DEF OpenSlots, Active
      <3>3. \A r \in Slots : Active(r) => call_id[r] # job[p].dlg
        BY <3>1 DEF Matching, Active, HasToTag
      <3>4. /\ pc'[p] = "create" /\ job'[p].slot = s
            /\ job'[p].op = job[p].op /\ job'[p].dlg = job[p].dlg /\ job'[p].best = -1
        <4>1. GotoSlot(p, "create", s)
          BY <3>1
        <4>2. QED
          BY <1>1, <2>1, <4>1, WhereToSlot
      <3>5. QED
        BY <1>2, <2>1, <3>2, <3>3, <3>4
        DEF Informed, StateKnown, SlotFresh, BestQueued, CallerKnown, EarlyPlaces, Active
    <2>5. QED
      BY <1>5, <2>2, <2>3, <2>4 DEF Lookup
  <1>6. ASSUME CreateCall(p) PROVE Informed(p)'
    <2>1. /\ pc[p] = "create" /\ job[p].slot \in Slots
          /\ job[p].op \in Messages /\ job[p].best = -1
      BY <1>1, <1>6, WorkingPlaces, Readable DEF CreateCall
    <2>2. CASE Finish(p)
      BY <1>1, <2>2, WhereTo, InformedThere
    <2>3. CASE SetState(job[p].slot, CLSTA_ENTER) /\ Goto(p, "handle")
      <3>1. call_state'[job[p].slot] = CLSTA_ENTER /\ pc'[p] = "handle" /\ job'[p] = job[p]
        BY <1>1, <2>1, <2>3, WhereTo, StateStored
      <3>2. QED
        BY <1>2, <2>1, <3>1, StateNumbers
        DEF Informed, StateKnown, SlotFresh, BestQueued, CallerKnown, EarlyPlaces, Active, Early
    <2>4. QED
      BY <1>6, <2>2, <2>3 DEF CreateCall
  <1>7. QED
    BY <1>3, <1>4, <1>5, <1>6

(* first_invite_msg and the other handlers: what is stored is stored in    *)
(* the slot that was read.                                                 *)
LEMMA WorkInforms ==
    ASSUME TypeOK, ControlOK, NEW p \in Procs, Informed(p),
           Step(p) \/ Stimulus(p), MessageWork(p)
    PROVE  Informed(p)'
  <1>1. /\ ControlTypes /\ StateTypes
        /\ pc[p] \in HandlerPcs /\ job[p].op \in Messages /\ job[p].best = -1
        /\ job[p].slot \in Slots
        /\ call_state[job[p].slot] \in CallStates /\ call_state[job[p].slot] \in Nat
    <2>1. pc[p] \in HandlerPcs \ {"idle", "enter", "update", "lookup", "scan"}
      BY DEF MessageWork, InviteRefuse, InviteOffer, InviteTransaction, InviteTrying,
         InviteRing, InvitePrack, InviteWait, InviteCancelled, InviteAnswer,
         InviteAccept, Ack, AckQueue, Prack, PrackReply, Bye, Cancel, Notify,
         NotifyRequeue, ReInvite, Deny, Handles, HandlerPcs
    <2>2. QED
      BY <2>1, Readable
  <1>2. \A d \in Dialogs : ua[d] # UA_IDLE => ua'[d] # UA_IDLE
    BY CallersStay
  <1>3. /\ Finish(p) => Informed(p)'
        /\ \A label \in {"inv_wait", "end", "del", "upd"} : Goto(p, label) => Informed(p)'
    BY <1>1, <1>2, WhereTo, InformedThere DEF EarlyPlaces
  <1> DEFINE StaysEarly == call_state'[job[p].slot] \in 1..(CLSTA_INQUEUE - 1)
  <1>4. ASSUME NEW label \in EarlyPlaces, Goto(p, label), StaysEarly
        PROVE  Informed(p)'
    <2>1. pc'[p] = label /\ job'[p] = job[p]
      BY <1>1, <1>4, WhereTo
    <2>2. QED
      BY <1>1, <1>2, <1>4, <2>1
      DEF Informed, StateKnown, SlotFresh, BestQueued, CallerKnown, EarlyPlaces, Early
  <1>5. ASSUME UNCHANGED call_state, Early(job[p].slot) PROVE StaysEarly
    BY <1>5 DEF Early
  <1>6. ASSUME NEW state \in 1..199, SetState(job[p].slot, state)
        PROVE  StaysEarly
    <2>1. call_state'[job[p].slot] = state
      BY <1>1, <1>6, StateStored
    <2>2. QED
      BY <2>1, StateNumbers
  <1>7. {CLSTA_TRYING, CLSTA_PRACKSTRT, CLSTA_PRACKRPLY, CLSTA_INVITED, CLSTA_CANCEL}
        \subseteq 1..199
    BY StateNumbers
  <1>8. pc[p] \in EarlyPlaces \/ (pc[p] = "handle" /\ job[p].op = "INVITE")
        => Early(job[p].slot)
    BY DEF Informed, StateKnown
  <1>9. CASE InviteRefuse(p) \/ InviteOffer(p) \/ InviteTransaction(p)
    BY <1>3, <1>4, <1>5, <1>8, <1>9
    DEF InviteRefuse, InviteOffer, InviteTransaction, Handles, EarlyPlaces, table
  <1>10. CASE InviteTrying(p)
    BY <1>3, <1>4, <1>6, <1>7, <1>10 DEF InviteTrying, EarlyPlaces
  <1>11. CASE InviteRing(p) \/ InvitePrack(p) \/ InviteCancelled(p) \/ InviteAnswer(p) \/ InviteAccept(p)
    BY <1>3, <1>4, <1>5, <1>8, <1>11
    DEF InviteRing, InvitePrack, InviteCancelled, InviteAnswer, InviteAccept, EarlyPlaces, table
  <1>12. CASE InviteWait(p)
    <2>1. CASE State(p) = CLSTA_PRACKRPLY
      <3>1. Early(job[p].slot)
        BY <2>1, StateNumbers DEF State, Early
      <3>2. QED
        BY <1>4, <1>5, <1>12, <2>1, <3>1 DEF InviteWait, EarlyPlaces, table
    <2>2. CASE State(p) # CLSTA_PRACKRPLY
      BY <1>3, <1>12, <2>2 DEF InviteWait
    <2>3. QED
      BY <2>1, <2>2
  <1>13. CASE Ack(p) \/ Prack(p)
    <2>1. State(p) \in {CLSTA_INVITED, CLSTA_PRACKSTRT} => Early(job[p].slot)
      BY StateNumbers DEF State, Early
    <2>2. QED
      BY <1>3, <1>4, <1>5, <1>13, <2>1 DEF Ack, Prack, EarlyPlaces, table
  <1>14. CASE AckQueue(p) \/ PrackReply(p) \/ NotifyRequeue(p) \/ Bye(p) \/ Cancel(p) \/ Deny(p)
    BY <1>3, <1>14 DEF AckQueue, PrackReply, NotifyRequeue, Bye, Cancel, Deny
  <1>15. CASE Notify(p)
    <2>1. CASE Goto(p, "close")
      BY <1>1, <1>2, <1>15, <2>1, WhereTo, StateNumbers
      DEF Notify, State, Informed, StateKnown, SlotFresh, BestQueued, CallerKnown,
          EarlyPlaces, Active, table
    <2>2. CASE State(p) = CLSTA_RFRWAIT /\ Goto(p, "ntf_requeue")
      BY <1>1, <1>2, <1>15, <2>2, WhereTo
      DEF Notify, State, Informed, StateKnown, SlotFresh, BestQueued, CallerKnown,
          EarlyPlaces, table
    <2>3. QED
      BY <1>3, <1>15, <2>1, <2>2 DEF Notify
  <1>16. CASE ReInvite(p)
    <2>1. CASE State(p) \div 100 >= 2 /\ Goto(p, "close")
      <3>1. Active(job[p].slot)
        BY <1>1, <2>1 DEF State, Active
      <3>2. QED
        BY <1>1, <1>2, <1>16, <2>1, <3>1, WhereTo
        DEF ReInvite, Informed, StateKnown, SlotFresh, BestQueued, CallerKnown,
            EarlyPlaces, Active, table
    <2>2. QED
      BY <1>3, <1>16, <2>1 DEF ReInvite
  <1>17. QED
    BY <1>9, <1>10, <1>11, <1>12, <1>13, <1>14, <1>15, <1>16, Zenon DEF MessageWork

(* The ways out. The slot that is closed or freed is not the best one.     *)
LEMMA EndingInforms ==
    ASSUME TypeOK, ControlOK, NEW p \in Procs, Informed(p), Step(p) \/ Stimulus(p)
    PROVE  /\ EndThenDelete(p) => Informed(p)'
           /\ CloseCall(p) => Informed(p)'
           /\ DeleteRow(p) => Informed(p)'
           /\ FreeSlot(p) => Informed(p)'
           /\ UpdateRow(p) => Informed(p)'
  <1>1. ControlTypes /\ StateTypes
    BY Readable
  <1>2. \A d \in Dialogs : ua[d] # UA_IDLE => ua'[d] # UA_IDLE
    BY CallersStay
  <1>3. Finish(p) => Informed(p)'
    BY <1>1, WhereTo, InformedThere
  <1> DEFINE BestStays == job[p].best # -1 => /\ job[p].best < job[p].slot
                                              /\ call_state'[job[p].best] = CLSTA_INQUEUE
  <1>4. ASSUME NEW label \in {"del", "free", "pick"}, Goto(p, label), BestStays
        PROVE  Informed(p)'
    <2>1. pc'[p] = label /\ job'[p] = job[p]
      BY <1>1, <1>4, WhereTo
    <2>2. QED
      BY <1>2, <1>4, <2>1
      DEF Informed, StateKnown, SlotFresh, BestQueued, CallerKnown, EarlyPlaces
  <1>5. ASSUME GotoSlot(p, "scan", job[p].slot + 1), job[p].op = "drop"
        PROVE  Informed(p)'
    <2>1. pc'[p] = "scan" /\ job'[p].op = "drop" /\ job'[p].best = job[p].best
      BY <1>1, <1>5, WhereToSlot
    <2>2. job[p].best = -1
      BY <1>5, Readable
    <2>3. QED
      BY <2>1, <2>2, KindsApart
      DEF Informed, StateKnown, SlotFresh, BestQueued, CallerKnown, EarlyPlaces
  <1>6. ASSUME Return(p), BestStays PROVE Informed(p)'
    BY <1>3, <1>4, <1>5, <1>6, KindsApart DEF Return
  <1>7. ASSUME pc[p] \in {"end", "close", "del", "free"}, UNCHANGED call_state
        PROVE  BestStays
    BY <1>7 DEF Informed, BestQueued
  <1>8. ASSUME pc[p] \in {"close", "free"}, NEW state, SetState(job[p].slot, state)
        PROVE  BestStays
    <2>1. SUFFICES ASSUME job[p].best # -1 PROVE BestStays
      OBVIOUS
    <2>2. job[p].best \in Slots /\ job[p].slot \in Slots
      BY <1>8, <2>1, Readable
    <2>3. job[p].best < job[p].slot /\ call_state[job[p].best] = CLSTA_INQUEUE
      BY <1>8, <2>1 DEF Informed, BestQueued
    <2>4. job[p].best # job[p].slot
      BY <2>2, <2>3 DEF Slots
    <2>5. call_state'[job[p].best] = call_state[job[p].best]
      BY <1>1, <1>8, <2>2, <2>4, StateStored
    <2>6. QED
      BY <2>3, <2>5
  <1> HIDE DEF BestStays
  <1>9. ASSUME EndThenDelete(p) \/ DeleteRow(p) PROVE Informed(p)'
    BY <1>4, <1>7, <1>9 DEF EndThenDelete, DeleteRow, table
  <1>10. ASSUME CloseCall(p) PROVE Informed(p)'
    BY <1>4, <1>6, <1>7, <1>8, <1>10 DEF CloseCall
  <1>11. ASSUME FreeSlot(p) PROVE Informed(p)'
    BY <1>6, <1>8, <1>11 DEF FreeSlot
  <1>12. UpdateRow(p) => Informed(p)'
    BY <1>3 DEF UpdateRow
  <1>13. QED
    BY <1>9, <1>10, <1>11, <1>12

(* The loops, and what follows when mohq_retrieve has found a call.        *)
LEMMA TransferInforms ==
    ASSUME TypeOK, ControlOK, NEW p \in Procs, Informed(p), Step(p) \/ Stimulus(p)
    PROVE  /\ DropScan(p) => Informed(p)'
           /\ RetrieveScan(p) => Informed(p)'
           /\ RetrievePick(p) => Informed(p)'
           /\ EndScan(p) => Informed(p)'
           /\ Refer(p) => Informed(p)'
           /\ ReferUpdate(p) => Informed(p)'
           /\ ReferSend(p) => Informed(p)'
  <1>1. ControlTypes /\ StateTypes
    BY Readable
  <1>2. \A d \in Dialogs : ua[d] # UA_IDLE => ua'[d] # UA_IDLE
    BY CallersStay
  <1>3. Finish(p) => Informed(p)'
    BY <1>1, WhereTo, InformedThere
  <1>4. job[p].op \in Scans => job[p].op \notin Messages
    BY KindsApart
  <1>5. ASSUME DropScan(p) PROVE Informed(p)'
    <2>1. job[p].op = "drop" /\ job[p].best = -1 /\ pc[p] = "scan" /\ UNCHANGED call_state
      BY <1>5, Readable DEF DropScan, table
    <2>2. CASE Active(job[p].slot) /\ Goto(p, "close")
      <3>1. pc'[p] = "close" /\ job'[p] = job[p]
        BY <1>1, <2>2, WhereTo
      <3>2. QED
        BY <1>2, <2>1, <2>2, <3>1
        DEF Informed, StateKnown, SlotFresh, BestQueued, CallerKnown, EarlyPlaces, Active
    <2>3. CASE GotoSlot(p, "scan", job[p].slot + 1)
      <3>1. pc'[p] = "scan" /\ job'[p].op = "drop" /\ job'[p].best = -1
        BY <1>1, <2>1, <2>3, WhereToSlot
      <3>2. QED
        BY <3>1, KindsApart
        DEF Informed, StateKnown, SlotFresh, BestQueued, CallerKnown, EarlyPlaces
    <2>4. QED
      BY <1>5, <2>2, <2>3 DEF DropScan, Active
  <1>6. ASSUME RetrieveScan(p) PROVE Informed(p)'
    <2>1. job[p].op = "retrieve" /\ pc[p] = "scan" /\ UNCHANGED call_state
      BY <1>6 DEF RetrieveScan, table
    <2>2. CASE Goto(p, "pick")
      <3>1. pc'[p] = "pick" /\ job'[p] = job[p]
        BY <1>1, <2>2, WhereTo
      <3>2. QED
        BY <1>2, <2>1, <2>2, <3>1
        DEF Informed, StateKnown, SlotFresh, BestQueued, CallerKnown, EarlyPlaces
    <2>3. CASE call_state[job[p].slot] \in {CLSTA_REFER, CLSTA_RFRWAIT} /\ Goto(p, "close")
      <3>1. pc'[p] = "close" /\ job'[p] = job[p]
        BY <1>1, <2>3, WhereTo
      <3>2. Active(job[p].slot)'
        BY <2>1, <2>3, <3>1, StateNumbers DEF Active
      <3>3. QED
        BY <1>2, <2>1, <2>3, <3>1, <3>2
        DEF Informed, StateKnown, SlotFresh, BestQueued, CallerKnown, EarlyPlaces
    <2>4. QED
      BY <1>6, <2>2, <2>3 DEF RetrieveScan
  <1>7. ASSUME RetrievePick(p) PROVE Informed(p)'
    <2>1. job[p].op = "retrieve" /\ pc[p] = "pick" /\ UNCHANGED call_state /\ job[p].slot \in Slots
      BY <1>7, Readable DEF RetrievePick, ControlOK, table
    <2>2. PICK b \in {job[p].slot, job[p].best} :
            /\ b = job[p].slot => call_state[job[p].slot] = CLSTA_INQUEUE
            /\ job' = [job EXCEPT ![p].slot = job[p].slot + 1, ![p].best = b]
      BY <1>7 DEF RetrievePick
    <2>3. /\ pc'[p] = "scan" /\ job'[p].best = b /\ job'[p].slot = job[p].slot + 1
          /\ job'[p].op = "retrieve"
      BY <1>1, <1>7, <2>1, <2>2 DEF RetrievePick, ControlTypes, Jobs
    <2>4. b # -1 => b < job[p].slot + 1 /\ call_state[b] = CLSTA_INQUEUE
      <3>1. CASE b = job[p].slot
        BY <2>1, <2>2, <3>1 DEF Slots
      <3>2. CASE b = job[p].best /\ b # job[p].slot /\ b # -1
        <4>1. b \in Slots
          BY <3>2, Readable
        <4>2. b < job[p].slot /\ call_state[b] = CLSTA_INQUEUE
          BY <2>1, <3>2 DEF Informed, BestQueued
        <4>3. QED
          BY <2>1, <4>1, <4>2 DEF Slots
      <3>3. QED
        BY <3>1, <3>2
    <2>5. QED
      BY <2>1, <2>3, <2>4, KindsApart
      DEF Informed, StateKnown, SlotFresh, BestQueued, CallerKnown, EarlyPlaces
  <1>8. ASSUME EndScan(p) PROVE Informed(p)'
    <2>1. CASE job[p].best # -1 /\ GotoSlot(p, "refer", job[p].best)
      <3>1. /\ pc'[p] = "refer" /\ job'[p].slot = job[p].best
            /\ job'[p].op = job[p].op
        BY <1>1, <2>1, WhereToSlot
      <3>2. call_state'[job[p].best] = CLSTA_INQUEUE
        BY <1>8, <2>1 DEF EndScan, Informed, BestQueued, table
      <3>3. job[p].op = "retrieve"
        BY <2>1, Readable
      <3>4. QED
        BY <3>1, <3>2, <3>3, KindsApart
        DEF Informed, StateKnown, SlotFresh, BestQueued, CallerKnown, EarlyPlaces
    <2>2. QED
      BY <1>3, <1>8, <2>1 DEF EndScan
  <1>9. ASSUME Refer(p) PROVE Informed(p)'
    <2>1. job[p].op = "retrieve" /\ job[p].slot \in Slots
      BY <1>9, Readable DEF Refer, ControlOK
    <2>2. CASE SetState(job[p].slot, CLSTA_REFER) /\ Goto(p, "refer_upd")
      <3>1. pc'[p] = "refer_upd" /\ job'[p] = job[p]
        BY <1>1, <2>2, WhereTo
      <3>2. call_state'[job[p].slot] = CLSTA_REFER
        BY <1>1, <2>1, <2>2, StateStored
      <3>3. QED
        BY <2>1, <3>1, <3>2, KindsApart
        DEF Informed, StateKnown, SlotFresh, BestQueued, CallerKnown, EarlyPlaces
    <2>3. QED
      BY <1>3, <1>9, <2>2 DEF Refer
  <1>10. ASSUME ReferUpdate(p) PROVE Informed(p)'
    <2>1. job[p].op = "retrieve" /\ pc'[p] = "refer_send" /\ job'[p] = job[p]
      BY <1>1, <1>10, WhereTo DEF ReferUpdate, ControlOK
    <2>2. QED
      BY <1>10, <2>1, KindsApart
      DEF ReferUpdate, Informed, StateKnown, SlotFresh, BestQueued, CallerKnown,
          EarlyPlaces, table
  <1>11. ASSUME ReferSend(p) PROVE Informed(p)'
    <2>1. CASE Goto(p, "upd")
      <3>1. job[p].op = "retrieve" /\ pc'[p] = "upd" /\ job'[p] = job[p]
        BY <1>1, <1>11, <2>1, WhereTo DEF ReferSend, ControlOK
      <3>2. QED
        BY <3>1, KindsApart
        DEF Informed, StateKnown, SlotFresh, BestQueued, CallerKnown, EarlyPlaces
    <2>2. QED
      BY <1>3, <1>11, <2>1 DEF ReferSend
  <1>12. QED
    BY <1>5, <1>6, <1>7, <1>8, <1>9, <1>10, <1>11

(* What the outside starts.                                                *)
LEMMA StimulusInforms ==
    ASSUME TypeOK, ControlOK, NEW p \in Procs, Informed(p), Step(p) \/ Stimulus(p)
    PROVE  Stimulus(p) => Informed(p)'
  <1>1. ControlTypes /\ StateTypes
    BY Readable
  <1>2. UaTypes
    BY TypeParts
  <1>3. ASSUME NEW op \in Ops, NEW d \in Dialogs, StartMessage(p, op, d)
        PROVE  Informed(p)'
    <2>1. /\ pc'[p] = "enter" /\ job'[p].op = op /\ job'[p].dlg = d /\ job'[p].best = -1
      BY <1>1, <1>3 DEF StartMessage, ControlTypes, IdleJob
    <2>2. ua'[d] # UA_IDLE
      BY <1>2, <1>3 DEF StartMessage, UaTypes, UA_IDLE, UA_CALLING
    <2>3. QED
      BY <2>1, <2>2
      DEF Informed, StateKnown, SlotFresh, BestQueued, CallerKnown, EarlyPlaces
  <1>4. ASSUME NEW op \in Ops, NEW d \in Dialogs \cup {NoCall}, StartScan(p, op, d)
        PROVE  Informed(p)'
    <2>1. /\ pc'[p] = "scan" /\ job'[p].op = op /\ job'[p].best = -1 /\ op \in Scans
      BY <1>1, <1>4 DEF StartScan, ControlTypes, IdleJob
    <2>2. QED
      BY <2>1, KindsApart
      DEF Informed, StateKnown, SlotFresh, BestQueued, CallerKnown, EarlyPlaces
  <1>5. ASSUME UNCHANGED <<pc, job>>, pc[p] = "idle" PROVE Informed(p)'
    <2>1. job[p].op = "none"
      BY <1>5 DEF ControlOK
    <2>2. QED
      BY <1>5, <2>1, KindsApart
      DEF Informed, StateKnown, SlotFresh, BestQueued, CallerKnown, EarlyPlaces
  <1>6. ASSUME NEW t \in tm, NEW op \in Callbacks, NEW label \in {"del", "end", "upd"},
               Continue(p, t, op, label)
        PROVE  Informed(p)'
    <2>1. pc'[p] = label /\ job'[p].op = op /\ job'[p].best = -1
      BY <1>1, <1>6 DEF Continue, ControlTypes, IdleJob
    <2>2. QED
      BY <2>1, KindsApart
      DEF Informed, StateKnown, SlotFresh, BestQueued, CallerKnown, EarlyPlaces
  <1>7. {"invite_cb", "refer_cb", "bye_cb"} \subseteq Callbacks
    BY DEF Callbacks
  <1>8. ASSUME NEW t \in tm, InviteCb(p, t) \/ ReferCb(p, t) \/ ByeCb(p, t)
        PROVE  Informed(p)'
    <2>1. pc[p] = "idle"
      BY <1>8 DEF InviteCb, ReferCb, ByeCb
    <2>2. \/ UNCHANGED control
          \/ \E op \in Callbacks, label \in {"del", "end", "upd"} : Continue(p, t, op, label)
      BY <1>7, <1>8 DEF InviteCb, ReferCb, ByeCb
    <2>3. QED
      BY <1>5, <1>6, <2>1, <2>2 DEF control
  <1>9. RpcDebug(p) => Informed(p)'
    BY <1>5 DEF RpcDebug
  <1>10. QED
    BY <1>3, <1>4, <1>8, <1>9 DEF Stimulus, Callback

-----------------------------------------------------------------------------
(* Only create_call makes a slot active, or gives it to another call.      *)
LEMMA OnlyCreateFills ==
    ASSUME TypeOK, ControlOK, NEW p \in Procs, Informed(p), Step(p) \/ Stimulus(p)
    PROVE  \/ CreateCall(p)
           \/ UNCHANGED call_id /\ \A s \in Slots : Active(s)' => Active(s)
  <1>1. ControlTypes /\ StateTypes
    BY Readable
  <1> DEFINE Fills == ~ \A s \in Slots : Active(s)' => Active(s)
  <1>2. UNCHANGED call_state => ~Fills
    BY DEF Active
  <1>3. ASSUME NEW slot \in Slots, NEW state, SetState(slot, state),
               Active(slot) \/ state = 0
        PROVE  ~Fills
    BY <1>1, <1>3, StateStored DEF Active
  <1>4. pc[p] \notin {"idle", "enter", "update", "lookup", "scan"} => job[p].slot \in Slots
    BY Readable
  <1>5. \A s \in Slots : Early(s) => Active(s)
    BY DEF Early, Active
  <1>6. Active(job[p].slot) /\ job[p].slot \in Slots =>
            \A state : SetState(job[p].slot, state) => ~Fills
    BY <1>3
  <1>7. /\ pc[p] \in {"handle", "close", "ntf_requeue", "refer", "refer_upd", "refer_send"}
           => Active(job[p].slot)
        /\ pc[p] \in EarlyPlaces => Active(job[p].slot)
    BY <1>4, <1>5, StateNumbers DEF Informed, StateKnown, EarlyPlaces, Active
  <1> HIDE DEF Fills
  <1>8. MessageStep(p) => CreateCall(p) \/ ~Fills
    <2>1. \/ BeginUpdate(p) \/ EndUpdate(p) \/ SkipUpdate(p) \/ Lookup(p)
          \/ InviteRefuse(p) \/ InviteOffer(p) \/ InviteTransaction(p)
          \/ InviteRing(p) \/ InviteWait(p) \/ InviteCancelled(p) \/ InviteAnswer(p)
          \/ Ack(p) \/ Prack(p) \/ Notify(p) \/ ReInvite(p) \/ Deny(p)
          => ~Fills
      BY <1>2
      DEF BeginUpdate, EndUpdate, SkipUpdate, Lookup, InviteRefuse, InviteOffer,
          InviteTransaction, InviteRing, InviteWait, InviteCancelled, InviteAnswer,
          Ack, Prack, Notify, ReInvite, Deny, table
    <2>2. \/ InviteTrying(p) \/ InvitePrack(p) \/ InviteAccept(p) \/ AckQueue(p)
          \/ PrackReply(p) \/ NotifyRequeue(p)
          => ~Fills
      BY <1>2, <1>4, <1>6, <1>7
      DEF InviteTrying, InvitePrack, InviteAccept, AckQueue, PrackReply,
          NotifyRequeue, EarlyPlaces
    <2>3. Bye(p) \/ Cancel(p) => ~Fills
      BY <1>2, <1>4, <1>6, <1>7 DEF Bye, Cancel, Handles
    <2>4. QED
      BY <2>1, <2>2, <2>3, Zenon DEF MessageStep
  <1>9. TransferStep(p) => ~Fills
    <2>1. DropScan(p) \/ RetrieveScan(p) \/ RetrievePick(p) \/ EndScan(p) \/ ReferUpdate(p)
          => ~Fills
      BY <1>2 DEF DropScan, RetrieveScan, RetrievePick, EndScan, ReferUpdate, table
    <2>2. Refer(p) \/ ReferSend(p) => ~Fills
      BY <1>2, <1>4, <1>6, <1>7 DEF Refer, ReferSend
    <2>3. QED
      BY <2>1, <2>2 DEF TransferStep
  <1>10. /\ EndThenDelete(p) \/ DeleteRow(p) \/ UpdateRow(p) => ~Fills
         /\ CloseCall(p) => ~Fills
         /\ FreeSlot(p) => ~Fills
    <2>1. EndThenDelete(p) \/ DeleteRow(p) \/ UpdateRow(p) => ~Fills
      BY <1>2 DEF EndThenDelete, DeleteRow, UpdateRow, table
    <2>2. CloseCall(p) => ~Fills
      BY <1>2, <1>4, <1>6, <1>7 DEF CloseCall
    <2>3. FreeSlot(p) => ~Fills
      BY <1>3, <1>4 DEF FreeSlot
    <2>4. QED
      BY <2>1, <2>2, <2>3
  <1>11. Stimulus(p) => ~Fills
    <2>1. \A t \in tm : t.slot \in Slots
      BY TypeParts DEF TmTypes, Transactions
    <2>2. ASSUME NEW t \in tm, ReferCb(p, t) PROVE ~Fills
      <3>1. call_state[t.slot] = CLSTA_REFER => Active(t.slot)
        BY StateNumbers DEF Active
      <3>2. QED
        BY <1>2, <1>3, <2>1, <2>2, <3>1 DEF ReferCb
    <2>3. ASSUME NEW t \in tm, InviteCb(p, t) \/ ByeCb(p, t) PROVE ~Fills
      BY <1>2, <2>3 DEF InviteCb, ByeCb, table
    <2>4. QED
      BY <1>2, <2>2, <2>3 DEF Stimulus, StartMessage, StartScan, RpcDebug, Callback, table
  <1>12. CreateCall(p) \/ ~Fills
    BY <1>8, <1>9, <1>10, <1>11 DEF Step
  <1>13. CreateCall(p) \/ UNCHANGED call_id
    BY TableWriters DEF DeleteRow, UpdateRow, ReferUpdate, table
  <1>14. QED
    BY <1>12, <1>13 DEF Fills

(* No step puts a call into a second slot.                                 *)
LEMMA SerialStep ==
    ASSUME Overlap = FALSE, TypeOK, ControlOK, SerialInv, [Next]_vars
    PROVE  SerialInv'
  <1>1. CASE UNCHANGED vars
    BY <1>1
    DEF vars, table, world, SerialInv, OneAtWork, AtRest, CallsNamed, OneSlotPerCall, Active,
        Informed, StateKnown, SlotFresh, BestQueued, CallerKnown, Early
  <1>2. ASSUME NEW d \in Dialogs, SessionExpires(d)
        PROVE  SerialInv'
    BY <1>2
    DEF SessionExpires, table, control, SerialInv, OneAtWork, AtRest, CallsNamed,
        OneSlotPerCall, Active,
        Informed, StateKnown, SlotFresh, BestQueued, CallerKnown, Early
  <1>3. ASSUME NEW p \in Procs, Step(p) \/ Stimulus(p)
        PROVE  SerialInv'
    <2>1. OneAtWork' /\ \A q \in Procs : Informed(q)
      BY <1>3, OneAtWorkStep DEF SerialInv
    <2>2. Informed(p)'
      <3>1. CASE Step(p)
        <4>1. \/ BeginUpdate(p) \/ EndUpdate(p) \/ SkipUpdate(p)
              \/ Lookup(p) \/ CreateCall(p) \/ MessageWork(p) \/ TransferStep(p)
              \/ EndThenDelete(p) \/ CloseCall(p) \/ DeleteRow(p) \/ FreeSlot(p)
              \/ UpdateRow(p)
          BY <3>1, Zenon DEF Step, MessageStep, MessageWork
        <4>2. CASE TransferStep(p)
          BY <1>3, <2>1, <4>2, TransferInforms DEF TransferStep
        <4>3. QED
          BY <1>3, <2>1, <4>1, <4>2, LookupInforms, WorkInforms, EndingInforms DEF SerialInv
      <3>2. CASE Stimulus(p)
        BY <1>3, <2>1, <3>2, StimulusInforms
      <3>3. QED
        BY <1>3, <3>1, <3>2
    <2>3. \A q \in Procs : Informed(q)'
      BY <1>3, <2>1, <2>2, RestInformed DEF SerialInv
    <2>4. CallsNamed' /\ OneSlotPerCall'
      <3>1. CASE CreateCall(p)
        <4>1. /\ StateTypes /\ IdTypes /\ job[p].slot \in Slots /\ pc[p] = "create"
              /\ job[p].op \in Messages
          BY <3>1, Readable, WorkingPlaces DEF CreateCall
        <4>2. /\ job[p].dlg \in Dialogs /\ ~Active(job[p].slot)
              /\ \A s \in Slots : Active(s) => call_id[s] # job[p].dlg
          BY <2>1, <4>1 DEF Informed, CallerKnown, SlotFresh
        <4>3. /\ call_id'[job[p].slot] = job[p].dlg
              /\ \A s \in Slots \ {job[p].slot} : call_id'[s] = call_id[s]
          BY <3>1, <4>1 DEF CreateCall, IdTypes
        <4>4. \A s \in Slots \ {job[p].slot} : call_state'[s] = call_state[s]
          BY <3>1, <4>1, StateStored DEF CreateCall
        <4>5. QED
          BY <4>1, <4>2, <4>3, <4>4 DEF SerialInv, CallsNamed, OneSlotPerCall, Active
      <3>2. CASE UNCHANGED call_id /\ \A s \in Slots : Active(s)' => Active(s)
        BY <3>2 DEF SerialInv, CallsNamed, OneSlotPerCall
      <3>3. QED
        BY <1>3, <2>1, <3>1, <3>2, OnlyCreateFills
    <2>5. QED
      BY <2>1, <2>3, <2>4 DEF SerialInv
  <1>4. QED
    BY <1>1, <1>2, <1>3 DEF Next

(* After mod_init nobody works and no slot is taken.                       *)
LEMMA SerialInit == Init => SerialInv
  <1> SUFFICES ASSUME Init PROVE SerialInv
    OBVIOUS
  <1>1. \A p \in Procs : pc[p] = "idle" /\ job[p].op = "none"
    BY DEF Init, IdleJob
  <1>2. \A s \in Slots : ~Active(s)
    BY DEF Init, Active
  <1>3. QED
    BY <1>1, <1>2, KindsApart
    DEF SerialInv, OneAtWork, AtRest, CallsNamed, OneSlotPerCall,
        Informed, StateKnown, SlotFresh, BestQueued, CallerKnown, EarlyPlaces

(* The invariant of handlers that do not overlap.                          *)
THEOREM SerialInvariant ==
    ASSUME Overlap = FALSE
    PROVE  Spec => []SerialInv
  <1>1. TypeOK /\ ControlOK /\ SerialInv /\ [Next]_vars => SerialInv'
    BY SerialStep
  <1>2. QED
    BY <1>1, SerialInit, ControlInvariant, PTL DEF Spec

(* No call is in the table twice, however often its INVITE is repeated and *)
(* whatever fails: first_invite_msg is reached only for a call that        *)
(* find_call did not find, and nothing but create_call fills a slot. With  *)
(* overlapping handlers a late CANCEL makes a free slot active again.      *)
THEOREM CallsHaveOneSlot ==
    ASSUME Overlap = FALSE
    PROVE  Spec => []OneSlotPerCall
  BY SerialInvariant, PTL DEF SerialInv

-----------------------------------------------------------------------------
(* A caller whose INVITE comes once is in one slot, and stays the last one *)
(* who was there until the next call gets it.                              *)
Unseen(d) ==
    /\ \A s \in Slots : call_id[s] # d
    /\ \A t \in tm : t.dlg # d
    /\ \A p \in Procs : pc[p] = "inv_wait" => job[p].dlg # d

NewCallsUnseen == \A d \in Dialogs : ua[d] = UA_IDLE \/ OnItsWay(d) => Unseen(d)

OnlySlot(d, slot) == d # NoCall => \A s \in Slots : call_id[s] = d => s = slot

(* A process that has found the call of a message, or runs a callback.     *)
Handling(p) ==
    /\ job[p].op \in Messages \cup Callbacks
    /\ pc[p] \notin {"idle", "enter", "update", "lookup", "create"}

OnceInv ==
    /\ NewCallsUnseen
    /\ \A s \in Slots : OnlySlot(call_id[s], s)
    /\ \A t \in tm : OnlySlot(t.dlg, t.slot)
    /\ \A p \in Procs : Handling(p) => OnlySlot(job[p].dlg, job[p].slot)

(* The transactions that a step can start.                                 *)
LEMMA TransactionsStarted ==
    ASSUME TypeOK, NEW p \in Procs, Step(p) \/ Stimulus(p), NEW t \in tm' \ tm
    PROVE  /\ t.slot = job[p].slot
           /\ \/ CloseCall(p) /\ t.kind = "bye" /\ t.dlg = call_id[job[p].slot]
              \/ ReferSend(p) /\ t.kind = "refer" /\ t.dlg = call_id[job[p].slot]
              \/ /\ InviteTransaction(p) /\ t.kind = "invite" /\ t.dlg = job[p].dlg
                 /\ pc'[p] = "inv_try"
  <1>1. ControlTypes
    BY TypeParts
  <1>2. UNCHANGED tm \/ (\E u \in tm : tm' = tm \ {u})
        \/ CloseCall(p) \/ ReferSend(p) \/ InviteTransaction(p)
    <2>1. MessageStep(p) => UNCHANGED tm \/ InviteTransaction(p)
      <3>1. \/ BeginUpdate(p) \/ EndUpdate(p) \/ SkipUpdate(p) \/ Lookup(p) \/ CreateCall(p)
            \/ InviteRefuse(p) \/ InviteOffer(p) \/ InviteTrying(p)
            \/ InviteRing(p) \/ InvitePrack(p) \/ InviteWait(p) \/ InviteCancelled(p)
            \/ InviteAnswer(p) \/ InviteAccept(p)
            => UNCHANGED tm
        BY DEF BeginUpdate, EndUpdate, SkipUpdate, Lookup, CreateCall, InviteRefuse,
           InviteOffer, InviteTrying, InviteRing, InvitePrack, InviteWait,
           InviteCancelled, InviteAnswer, InviteAccept, world
      <3>2. \/ Ack(p) \/ AckQueue(p) \/ Prack(p) \/ PrackReply(p) \/ Bye(p) \/ Cancel(p)
            \/ Notify(p) \/ NotifyRequeue(p) \/ ReInvite(p) \/ Deny(p)
            => UNCHANGED tm
        BY DEF Ack, AckQueue, Prack, PrackReply, Bye, Cancel, Notify, NotifyRequeue,
           ReInvite, Deny, world
      <3>3. QED
        BY <3>1, <3>2, Zenon DEF MessageStep
    <2>2. TransferStep(p) => UNCHANGED tm \/ ReferSend(p)
      BY DEF TransferStep, DropScan, RetrieveScan, RetrievePick, EndScan, Refer,
         ReferUpdate, world
    <2>3. EndThenDelete(p) \/ DeleteRow(p) \/ FreeSlot(p) \/ UpdateRow(p) => UNCHANGED tm
      BY DEF EndThenDelete, DeleteRow, FreeSlot, UpdateRow, world
    <2>4. Stimulus(p) => UNCHANGED tm \/ \E u \in tm : tm' = tm \ {u}
      BY DEF Stimulus, StartMessage, StartScan, RpcDebug, Callback, InviteCb, ReferCb,
         ByeCb, world
    <2>5. QED
      BY <2>1, <2>2, <2>3, <2>4 DEF Step
  <1>3. CASE CloseCall(p) \/ ReferSend(p)
    BY <1>3 DEF CloseCall, ReferSend
  <1>4. CASE InviteTransaction(p)
    BY <1>1, <1>4, WhereTo DEF InviteTransaction
  <1>5. QED
    BY <1>2, <1>3, <1>4

(* How a process comes to be handling a call, and which.                   *)
LEMMA HandlingBegins ==
    ASSUME TypeOK, ControlOK, NEW p \in Procs, Step(p) \/ Stimulus(p), Handling(p)'
    PROVE  \/ CreateCall(p)
           \/ Handling(p) /\ job'[p] = job[p]
           \/ /\ Lookup(p) /\ job'[p].dlg = job[p].dlg
              /\ job'[p].slot \in Slots /\ call_id[job'[p].slot] = job[p].dlg
           \/ \E t \in tm : job'[p].dlg = t.dlg /\ job'[p].slot = t.slot
  <1>1. ControlTypes
    BY TypeParts
  <1>2. ~Finish(p)
    BY <1>1, WhereTo DEF Handling
  <1>3. CASE MessageWork(p)
    <2>1. Handling(p)
      <3>1. pc[p] \in HandlerPcs \ {"idle", "enter", "update", "lookup", "create"}
        BY <1>3 DEF MessageWork, InviteRefuse, InviteOffer, InviteTransaction, InviteTrying,
           InviteRing, InvitePrack, InviteWait, InviteCancelled, InviteAnswer,
           InviteAccept, Ack, AckQueue, Prack, PrackReply, Bye, Cancel, Notify,
           NotifyRequeue, ReInvite, Deny, Handles, HandlerPcs
      <3>2. QED
        BY <3>1, Readable DEF Handling
    <2>2. \E label : Goto(p, label)
      <3>1. \/ InviteRefuse(p) \/ InviteOffer(p) \/ InviteTransaction(p) \/ InviteTrying(p)
            \/ InviteRing(p) \/ InvitePrack(p) \/ InviteWait(p) \/ InviteCancelled(p)
            \/ InviteAnswer(p) \/ InviteAccept(p)
            => \E label : Goto(p, label)
        BY <1>2 DEF InviteRefuse, InviteOffer, InviteTransaction, InviteTrying, InviteRing,
           InvitePrack, InviteWait, InviteCancelled, InviteAnswer, InviteAccept
      <3>2. \/ Ack(p) \/ AckQueue(p) \/ Prack(p) \/ PrackReply(p) \/ Bye(p) \/ Cancel(p)
            \/ Notify(p) \/ NotifyRequeue(p) \/ ReInvite(p) \/ Deny(p)
            => \E label : Goto(p, label)
        BY <1>2 DEF Ack, AckQueue, Prack, PrackReply, Bye, Cancel, Notify, NotifyRequeue,
           ReInvite, Deny
      <3>3. QED
        BY <1>3, <3>1, <3>2, Zenon DEF MessageWork
    <2>3. QED
      BY <1>1, <2>1, <2>2, WhereTo
  <1>4. CASE BeginUpdate(p) \/ EndUpdate(p) \/ SkipUpdate(p)
    <2>1. pc'[p] \in {"update", "lookup"}
      BY <1>1, <1>4, WhereTo DEF BeginUpdate, EndUpdate, SkipUpdate, ControlTypes
    <2>2. QED
      BY <2>1 DEF Handling
  <1>5. CASE Lookup(p)
    <2>1. ASSUME NEW s, GotoSlot(p, "create", s) PROVE FALSE
      BY <1>1, <2>1, WhereToSlot DEF Handling
    <2>2. PICK s \in Matching(job[p].op, job[p].dlg) : GotoSlot(p, "handle", s)
      BY <1>2, <1>5, <2>1 DEF Lookup
    <2>3. s \in Slots /\ call_id[s] = job[p].dlg /\ GotoSlot(p, "handle", s)
      BY <2>2 DEF Matching
    <2>4. job'[p].slot = s /\ job'[p].dlg = job[p].dlg
      BY <1>1, <2>3, WhereToSlot
    <2>5. QED
      BY <1>5, <2>3, <2>4
  <1>6. CASE TransferStep(p)
    <2>1. job[p].op \in Scans /\ pc[p] \notin {"idle", "enter", "update", "lookup", "create"}
      BY <1>6, KindsApart
      DEF TransferStep, DropScan, RetrieveScan, RetrievePick, EndScan, Refer, ReferUpdate,
          ReferSend, ControlOK
    <2>2. ASSUME job'[p].op = job[p].op PROVE FALSE
      BY <2>1, <2>2, KindsApart DEF Handling
    <2>3. RetrievePick(p) => job'[p].op = job[p].op
      BY <1>1 DEF RetrievePick, ControlTypes, Jobs
    <2>4. (\E label : Goto(p, label)) => job'[p].op = job[p].op
      BY <1>1, WhereTo
    <2>5. ASSUME NEW label, NEW s, GotoSlot(p, label, s) PROVE FALSE
      BY <1>1, <2>2, <2>5, WhereToSlot
    <2>6. QED
      BY <1>2, <1>6, <2>2, <2>3, <2>4, <2>5
      DEF TransferStep, DropScan, RetrieveScan, EndScan, Refer, ReferUpdate, ReferSend
  <1>7. CASE EndThenDelete(p) \/ CloseCall(p) \/ DeleteRow(p) \/ FreeSlot(p) \/ UpdateRow(p)
    <2>1. pc[p] \notin {"idle", "enter", "update", "lookup", "create"}
      BY <1>7 DEF EndThenDelete, CloseCall, DeleteRow, FreeSlot, UpdateRow
    <2>2. ASSUME NEW label, Goto(p, label)
          PROVE  Handling(p) /\ job'[p] = job[p]
      BY <1>1, <2>1, <2>2, WhereTo DEF Handling
    <2>3. ASSUME GotoSlot(p, "scan", job[p].slot + 1), job[p].op = "drop" PROVE FALSE
      BY <1>1, <2>3, WhereToSlot, KindsApart DEF Handling
    <2>4. QED
      BY <1>2, <1>7, <2>2, <2>3
      DEF EndThenDelete, CloseCall, DeleteRow, FreeSlot, UpdateRow, Return
  <1>8. CASE Stimulus(p)
    <2>1. ASSUME NEW op \in Ops, NEW d \in Dialogs, StartMessage(p, op, d) PROVE FALSE
      BY <1>1, <2>1 DEF StartMessage, ControlTypes, Handling
    <2>2. ASSUME NEW op \in Ops, NEW d \in Dialogs \cup {NoCall}, StartScan(p, op, d)
          PROVE  FALSE
      BY <1>1, <2>2, KindsApart DEF StartScan, ControlTypes, IdleJob, Handling
    <2>3. ASSUME NEW t \in tm, InviteCb(p, t) \/ ReferCb(p, t) \/ ByeCb(p, t)
          PROVE  \E u \in tm : job'[p].dlg = u.dlg /\ job'[p].slot = u.slot
      <3>1. ~UNCHANGED control
        BY <2>3 DEF InviteCb, ReferCb, ByeCb, control, Handling
      <3>2. \E op, label : Continue(p, t, op, label)
        BY <2>3, <3>1 DEF InviteCb, ReferCb, ByeCb
      <3>3. QED
        BY <1>1, <3>2 DEF Continue, ControlTypes, IdleJob
    <2>4. ~RpcDebug(p)
      BY DEF RpcDebug, Handling
    <2>5. QED
      BY <1>8, <2>1, <2>2, <2>3, <2>4 DEF Stimulus, Callback
  <1>9. QED
    <2>1. Step(p) =>
              \/ BeginUpdate(p) \/ EndUpdate(p) \/ SkipUpdate(p)
              \/ Lookup(p) \/ CreateCall(p) \/ MessageWork(p) \/ TransferStep(p)
              \/ EndThenDelete(p) \/ CloseCall(p) \/ DeleteRow(p) \/ FreeSlot(p)
              \/ UpdateRow(p)
      BY Zenon DEF Step, MessageStep, MessageWork
    <2>2. QED
      BY <1>3, <1>4, <1>5, <1>6, <1>7, <1>8, <2>1

(* The places that steps lead to.                                          *)
LEMMA WhereStepsLead ==
    ASSUME TypeOK, NEW p \in Procs
    PROVE  /\ CreateCall(p) => pc'[p] \in {"handle", "idle"}
           /\ MessageWork(p) => pc'[p] = "idle" \/ pc'[p] \in Working
           /\ MessageWork(p) /\ pc'[p] = "inv_wait" => InvitePrack(p)
           /\ TransferStep(p) =>
                pc'[p] \in {"scan", "close", "pick", "refer", "refer_upd", "refer_send",
                            "upd", "idle"}
           /\ EndThenDelete(p) \/ CloseCall(p) \/ DeleteRow(p) \/ FreeSlot(p) \/ UpdateRow(p)
                => pc'[p] \in {"del", "free", "scan", "pick", "idle"}
           /\ \A op \in Ops, d \in Dialogs \cup {NoCall} : StartScan(p, op, d) => pc'[p] = "scan"
           /\ RpcDebug(p) => pc'[p] = "idle"
           /\ Callback(p) => pc'[p] \in {"idle", "del", "end", "upd"}
  <1>1. ControlTypes
    BY TypeParts
  <1>2. CreateCall(p) => pc'[p] \in {"handle", "idle"}
    BY <1>1, WhereTo DEF CreateCall
  <1>3. MessageWork(p) => Finish(p) \/ \E label \in Working : Goto(p, label)
    BY WorkingPlaces
    DEF MessageWork, InviteRefuse, InviteOffer, InviteTransaction, InviteTrying,
        InviteRing, InvitePrack, InviteWait, InviteCancelled, InviteAnswer,
        InviteAccept, Ack, AckQueue, Prack, PrackReply, Bye, Cancel, Notify,
        NotifyRequeue, ReInvite, Deny
  <1>4. MessageWork(p) /\ pc'[p] = "inv_wait" => InvitePrack(p)
    <2>1. MessageWork(p) =>
            InvitePrack(p) \/ Finish(p) \/ \E label \in Working \ {"inv_wait"} : Goto(p, label)
      BY WorkingPlaces
      DEF MessageWork, InviteRefuse, InviteOffer, InviteTransaction, InviteTrying,
          InviteRing, InviteWait, InviteCancelled, InviteAnswer,
          InviteAccept, Ack, AckQueue, Prack, PrackReply, Bye, Cancel, Notify,
          NotifyRequeue, ReInvite, Deny
    <2>2. QED
      BY <1>1, <2>1, WhereTo
  <1>5. ASSUME NEW label, NEW s, GotoSlot(p, label, s) PROVE pc'[p] = label
    BY <1>1, <1>5, WhereToSlot
  <1>6. RetrievePick(p) => pc'[p] = "scan"
    BY <1>1 DEF RetrievePick, ControlTypes
  <1>7. ASSUME TransferStep(p)
        PROVE  pc'[p] \in {"scan", "close", "pick", "refer", "refer_upd", "refer_send",
                           "upd", "idle"}
    <2>1. GotoSlot(p, "scan", job[p].slot + 1) => pc'[p] = "scan"
      BY <1>5
    <2>2. GotoSlot(p, "refer", job[p].best) => pc'[p] = "refer"
      BY <1>5
    <2>3. QED
      BY <1>1, <1>6, <1>7, <2>1, <2>2, WhereTo
      DEF TransferStep, DropScan, RetrieveScan, EndScan, Refer, ReferUpdate, ReferSend
  <1>8. /\ EndThenDelete(p) \/ CloseCall(p) \/ DeleteRow(p) \/ FreeSlot(p) \/ UpdateRow(p)
        => pc'[p] \in {"del", "free", "scan", "pick", "idle"}
    <2>1. GotoSlot(p, "scan", job[p].slot + 1) => pc'[p] = "scan"
      BY <1>5
    <2>2. QED
      BY <1>1, <2>1, WhereTo
      DEF EndThenDelete, CloseCall, DeleteRow, FreeSlot, UpdateRow, Return
  <1>9. \A op \in Ops, d \in Dialogs \cup {NoCall} : StartScan(p, op, d) => pc'[p] = "scan"
    BY <1>1 DEF StartScan, ControlTypes
  <1>10. RpcDebug(p) => pc'[p] = "idle"
    BY DEF RpcDebug
  <1>11. Callback(p) => pc'[p] \in {"idle", "del", "end", "upd"}
    BY <1>1 DEF Callback, InviteCb, ReferCb, ByeCb, Continue, control, ControlTypes
  <1>12. QED
    BY <1>1, <1>2, <1>3, <1>4, <1>7, <1>8, <1>9, <1>10, <1>11, WhereTo

(* Who sends its first INVITE, or has just sent it, after a step of p.     *)
LEMMA CallersNew ==
    ASSUME "resend" \notin Faults, Overlap = FALSE,
           TypeOK, ControlOK, SerialInv, OnceInv, NEW p \in Procs, Step(p) \/ Stimulus(p),
           NEW d \in Dialogs, ua'[d] = UA_IDLE \/ OnItsWay(d)'
    PROVE  /\ ua[d] = UA_IDLE \/ OnItsWay(d)
           /\ job[p].op \in Messages
              => d # job[p].dlg \/ pc'[p] \in {"enter", "update", "lookup", "create"}
           /\ CreateCall(p) => d # job[p].dlg
  <1>1. ControlTypes /\ UaTypes
    BY TypeParts
  <1>2. \A e \in Dialogs : ua[e] # UA_IDLE => ua'[e] # UA_IDLE
    BY CallersStay
  <1>3. CASE ua'[d] = UA_IDLE
    <2>1. ua[d] = UA_IDLE
      BY <1>2, <1>3
    <2>2. ASSUME job[p].op \in Messages PROVE d # job[p].dlg
      BY <2>1, <2>2 DEF SerialInv, Informed, CallerKnown
    <2>3. CreateCall(p) => job[p].op \in Messages
      BY Readable, WorkingPlaces DEF CreateCall
    <2>4. QED
      BY <2>1, <2>2, <2>3
  <1>4. CASE OnItsWay(d)'
    <2>1. PICK q \in Procs : /\ job'[q].op = "INVITE" /\ job'[q].dlg = d
                             /\ pc'[q] \in {"enter", "update", "lookup", "create"}
      BY <1>4 DEF OnItsWay
    <2>2. q = p
      BY <2>1, OneAtWorkStep DEF SerialInv, AtRest
    <2>3. CASE OnItsWay(d)
      <3>1. ~CreateCall(p)
        BY <1>1, <2>1, <2>2, WhereTo DEF CreateCall
      <3>2. QED
        BY <2>1, <2>2, <2>3, <3>1
    <2>4. CASE \E op \in Ops, e \in Dialogs : StartMessage(p, op, e)
      <3>1. PICK op \in Ops, e \in Dialogs : StartMessage(p, op, e)
        BY <2>4
      <3>2. op = "INVITE" /\ e = d
        BY <1>1, <2>1, <2>2, <3>1 DEF StartMessage, ControlTypes, IdleJob
      <3>3. ua[d] = UA_IDLE /\ AtRest(p)
        BY <3>1, <3>2 DEF StartMessage, MayArrive, AtRest
      <3>4. ~CreateCall(p)
        BY <3>3 DEF CreateCall, AtRest
      <3>5. QED
        BY <2>1, <2>2, <3>3, <3>4
    <2>5. CASE ~OnItsWay(d) /\ ~\E op \in Ops, e \in Dialogs : StartMessage(p, op, e)
      <3>1. pc[p] \in {"enter", "update", "lookup", "create"} /\ job'[p].op = job[p].op /\ job'[p].dlg = job[p].dlg
        <4>1. BeginUpdate(p) \/ EndUpdate(p) \/ SkipUpdate(p) \/ Lookup(p)
          <5>1. ~Stimulus(p)
            BY <1>1, <2>1, <2>2, <2>5, WhereStepsLead DEF Stimulus
          <5>2. QED
            BY <2>1, <2>2, <5>1, WhereStepsLead, WorkingPlaces, Zenon
            DEF Step, MessageStep, MessageWork
        <4>2. CASE BeginUpdate(p) \/ EndUpdate(p) \/ SkipUpdate(p)
          BY <1>1, <4>2, WhereTo DEF BeginUpdate, EndUpdate, SkipUpdate
        <4>3. CASE Lookup(p)
          <5>1. ASSUME NEW label, NEW s, GotoSlot(p, label, s)
                PROVE  job'[p].op = job[p].op /\ job'[p].dlg = job[p].dlg
            BY <1>1, <5>1, WhereToSlot
          <5>2. ~Finish(p)
            BY <1>1, <2>1, <2>2, WhereTo
          <5>3. QED
            BY <4>3, <5>1, <5>2 DEF Lookup
        <4>4. QED
          BY <4>1, <4>2, <4>3
      <3>2. QED
        BY <2>1, <2>2, <2>5, <3>1 DEF OnItsWay
    <2>6. QED
      BY <2>3, <2>4, <2>5
  <1>5. QED
    BY <1>3, <1>4

(* Every step keeps a call in one slot and its transactions to it.         *)
LEMMA OnceStep ==
    ASSUME "resend" \notin Faults, Overlap = FALSE,
           TypeOK, ControlOK, SerialInv, OnceInv, [Next]_vars
    PROVE  OnceInv'
  <1>1. CASE UNCHANGED vars
    BY <1>1
    DEF vars, table, world, OnceInv, NewCallsUnseen, OnItsWay, Unseen, OnlySlot, Handling
  <1>2. ASSUME NEW d \in Dialogs, SessionExpires(d)
        PROVE  OnceInv'
    BY <1>2
    DEF SessionExpires, table, control, OnceInv, NewCallsUnseen, OnItsWay, Unseen,
        OnlySlot, Handling
  <1>3. ASSUME NEW p \in Procs, Step(p) \/ Stimulus(p)
        PROVE  OnceInv'
    <2>1. ControlTypes /\ IdTypes /\ Informed(p)
      BY TypeParts DEF SerialInv
    <2>2. \A q \in Procs \ {p} : AtRest(q) /\ pc'[q] = pc[q] /\ job'[q] = job[q]
      BY <1>3, OneAtWorkStep DEF SerialInv
    <2>3. \A t \in tm' \ tm :
            /\ t.slot = job[p].slot
            /\ \/ (CloseCall(p) \/ ReferSend(p)) /\ t.dlg = call_id[job[p].slot]
               \/ /\ InviteTransaction(p) /\ t.dlg = job[p].dlg
                  /\ pc'[p] = "inv_try"
      BY <1>3, TransactionsStarted
    <2>4. CloseCall(p) \/ ReferSend(p) => job[p].slot \in Slots
      BY Readable DEF CloseCall, ReferSend
    <2>5. /\ InviteTransaction(p) => Handling(p)
          /\ InviteTransaction(p) \/ InvitePrack(p) => job[p].op \in Messages
      BY Readable DEF InviteTransaction, InvitePrack, Handling, HandlerPcs
    <2>6. ASSUME NEW d \in Dialogs, ua'[d] = UA_IDLE \/ OnItsWay(d)'
          PROVE  /\ Unseen(d)
                 /\ job[p].op \in Messages
                    => d # job[p].dlg \/ pc'[p] \in {"enter", "update", "lookup", "create"}
                 /\ CreateCall(p) => d # job[p].dlg
      BY <1>3, <2>6, CallersNew DEF OnceInv, NewCallsUnseen
    <2>7. pc'[p] = "inv_wait" => InvitePrack(p)
      <3>1. ASSUME Step(p), pc'[p] = "inv_wait" PROVE InvitePrack(p)
        <4>1. BeginUpdate(p) \/ EndUpdate(p) \/ SkipUpdate(p) \/ Lookup(p) => FALSE
          <5>1. ASSUME NEW label, NEW s, GotoSlot(p, label, s) PROVE pc'[p] = label
            BY <2>1, <5>1, WhereToSlot
          <5>2. CASE BeginUpdate(p) \/ EndUpdate(p) \/ SkipUpdate(p)
            <6>1. pc'[p] \in {"update", "lookup"}
              BY <2>1, <5>2, WhereTo DEF BeginUpdate, EndUpdate, SkipUpdate, ControlTypes
            <6>2. QED
              BY <3>1, <6>1
          <5>3. CASE Lookup(p)
            <6>1. ~Finish(p)
              BY <2>1, <3>1, WhereTo
            <6>2. \/ \E s \in Slots : GotoSlot(p, "handle", s)
                  \/ \E s \in Slots : GotoSlot(p, "create", s)
              BY <5>3, <6>1 DEF Lookup, Matching, OpenSlots
            <6>3. QED
              BY <3>1, <5>1, <6>2
          <5>4. QED
            BY <5>2, <5>3
        <4>2. QED
          BY <3>1, <4>1, WhereStepsLead, Zenon DEF Step, MessageStep, MessageWork
      <3>2. ASSUME Stimulus(p) PROVE pc'[p] # "inv_wait"
        BY <2>1, <3>2, WhereStepsLead DEF Stimulus, StartMessage, ControlTypes
      <3>3. QED
        BY <1>3, <3>1, <3>2
    <2>8. CASE ~CreateCall(p)
      <3>1. call_id' = call_id
        BY <1>3, <2>1, <2>8, OnlyCreateFills
      <3>2. NewCallsUnseen'
        <4>1. SUFFICES ASSUME NEW d \in Dialogs, ua'[d] = UA_IDLE \/ OnItsWay(d)'
                       PROVE  Unseen(d)'
          BY DEF NewCallsUnseen
        <4>2. \A t \in tm' : t.dlg # d
          BY <2>3, <2>4, <2>5, <2>6, <4>1 DEF Unseen
        <4>3. \A q \in Procs : pc'[q] = "inv_wait" => job'[q].dlg # d
          <5>1. ASSUME InvitePrack(p) PROVE job'[p].dlg # d
            <6>1. pc'[p] = "inv_wait" /\ job'[p] = job[p]
              BY <2>1, <5>1, WhereTo DEF InvitePrack
            <6>2. QED
              BY <2>5, <2>6, <4>1, <5>1, <6>1
          <5>2. \A q \in Procs \ {p} : pc'[q] = "inv_wait" => job'[q].dlg # d
            BY <2>2, <2>6, <4>1 DEF Unseen
          <5>3. QED
            BY <2>7, <5>1, <5>2
        <4>4. QED
          BY <2>6, <3>1, <4>1, <4>2, <4>3 DEF Unseen
      <3>3. \A s \in Slots : OnlySlot(call_id[s], s)'
        BY <3>1 DEF OnceInv, OnlySlot
      <3>4. \A t \in tm' : OnlySlot(t.dlg, t.slot)'
        <4>1. \A t \in tm : OnlySlot(t.dlg, t.slot)'
          BY <3>1 DEF OnceInv, OnlySlot
        <4>2. \A t \in tm' \ tm : OnlySlot(t.dlg, t.slot)'
          BY <2>3, <2>4, <2>5, <3>1 DEF OnceInv, OnlySlot
        <4>3. QED
          BY <4>1, <4>2
      <3>5. \A q \in Procs : Handling(q)' => OnlySlot(job[q].dlg, job[q].slot)'
        <4>1. \A q \in Procs \ {p} : Handling(q)' => OnlySlot(job[q].dlg, job[q].slot)'
          BY <2>2, <3>1 DEF OnceInv, OnlySlot, Handling
        <4>2. Handling(p)' => OnlySlot(job[p].dlg, job[p].slot)'
          <5>1. SUFFICES ASSUME Handling(p)' PROVE OnlySlot(job[p].dlg, job[p].slot)'
            OBVIOUS
          <5>2. \/ Handling(p) /\ job'[p] = job[p]
                \/ /\ Lookup(p) /\ job'[p].dlg = job[p].dlg
                   /\ job'[p].slot \in Slots /\ call_id[job'[p].slot] = job[p].dlg
                \/ \E t \in tm : job'[p].dlg = t.dlg /\ job'[p].slot = t.slot
            BY <1>3, <2>8, <5>1, HandlingBegins
          <5>3. QED
            BY <3>1, <5>2 DEF OnceInv, OnlySlot
        <4>3. QED
          BY <4>1, <4>2
      <3>6. QED
        BY <3>2, <3>3, <3>4, <3>5 DEF OnceInv
    <2>9. CASE CreateCall(p)
      <3>1. /\ pc[p] = "create" /\ job[p].slot \in Slots /\ UNCHANGED tm
            /\ job[p].op = "INVITE" /\ job[p].dlg \in Dialogs
        BY <2>1, <2>9, Readable, KindsApart, WorkingPlaces
        DEF CreateCall, world, Informed, SlotFresh, CallerKnown
      <3>2. Unseen(job[p].dlg)
        <4>1. OnItsWay(job[p].dlg)
          BY <3>1 DEF OnItsWay
        <4>2. QED
          BY <3>1, <4>1 DEF OnceInv, NewCallsUnseen
      <3>3. /\ call_id'[job[p].slot] = job[p].dlg
            /\ \A s \in Slots \ {job[p].slot} : call_id'[s] = call_id[s]
        BY <2>1, <2>9, <3>1 DEF CreateCall, IdTypes
      <3>4. pc'[p] # "inv_wait" /\ (pc'[p] # "idle" => job'[p] = job[p])
        BY <2>1, <2>9, WhereTo DEF CreateCall
      <3>5. NewCallsUnseen'
        BY <2>2, <2>6, <2>9, <3>1, <3>3, <3>4 DEF NewCallsUnseen, Unseen
      <3>6. \A s \in Slots : OnlySlot(call_id[s], s)'
        BY <3>2, <3>3 DEF OnceInv, OnlySlot, Unseen
      <3>7. \A t \in tm' : OnlySlot(t.dlg, t.slot)'
        BY <3>1, <3>2, <3>3 DEF OnceInv, OnlySlot, Unseen
      <3>8. \A q \in Procs : Handling(q)' => OnlySlot(job[q].dlg, job[q].slot)'
        <4>1. ASSUME NEW q \in Procs \ {p}, Handling(q)'
              PROVE  OnlySlot(job[q].dlg, job[q].slot)'
          <5>1. /\ Handling(q) /\ job'[q] = job[q] /\ pc[q] = "inv_wait"
            BY <2>2, <4>1 DEF Handling, AtRest
          <5>2. job[q].dlg # job[p].dlg
            BY <3>2, <5>1 DEF Unseen
          <5>3. QED
            BY <3>3, <5>1, <5>2 DEF OnceInv, OnlySlot
        <4>2. Handling(p)' => OnlySlot(job[p].dlg, job[p].slot)'
          BY <3>2, <3>3, <3>4 DEF OnlySlot, Unseen, Handling
        <4>3. QED
          BY <4>1, <4>2
      <3>9. QED
        BY <3>5, <3>6, <3>7, <3>8 DEF OnceInv
    <2>10. QED
      BY <2>8, <2>9
  <1>4. QED
    BY <1>1, <1>2, <1>3 DEF Next

(* Nobody has called yet.                                                  *)
LEMMA OnceInit == Init => OnceInv
  <1> SUFFICES ASSUME Init PROVE OnceInv
    OBVIOUS
  <1>1. /\ \A s \in Slots : call_id[s] = NoCall
        /\ tm = {} /\ \A p \in Procs : pc[p] = "idle"
    BY DEF Init
  <1>2. QED
    BY <1>1, TableAssumption DEF OnceInv, NewCallsUnseen, Unseen, OnlySlot, Handling

(* A caller is in one slot, or was in it last, as long as it does not      *)
(* repeat its INVITE.                                                      *)
THEOREM OnceInvariant ==
    ASSUME Overlap = FALSE, "resend" \notin Faults
    PROVE  Spec => [](SerialInv /\ OnceInv)
  <1>1. TypeOK /\ ControlOK /\ SerialInv /\ OnceInv /\ [Next]_vars => OnceInv'
    BY OnceStep
  <1>2. QED
    BY <1>1, OnceInit, SerialInvariant, ControlInvariant, PTL DEF Spec

-----------------------------------------------------------------------------
(* What a step does to the state of each call, and where it leaves the     *)
(* process that makes it.                                                  *)
EntersStep(s) == Early(s) /\ call_state'[s] \in 1..(CLSTA_INQUEUE - 1)

QueuedStep(p, s) ==
    /\ \/ AckQueue(p) /\ s = job[p].slot /\ Early(s)
       \/ call_state[s] \in {CLSTA_REFER, CLSTA_RFRWAIT}
    /\ call_state'[s] = CLSTA_INQUEUE
    /\ pc'[p] = "upd" /\ job'[p].slot = s

ReferredStep(p, s) ==
    /\ call_state[s] = CLSTA_INQUEUE /\ call_state'[s] = CLSTA_REFER
    /\ pc[p] = "refer" /\ pc'[p] = "refer_upd" /\ job'[p].slot = s

AcceptedStep(s) == call_state[s] = CLSTA_REFER /\ call_state'[s] = CLSTA_RFRWAIT

EndingStep(p, s) ==
    /\ Active(s) /\ s = job[p].slot
    /\ \/ CloseCall(p) /\ call_state'[s] = CLSTA_BYE
       \/ Bye(p) /\ ~Early(s) /\ call_state'[s] = CLSTA_BYEOK

FreedStep(p, s) == FreeSlot(p) /\ s = job[p].slot /\ call_state'[s] = 0

StateMove(p, s) ==
    \/ call_state'[s] = call_state[s]
    \/ EntersStep(s) \/ QueuedStep(p, s) \/ ReferredStep(p, s)
    \/ AcceptedStep(s) \/ EndingStep(p, s) \/ FreedStep(p, s)

(* Storing a state moves the call of one slot.                             *)
LEMMA StoredMove ==
    ASSUME StateTypes, NEW p, NEW slot \in Slots, NEW state, SetState(slot, state),
           call_state'[slot] = state => StateMove(p, slot)
    PROVE  \A s \in Slots : StateMove(p, s)
  BY StateStored DEF StateMove

(* Every step that is not create_call's moves the calls that way.          *)
LEMMA StateMoves ==
    ASSUME TypeOK, ControlOK, NEW p \in Procs, Informed(p), Step(p) \/ Stimulus(p),
           ~CreateCall(p)
    PROVE  \A s \in Slots : StateMove(p, s)
  <1>1. ControlTypes /\ StateTypes
    BY Readable
  <1> DEFINE Moves == \A s \in Slots : StateMove(p, s)
             s0 == job[p].slot
  <1>2. UNCHANGED call_state => Moves
    BY DEF StateMove
  <1>3. pc[p] \notin {"idle", "enter", "update", "lookup", "scan"} => s0 \in Slots
    BY Readable
  <1>4. ASSUME s0 \in Slots, NEW state, SetState(s0, state),
               call_state'[s0] = state => StateMove(p, s0)
        PROVE  Moves
    BY <1>1, <1>4, StoredMove
  <1>5. /\ pc[p] \in {"handle", "close", "ntf_requeue", "refer", "refer_upd", "refer_send"}
           => Active(s0)
        /\ pc[p] \in EarlyPlaces => Early(s0) /\ Active(s0)
        /\ pc[p] = "ntf_requeue" => call_state[s0] = CLSTA_RFRWAIT
        /\ pc[p] = "refer_send" => call_state[s0] = CLSTA_REFER
    BY <1>3, StateNumbers DEF Informed, StateKnown, EarlyPlaces, Active, Early
  <1>6. ASSUME s0 \in Slots, Early(s0), NEW state \in 1..199, SetState(s0, state)
        PROVE  Moves
    BY <1>4, <1>6, StateNumbers DEF StateMove, EntersStep, Early
  <1>7. {CLSTA_TRYING, CLSTA_PRACKSTRT, CLSTA_PRACKRPLY, CLSTA_INVITED, CLSTA_CANCEL}
        \subseteq 1..199
    BY StateNumbers
  <1>8. ASSUME s0 \in Slots, Active(s0),
               \/ CloseCall(p) /\ SetState(s0, CLSTA_BYE)
               \/ Bye(p) /\ ~Early(s0) /\ SetState(s0, CLSTA_BYEOK)
        PROVE  Moves
    BY <1>4, <1>8 DEF StateMove, EndingStep
  <1>9. ASSUME s0 \in Slots, SetState(s0, CLSTA_INQUEUE), Goto(p, "upd"),
               \/ AckQueue(p) /\ Early(s0)
               \/ call_state[s0] \in {CLSTA_REFER, CLSTA_RFRWAIT}
        PROVE  Moves
    <2>1. pc'[p] = "upd" /\ job'[p].slot = s0
      BY <1>1, <1>9, WhereTo
    <2>2. QED
      BY <1>4, <1>9, <2>1 DEF StateMove, QueuedStep
  <1> HIDE DEF Moves, s0
  <1>10. MessageStep(p) => Moves
    <2>1. \/ BeginUpdate(p) \/ EndUpdate(p) \/ SkipUpdate(p) \/ Lookup(p)
          \/ InviteRefuse(p) \/ InviteOffer(p) \/ InviteTransaction(p)
          \/ InviteRing(p) \/ InviteWait(p) \/ InviteCancelled(p) \/ InviteAnswer(p)
          \/ Ack(p) \/ Prack(p) \/ Notify(p) \/ ReInvite(p) \/ Deny(p)
          => Moves
      BY <1>2
      DEF BeginUpdate, EndUpdate, SkipUpdate, Lookup, InviteRefuse, InviteOffer,
          InviteTransaction, InviteRing, InviteWait, InviteCancelled, InviteAnswer,
          Ack, Prack, Notify, ReInvite, Deny, table
    <2>2. \/ InviteTrying(p) \/ InvitePrack(p) \/ InviteAccept(p) \/ PrackReply(p)
          => Moves
      BY <1>2, <1>3, <1>5, <1>6, <1>7
      DEF InviteTrying, InvitePrack, InviteAccept, PrackReply, EarlyPlaces, s0
    <2>3. AckQueue(p) \/ NotifyRequeue(p) => Moves
      BY <1>3, <1>5, <1>9 DEF AckQueue, NotifyRequeue, EarlyPlaces, s0
    <2>4. Bye(p) => Moves
      <3>1. State(p) >= CLSTA_INQUEUE => ~Early(s0)
        BY StateNumbers DEF State, Early, s0
      <3>2. QED
        BY <1>2, <1>3, <1>5, <1>8, <3>1 DEF Bye, Handles, s0
    <2>5. ASSUME Cancel(p) PROVE Moves
      <3>1. s0 \in Slots /\ Active(s0)
        BY <1>3, <1>5, <2>5 DEF Cancel, Handles
      <3>2. State(p) < CLSTA_INQUEUE => Early(s0)
        BY <3>1, Readable, StateNumbers DEF State, Early, Active, s0
      <3>3. QED
        BY <1>2, <1>6, <1>7, <2>5, <3>1, <3>2 DEF Cancel, s0
    <2>6. QED
      BY <2>1, <2>2, <2>3, <2>4, <2>5, Zenon DEF MessageStep
  <1>11. TransferStep(p) => Moves
    <2>1. DropScan(p) \/ RetrieveScan(p) \/ RetrievePick(p) \/ EndScan(p) \/ ReferUpdate(p)
          => Moves
      BY <1>2 DEF DropScan, RetrieveScan, RetrievePick, EndScan, ReferUpdate, table
    <2>2. ASSUME Refer(p) PROVE Moves
      <3>1. s0 \in Slots /\ call_state[s0] = CLSTA_INQUEUE
        BY <1>3, <2>2 DEF Refer, Informed, StateKnown, s0
      <3>2. Goto(p, "refer_upd") => pc'[p] = "refer_upd" /\ job'[p].slot = s0
        BY <1>1, WhereTo DEF s0
      <3>3. QED
        BY <1>2, <1>4, <2>2, <3>1, <3>2 DEF Refer, StateMove, ReferredStep, s0
    <2>3. ReferSend(p) => Moves
      BY <1>2, <1>3, <1>5, <1>9 DEF ReferSend, s0
    <2>4. QED
      BY <2>1, <2>2, <2>3 DEF TransferStep
  <1>12. /\ EndThenDelete(p) \/ DeleteRow(p) \/ UpdateRow(p) => Moves
         /\ CloseCall(p) => Moves
         /\ FreeSlot(p) => Moves
    <2>1. EndThenDelete(p) \/ DeleteRow(p) \/ UpdateRow(p) => Moves
      BY <1>2 DEF EndThenDelete, DeleteRow, UpdateRow, table
    <2>2. CloseCall(p) => Moves
      BY <1>2, <1>3, <1>5, <1>8 DEF CloseCall, s0
    <2>3. ASSUME FreeSlot(p) PROVE Moves
      <3>1. s0 \in Slots /\ SetState(s0, 0)
        BY <1>3, <2>3 DEF FreeSlot, s0
      <3>2. QED
        BY <1>4, <2>3, <3>1 DEF StateMove, FreedStep, s0
    <2>4. QED
      BY <2>1, <2>2, <2>3
  <1>13. Stimulus(p) => Moves
    <2>1. \A t \in tm : t.slot \in Slots
      BY TypeParts DEF TmTypes, Transactions
    <2>2. ASSUME NEW t \in tm, ReferCb(p, t) PROVE Moves
      <3>1. CASE UNCHANGED call_state
        BY <1>2, <3>1
      <3>2. CASE call_state[t.slot] = CLSTA_REFER /\ SetState(t.slot, CLSTA_RFRWAIT)
        BY <1>1, <2>1, <3>2, StoredMove DEF StateMove, AcceptedStep, Moves
      <3>3. CASE /\ call_state[t.slot] = CLSTA_REFER /\ SetState(t.slot, CLSTA_INQUEUE)
                 /\ Continue(p, t, "refer_cb", "upd")
        <4>1. pc'[p] = "upd" /\ job'[p].slot = t.slot
          BY <1>1, <3>3 DEF Continue, ControlTypes, IdleJob
        <4>2. QED
          BY <1>1, <2>1, <3>3, <4>1, StoredMove DEF StateMove, QueuedStep, Moves
      <3>4. QED
        BY <2>2, <3>1, <3>2, <3>3 DEF ReferCb
    <2>3. ASSUME NEW t \in tm, InviteCb(p, t) \/ ByeCb(p, t) PROVE Moves
      BY <1>2, <2>3 DEF InviteCb, ByeCb, table
    <2>4. QED
      BY <1>2, <2>2, <2>3 DEF Stimulus, StartMessage, StartScan, RpcDebug, Callback, table
  <1>14. QED
    BY <1>10, <1>11, <1>12, <1>13 DEF Step, Moves
=============================================================================
