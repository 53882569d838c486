---------------------------- MODULE Mohq_proofs ----------------------------
(* Proofs about the handlers of mohqueue. ControlOK says where a process   *)
(* can be; Orderly says what one step of a process may do to the two       *)
(* locks, and every step but two does just that. From it follow the types, *)
(* the balance of the locks, and what the shared lock is worth.            *)
EXTENDS MohqTypes_proofs

(* A step of process p leaves the control of every other process alone.    *)
Frame(p) == \A q \in Procs \ {p} : pc'[q] = pc[q] /\ job'[q] = job[q]

(* ControlOK for one process.                                              *)
Fits(p) ==
    /\ pc[p] = "idle" <=> job[p].op = "none"
    /\ pc[p] \in HandlerPcs => job[p].op \in Messages
    /\ pc[p] = "scan" => job[p].op \in Scans
    /\ pc[p] \in {"pick", "refer", "refer_upd", "refer_send"} => job[p].op = "retrieve"
    /\ job[p].best # -1 => job[p].op = "retrieve"
    /\ pc[p] \notin {"idle", "enter", "update", "lookup", "scan"} => job[p].slot \in Slots

(* When the process that moves fits, all do.                               *)
LEMMA FitsAll ==
    ASSUME ControlOK, NEW p \in Procs, Frame(p), Fits(p)'
    PROVE  ControlOK'
  BY DEF ControlOK, Frame, Fits

(* What a step of p can mean for the lock of the calls.                    *)
CallsKept(p) ==
    /\ pcall_lock' = pcall_lock
    /\ HoldsCallsShared(p)' <=> HoldsCallsShared(p)
    /\ HoldsCallsExcl(p)' <=> HoldsCallsExcl(p)

CallsJoined(p) ==
    /\ SetGranted(pcall_lock, FALSE)
    /\ pcall_lock' = AfterSet(pcall_lock, FALSE)
    /\ ~HoldsCallsShared(p) /\ HoldsCallsShared(p)'
    /\ ~HoldsCallsExcl(p) /\ ~HoldsCallsExcl(p)'

CallsTaken(p) ==
    /\ SetGranted(pcall_lock, TRUE)
    /\ pcall_lock' = AfterSet(pcall_lock, TRUE)
    /\ ~HoldsCallsShared(p) /\ ~HoldsCallsShared(p)'
    /\ ~HoldsCallsExcl(p) /\ HoldsCallsExcl(p)'

CallsLeft(p) ==
    /\ HoldsCallsShared(p) \/ HoldsCallsExcl(p)
    /\ pcall_lock' = AfterRelease(pcall_lock)
    /\ ~HoldsCallsShared(p)' /\ ~HoldsCallsExcl(p)'

CallMove(p) == CallsKept(p) \/ CallsJoined(p) \/ CallsTaken(p) \/ CallsLeft(p)

(* And for the lock of the queues.                                         *)
Updates(p) == pc[p] = "update"

QueuesKept(p) ==
    /\ pmohq_lock' = pmohq_lock
    /\ HoldsQueues(p)' <=> HoldsQueues(p)
    /\ Updates(p)' <=> Updates(p)

QueuesJoined(p) ==
    /\ SetGranted(pmohq_lock, FALSE)
    /\ pmohq_lock' = AfterSet(pmohq_lock, FALSE)
    /\ ~HoldsQueues(p) /\ HoldsQueues(p)'
    /\ ~Updates(p) /\ ~Updates(p)'

QueuesLeft(p) ==
    /\ pmohq_lock' = AfterRelease(pmohq_lock)
    /\ HoldsQueues(p) /\ ~HoldsQueues(p)'
    /\ ~Updates(p) /\ ~Updates(p)'

UpdateBegun(p) ==
    /\ ChangeGranted(pmohq_lock, TRUE)
    /\ pmohq_lock' = AfterChange(pmohq_lock, TRUE)
    /\ HoldsQueues(p) /\ HoldsQueues(p)'
    /\ ~Updates(p) /\ Updates(p)'

UpdateEnded(p) ==
    /\ pmohq_lock' = IF ChangeGranted(pmohq_lock, FALSE)
                     THEN AfterChange(pmohq_lock, FALSE) ELSE pmohq_lock
    /\ HoldsQueues(p) /\ HoldsQueues(p)'
    /\ Updates(p) /\ ~Updates(p)'

QueueMove(p) ==
    QueuesKept(p) \/ QueuesJoined(p) \/ QueuesLeft(p) \/ UpdateBegun(p) \/ UpdateEnded(p)

(* The part of every step that the locks are about.                        *)
Orderly(p) == Frame(p) /\ Fits(p)' /\ CallMove(p) /\ QueueMove(p)

(* A job is of one kind.                                                   *)
LEMMA KindsApart ==
    /\ "none" \notin Messages \cup Scans \cup Callbacks
    /\ Messages \cap Scans = {} /\ Messages \cap Callbacks = {}
    /\ Scans \cap Callbacks = {}
    /\ Scans = {"retrieve", "drop"}
  BY DEF Messages, Scans, Callbacks

(* Where a handler is once it has found its call.                          *)
Working == (HandlerPcs \ {"enter", "update", "lookup", "create"}) \cup CommonPcs

(* The places of a working handler, and those that are none.               *)
LEMMA WorkingPlaces ==
    /\ Working \cap {"idle", "enter", "update", "lookup", "create", "scan", "pick",
                     "refer", "refer_upd", "refer_send"} = {}
    /\ {"handle", "inv_tran", "inv_try", "inv_ring", "inv_prack", "inv_wait",
        "inv_cancel", "inv_answer", "inv_accept", "ack_queue", "prack_reply",
        "ntf_requeue", "end", "close", "del", "free", "upd"} \subseteq Working
    /\ HandlerPcs \cap {"end", "close", "del", "free", "upd", "idle", "scan", "pick",
                        "refer", "refer_upd", "refer_send"} = {}
    /\ {"enter", "update", "lookup", "create"} \subseteq HandlerPcs
  BY DEF Working, HandlerPcs, CommonPcs

(* A message handler goes on, or is done.                                  *)
LEMMA MessageGoto ==
    ASSUME ControlTypes, ControlOK, NEW p \in Procs, NEW label \in Working,
           job[p].op \in Messages, pc[p] \notin {"idle", "create", "update"},
           job[p].slot \in Slots, Goto(p, label), UNCHANGED pcall_lock
    PROVE  Orderly(p)
  <1>1. Frame(p) /\ pc'[p] = label /\ job'[p] = job[p] /\ pmohq_lock' = pmohq_lock
    BY DEF Goto, ControlTypes, Frame
  <1>2. Fits(p)'
    BY <1>1, WorkingPlaces, KindsApart DEF Fits, ControlOK
  <1>3. CallsKept(p)
    BY <1>1, WorkingPlaces, KindsApart DEF CallsKept, HoldsCallsShared, HoldsCallsExcl
  <1>4. QueuesKept(p)
    BY <1>1, WorkingPlaces DEF QueuesKept, HoldsQueues, Updates
  <1>5. QED
    BY <1>1, <1>2, <1>3, <1>4 DEF Orderly, CallMove, QueueMove

(* Finish leaves an idle process that holds nothing.                       *)
LEMMA FinishEffect ==
    ASSUME ControlTypes, NEW p \in Procs, Finish(p)
    PROVE  /\ Frame(p) /\ Fits(p)'
           /\ pc'[p] = "idle" /\ job'[p].op = "none" /\ job'[p].best = -1
           /\ ~HoldsCallsShared(p)' /\ ~HoldsCallsExcl(p)' /\ ~HoldsQueues(p)' /\ ~Updates(p)'
  <1>1. Frame(p) /\ pc'[p] = "idle" /\ job'[p].op = "none" /\ job'[p].best = -1
    BY DEF Finish, ControlTypes, Frame, IdleJob
  <1>2. QED
    BY <1>1, KindsApart, WorkingPlaces
    DEF Fits, HoldsCallsShared, HoldsCallsExcl, HoldsQueues, Updates

(* A message handler that finishes gives back the lock of the queues.      *)
LEMMA MessageFinish ==
    ASSUME ControlTypes, ControlOK, NEW p \in Procs, Finish(p),
           job[p].op \in Messages, pc[p] \notin {"create", "update"},
           UNCHANGED pcall_lock
    PROVE  Orderly(p)
  <1>1. CallsKept(p)
    BY FinishEffect, KindsApart DEF CallsKept, HoldsCallsShared, HoldsCallsExcl
  <1>2. QueuesLeft(p)
    BY FinishEffect DEF Finish, QueuesLeft, HoldsQueues, Updates
  <1>3. QED
    BY <1>1, <1>2, FinishEffect DEF Orderly, CallMove, QueueMove

(* A callback or a scan that no longer holds the calls is done.            *)
LEMMA OtherFinish ==
    ASSUME ControlTypes, ControlOK, NEW p \in Procs, Finish(p),
           job[p].op \notin Messages, pc[p] \notin {"create", "update"},
           ~HoldsCallsShared(p), UNCHANGED pcall_lock
    PROVE  Orderly(p)
  <1>1. CallsKept(p)
    BY FinishEffect DEF CallsKept, HoldsCallsExcl
  <1>2. QueuesKept(p)
    BY FinishEffect DEF Finish, QueuesKept, HoldsQueues, Updates
  <1>3. QED
    BY <1>1, <1>2, FinishEffect DEF Orderly, CallMove, QueueMove

(* A scan that holds the calls goes on, to a slot of the table or beyond.  *)
LEMMA ScanGoes ==
    ASSUME ControlTypes, ControlOK, NEW p \in Procs,
           NEW label \in {"scan", "pick", "refer", "refer_upd", "end", "close", "del", "free"},
           HoldsCallsShared(p), pc[p] \notin {"create", "update"},
           label \in {"pick", "refer", "refer_upd"} => job[p].op = "retrieve",
           label # "scan" => job'[p].slot \in Slots,
           Frame(p), pc'[p] = label, job'[p].op = job[p].op,
           job[p].op = "retrieve" \/ job'[p].best = job[p].best,
           UNCHANGED <<pmohq_lock, pcall_lock>>
    PROVE  Orderly(p)
  <1>1. job[p].op \in Scans /\ job[p].op \notin Messages /\ job[p].op # "none"
    BY KindsApart DEF HoldsCallsShared
  <1>2. Fits(p)'
    BY <1>1, WorkingPlaces DEF Fits, ControlOK
  <1>3. CallsKept(p)
    BY <1>1 DEF CallsKept, HoldsCallsShared, HoldsCallsExcl
  <1>4. QueuesKept(p)
    BY <1>1 DEF QueuesKept, HoldsQueues, Updates
  <1>5. QED
    BY <1>2, <1>3, <1>4 DEF Orderly, CallMove, QueueMove

(* What going on changes.                                                  *)
LEMMA GotoEffect ==
    ASSUME ControlTypes, NEW p \in Procs
    PROVE  /\ \A label : Goto(p, label) =>
                /\ Frame(p) /\ pc'[p] = label /\ job'[p] = job[p] /\ UNCHANGED pmohq_lock
           /\ \A label, s : GotoSlot(p, label, s) =>
                /\ Frame(p) /\ pc'[p] = label /\ UNCHANGED pmohq_lock
                /\ job'[p].slot = s /\ job'[p].op = job[p].op
                /\ job'[p].best = job[p].best
  BY DEF ControlTypes, Jobs, Goto, GotoSlot, Frame

(* The ways out, in whoever takes them: from end to del, from close to     *)
(* del or back, from del to free, from free back.                          *)
LEMMA CommonGoto ==
    ASSUME ControlTypes, ControlOK, NEW p \in Procs,
           NEW label \in {"end", "close", "del", "free"},
           pc[p] \in {"end", "close", "del", "free"},
           Goto(p, label), UNCHANGED pcall_lock
    PROVE  Orderly(p)
  <1>1. /\ Frame(p) /\ pc'[p] = label /\ job'[p] = job[p] /\ UNCHANGED pmohq_lock
        /\ job[p].op # "none" /\ job[p].slot \in Slots
    BY GotoEffect DEF ControlOK
  <1>2. Fits(p)'
    BY <1>1, WorkingPlaces DEF Fits, ControlOK
  <1>3. CallsKept(p)
    BY <1>1 DEF CallsKept, HoldsCallsShared, HoldsCallsExcl
  <1>4. QueuesKept(p)
    BY <1>1 DEF QueuesKept, HoldsQueues, Updates
  <1>5. QED
    BY <1>1, <1>2, <1>3, <1>4 DEF Orderly, CallMove, QueueMove

(* close_call and delete_call return, to a handler or to a loop.           *)
LEMMA CommonReturn ==
    ASSUME ControlTypes, ControlOK, NEW p \in Procs,
           pc[p] \in {"close", "free"}, Return(p), UNCHANGED pcall_lock
    PROVE  Orderly(p)
  <1>1. job[p].op # "none" /\ job[p].slot \in Slots
    BY DEF ControlOK
  <1>2. CASE job[p].op \in Scans
    <2>1. HoldsCallsShared(p)
      BY <1>2 DEF HoldsCallsShared
    <2>2. CASE job[p].op = "drop"
      <3>1. GotoSlot(p, "scan", job[p].slot + 1)
        BY <2>2, KindsApart DEF Return
      <3>2. QED
        BY <3>1, <2>1, <2>2, GotoEffect, ScanGoes
    <2>3. CASE job[p].op = "retrieve"
      <3>1. Goto(p, "pick")
        BY <2>3, KindsApart DEF Return
      <3>2. QED
        BY <3>1, <1>1, <2>1, <2>3, GotoEffect, ScanGoes
    <2>4. QED
      BY <1>2, <2>2, <2>3, KindsApart
  <1>3. CASE job[p].op \notin Scans
    <2>1. Finish(p)
      BY <1>3, KindsApart DEF Return
    <2>2. ~HoldsCallsShared(p)
      BY <1>3 DEF HoldsCallsShared
    <2>3. QED
      BY <2>1, <2>2, MessageFinish, OtherFinish
  <1>4. QED
    BY <1>2, <1>3

(* The handlers of all methods only ever go on or finish.                  *)
MessageWork(p) ==
    \/ InviteRefuse(p) \/ InviteOffer(p) \/ InviteTransaction(p) \/ InviteTrying(p)
    \/ InviteRing(p) \/ InvitePrack(p) \/ InviteWait(p) \/ InviteCancelled(p)
    \/ InviteAnswer(p) \/ InviteAccept(p) \/ Ack(p) \/ AckQueue(p)
    \/ Prack(p) \/ PrackReply(p) \/ Bye(p) \/ Cancel(p)
    \/ Notify(p) \/ NotifyRequeue(p) \/ ReInvite(p) \/ Deny(p)

(* Whatever the method, a handler keeps to these two.                      *)
LEMMA MessageWorkOrderly ==
    ASSUME ControlTypes, ControlOK, NEW p \in Procs, MessageWork(p)
    PROVE  Orderly(p)
  <1>1. /\ pc[p] \in HandlerPcs /\ pc[p] \notin {"idle", "enter", "update", "lookup", "create", "scan"}
        /\ UNCHANGED pcall_lock
        /\ Finish(p) \/ \E label \in Working : Goto(p, label)
    <2> USE WorkingPlaces DEF Handles
    <2>1. CASE InviteRefuse(p)
      BY <2>1 DEF InviteRefuse, HandlerPcs
    <2>2. CASE InviteOffer(p)
      BY <2>2 DEF InviteOffer, HandlerPcs
    <2>3. CASE InviteTransaction(p)
      BY <2>3 DEF InviteTransaction, HandlerPcs
    <2>4. CASE InviteTrying(p)
      BY <2>4 DEF InviteTrying, HandlerPcs
    <2>5. CASE InviteRing(p)
      BY <2>5 DEF InviteRing, HandlerPcs
    <2>6. CASE InvitePrack(p)
      BY <2>6 DEF InvitePrack, HandlerPcs
    <2>7. CASE InviteWait(p)
      BY <2>7 DEF InviteWait, HandlerPcs
    <2>8. CASE InviteCancelled(p)
      BY <2>8 DEF InviteCancelled, HandlerPcs
    <2>9. CASE InviteAnswer(p)
      BY <2>9 DEF InviteAnswer, HandlerPcs
    <2>10. CASE InviteAccept(p)
      BY <2>10 DEF InviteAccept, HandlerPcs
    <2>11. CASE Ack(p)
      BY <2>11 DEF Ack, HandlerPcs
    <2>12. CASE AckQueue(p)
      BY <2>12 DEF AckQueue, HandlerPcs
    <2>13. CASE Prack(p)
      BY <2>13 DEF Prack, HandlerPcs
    <2>14. CASE PrackReply(p)
      BY <2>14 DEF PrackReply, HandlerPcs
    <2>15. CASE Bye(p)
      BY <2>15 DEF Bye, HandlerPcs
    <2>16. CASE Cancel(p)
      BY <2>16 DEF Cancel, HandlerPcs
    <2>17. CASE Notify(p)
      BY <2>17 DEF Notify, HandlerPcs
    <2>18. CASE NotifyRequeue(p)
      BY <2>18 DEF NotifyRequeue, HandlerPcs
    <2>19. CASE ReInvite(p)
      BY <2>19 DEF ReInvite, HandlerPcs
    <2>20. CASE Deny(p)
      BY <2>20 DEF Deny, HandlerPcs
    <2>21. QED
      BY <2>1, <2>2, <2>3, <2>4, <2>5, <2>6, <2>7, <2>8, <2>9, <2>10, <2>11, <2>12,
         <2>13, <2>14, <2>15, <2>16, <2>17, <2>18, <2>19, <2>20
      DEF MessageWork
  <1>2. job[p].op \in Messages /\ job[p].slot \in Slots
    BY <1>1 DEF ControlOK
  <1>3. QED
    BY <1>1, <1>2, MessageGoto, MessageFinish

(* mohq_process before it has found the call.                              *)
LEMMA UpdateOrderly ==
    ASSUME ControlTypes, ControlOK, NEW p \in Procs,
           BeginUpdate(p) \/ EndUpdate(p) \/ SkipUpdate(p)
    PROVE  Orderly(p)
  <1>1. pc[p] \in HandlerPcs /\ job[p].op \in Messages
    BY WorkingPlaces DEF ControlOK, BeginUpdate, EndUpdate, SkipUpdate
  <1>2. pc'[p] \in {"update", "lookup"} /\ Frame(p) /\ job' = job /\ UNCHANGED pcall_lock
    BY GotoEffect DEF BeginUpdate, EndUpdate, SkipUpdate, ControlTypes, Frame, Goto
  <1>3. Fits(p)'
    BY <1>1, <1>2, KindsApart DEF Fits, ControlOK
  <1>4. pc[p] # "create"
    BY DEF BeginUpdate, EndUpdate, SkipUpdate
  <1>5. CallsKept(p)
    BY <1>1, <1>2, <1>4, KindsApart DEF CallsKept, HoldsCallsShared, HoldsCallsExcl
  <1>6. CASE BeginUpdate(p)
    <2>1. UpdateBegun(p)
      BY <1>1, <1>2, <1>6 DEF BeginUpdate, UpdateBegun, HoldsQueues, Updates, ControlTypes
    <2>2. QED
      BY <1>2, <1>3, <1>5, <2>1 DEF Orderly, CallMove, QueueMove
  <1>7. CASE EndUpdate(p)
    <2>1. UpdateEnded(p)
      BY <1>1, <1>2, <1>7 DEF EndUpdate, UpdateEnded, HoldsQueues, Updates, ControlTypes
    <2>2. QED
      BY <1>2, <1>3, <1>5, <2>1 DEF Orderly, CallMove, QueueMove
  <1>8. CASE SkipUpdate(p)
    <2>1. QueuesKept(p)
      BY <1>1, <1>2, <1>8, GotoEffect DEF SkipUpdate, QueuesKept, HoldsQueues, Updates
    <2>2. QED
      BY <1>2, <1>3, <1>5, <2>1 DEF Orderly, CallMove, QueueMove
  <1>9. QED
    BY <1>6, <1>7, <1>8

(* find_call: nothing found, a call found, or a slot to fill under the     *)
(* exclusive lock.                                                         *)
LEMMA LookupOrderly ==
    ASSUME ControlTypes, ControlOK, NEW p \in Procs, Lookup(p)
    PROVE  Orderly(p)
  <1>1. pc[p] = "lookup" /\ job[p].op \in Messages
    BY WorkingPlaces DEF ControlOK, Lookup
  <1>2. CASE Finish(p) /\ UNCHANGED pcall_lock
    BY <1>1, <1>2, MessageFinish
  <1>3. ASSUME NEW s \in Slots, GotoSlot(p, "handle", s), UNCHANGED pcall_lock
        PROVE  Orderly(p)
    <2>1. Frame(p) /\ pc'[p] = "handle" /\ job'[p].op = job[p].op /\ job'[p].slot = s
          /\ job'[p].best = job[p].best /\ UNCHANGED pmohq_lock
      BY <1>3, GotoEffect
    <2>2. Fits(p)'
      BY <1>1, <1>3, <2>1, KindsApart DEF Fits, ControlOK
    <2>3. CallsKept(p) /\ QueuesKept(p)
      BY <1>1, <1>3, <2>1, KindsApart
      DEF CallsKept, QueuesKept, HoldsCallsShared, HoldsCallsExcl, HoldsQueues, Updates
    <2>4. QED
      BY <2>1, <2>2, <2>3 DEF Orderly, CallMove, QueueMove
  <1>4. ASSUME NEW s \in Slots, GotoSlot(p, "create", s), ~LockRefused,
               pcall_lock' = AfterSet(pcall_lock, TRUE)
        PROVE  Orderly(p)
    <2>1. Frame(p) /\ pc'[p] = "create" /\ job'[p].op = job[p].op /\ job'[p].slot = s
          /\ job'[p].best = job[p].best /\ UNCHANGED pmohq_lock
      BY <1>4, GotoEffect
    <2>2. Fits(p)'
      BY <1>1, <1>4, <2>1, KindsApart DEF Fits, ControlOK
    <2>3. CallsTaken(p)
      BY <1>1, <1>4, <2>1, KindsApart
      DEF CallsTaken, HoldsCallsShared, HoldsCallsExcl, LockRefused
    <2>4. QueuesKept(p)
      BY <1>1, <2>1 DEF QueuesKept, HoldsQueues, Updates
    <2>5. QED
      BY <2>1, <2>2, <2>3, <2>4 DEF Orderly, CallMove, QueueMove
  <1>5. QED
    BY <1>2, <1>3, <1>4 DEF Lookup, Matching, OpenSlots

(* create_call gives that lock back, whether it succeeds or not.           *)
LEMMA CreateCallOrderly ==
    ASSUME ControlTypes, ControlOK, NEW p \in Procs, CreateCall(p)
    PROVE  Orderly(p)
  <1>1. /\ pc[p] = "create" /\ job[p].op \in Messages /\ job[p].slot \in Slots
        /\ pcall_lock' = AfterRelease(pcall_lock)
    BY WorkingPlaces DEF ControlOK, CreateCall
  <1>2. CASE Goto(p, "handle")
    <2>1. Frame(p) /\ pc'[p] = "handle" /\ job'[p] = job[p] /\ UNCHANGED pmohq_lock
      BY <1>2, GotoEffect
    <2>2. Fits(p)'
      BY <1>1, <2>1, KindsApart DEF Fits, ControlOK
    <2>3. CallsLeft(p)
      BY <1>1, <2>1, KindsApart DEF CallsLeft, HoldsCallsShared, HoldsCallsExcl
    <2>4. QueuesKept(p)
      BY <1>1, <2>1 DEF QueuesKept, HoldsQueues, Updates
    <2>5. QED
      BY <2>1, <2>2, <2>3, <2>4 DEF Orderly, CallMove, QueueMove
  <1>3. CASE Finish(p)
    <2>1. CallsLeft(p)
      BY <1>1, <1>3, FinishEffect DEF CallsLeft, HoldsCallsExcl
    <2>2. QueuesLeft(p)
      BY <1>1, <1>3, FinishEffect DEF Finish, QueuesLeft, HoldsQueues, Updates
    <2>3. QED
      BY <1>3, <2>1, <2>2, FinishEffect DEF Orderly, CallMove, QueueMove
  <1>4. QED
    BY <1>2, <1>3 DEF CreateCall

(* The ways out that the handlers share.                                   *)
LEMMA EndingOrderly ==
    ASSUME ControlTypes, ControlOK, NEW p \in Procs,
           EndThenDelete(p) \/ CloseCall(p) \/ DeleteRow(p) \/ FreeSlot(p) \/ UpdateRow(p)
    PROVE  Orderly(p)
  <1>1. CASE EndThenDelete(p)
    BY <1>1, CommonGoto DEF EndThenDelete
  <1>2. CASE CloseCall(p)
    BY <1>2, CommonGoto, CommonReturn DEF CloseCall
  <1>3. CASE DeleteRow(p)
    BY <1>3, CommonGoto DEF DeleteRow
  <1>4. CASE FreeSlot(p)
    BY <1>4, CommonReturn DEF FreeSlot
  <1>5. CASE UpdateRow(p)
    <2>1. pc[p] = "upd" /\ Finish(p) /\ UNCHANGED pcall_lock
      BY <1>5 DEF UpdateRow
    <2>2. ~HoldsCallsShared(p)
      BY <2>1 DEF HoldsCallsShared
    <2>3. QED
      BY <2>1, <2>2, MessageFinish, OtherFinish
  <1>6. QED
    BY <1>1, <1>2, <1>3, <1>4, <1>5

(* The loops of drop_call and mohq_retrieve hold the calls throughout.     *)
LEMMA ScanOrderly ==
    ASSUME ControlTypes, ControlOK, NEW p \in Procs,
           DropScan(p) \/ RetrieveScan(p) \/ RetrievePick(p)
    PROVE  Orderly(p)
  <1>1. HoldsCallsShared(p) /\ pc[p] \in {"scan", "pick"}
    BY KindsApart DEF ControlOK, DropScan, RetrieveScan, RetrievePick, HoldsCallsShared
  <1>2. CASE DropScan(p)
    <2>1. job[p].slot \in Slots
      BY <1>2, JobType, SlotRange DEF DropScan, InTable
    <2>2. QED
      BY <1>1, <1>2, <2>1, GotoEffect, ScanGoes DEF DropScan
  <1>3. CASE RetrieveScan(p)
    <2>1. job[p].slot \in Slots /\ job[p].op = "retrieve"
      BY <1>3, JobType, SlotRange DEF RetrieveScan, InTable
    <2>2. QED
      BY <1>1, <1>3, <2>1, GotoEffect, ScanGoes DEF RetrieveScan
  <1>4. CASE RetrievePick(p)
    <2>1. /\ job[p].op = "retrieve" /\ pc'[p] = "scan"
          /\ UNCHANGED <<pmohq_lock, pcall_lock>>
      BY <1>4 DEF RetrievePick, ControlOK, ControlTypes
    <2>2. PICK b : job' = [job EXCEPT ![p].slot = job[p].slot + 1, ![p].best = b]
      BY <1>4 DEF RetrievePick
    <2>3. Frame(p) /\ job'[p].op = job[p].op
      BY <1>4, <2>2 DEF RetrievePick, Frame, ControlTypes, Jobs
    <2>4. QED
      BY <1>1, <2>1, <2>3, ScanGoes
  <1>5. QED
    BY <1>2, <1>3, <1>4

(* The scan is over: the lock is given back, or kept for refer_call.       *)
LEMMA EndScanOrderly ==
    ASSUME ControlTypes, ControlOK, NEW p \in Procs, EndScan(p)
    PROVE  Orderly(p)
  <1>1. HoldsCallsShared(p) /\ pc[p] = "scan" /\ job[p].op \notin Messages
    BY KindsApart DEF ControlOK, EndScan, HoldsCallsShared
  <1>2. CASE Finish(p) /\ pcall_lock' = AfterRelease(pcall_lock)
    <2>1. CallsLeft(p)
      BY <1>1, <1>2, FinishEffect DEF CallsLeft
    <2>2. QueuesKept(p)
      BY <1>1, <1>2, FinishEffect DEF Finish, QueuesKept, HoldsQueues, Updates
    <2>3. QED
      BY <1>2, <2>1, <2>2, FinishEffect DEF Orderly, CallMove, QueueMove
  <1>3. CASE /\ job[p].best # -1 /\ GotoSlot(p, "refer", job[p].best)
             /\ UNCHANGED pcall_lock
    <2>1. job[p].best \in Slots /\ job[p].op = "retrieve"
      BY <1>3, JobType, SlotRange DEF ControlOK
    <2>2. QED
      BY <1>1, <1>3, <2>1, GotoEffect, ScanGoes
  <1>4. QED
    BY <1>2, <1>3 DEF EndScan

(* refer_call gives the lock back on every way but the one that leaks it.  *)
LEMMA ReferOrderly ==
    ASSUME ControlTypes, ControlOK, NEW p \in Procs,
           (Refer(p) /\ "leak" \notin Faults) \/ ReferUpdate(p) \/ ReferSend(p)
    PROVE  Orderly(p)
  <1>1. /\ pc[p] \in {"refer", "refer_upd", "refer_send"} /\ job[p].op = "retrieve"
        /\ job[p].op \notin Messages /\ job[p].op \in Scans /\ job[p].slot \in Slots
    BY KindsApart DEF ControlOK, Refer, ReferUpdate, ReferSend
  <1>2. CASE Refer(p) /\ "leak" \notin Faults
    <2>1. HoldsCallsShared(p)
      BY <1>1, <1>2 DEF Refer, HoldsCallsShared
    <2>2. CASE Goto(p, "refer_upd") /\ UNCHANGED pcall_lock
      BY <1>1, <2>1, <2>2, GotoEffect, ScanGoes
    <2>3. CASE Finish(p) /\ pcall_lock' = AfterRelease(pcall_lock)
      <3>1. CallsLeft(p)
        BY <2>1, <2>3, FinishEffect DEF CallsLeft
      <3>2. QueuesKept(p)
        BY <1>1, <2>3, FinishEffect DEF Finish, QueuesKept, HoldsQueues, Updates
      <3>3. QED
        BY <2>3, <3>1, <3>2, FinishEffect DEF Orderly, CallMove, QueueMove
    <2>4. QED
      BY <1>2, <2>2, <2>3 DEF Refer
  <1>3. CASE ReferUpdate(p)
    <2>1. /\ pc[p] = "refer_upd" /\ Frame(p) /\ pc'[p] = "refer_send"
          /\ job'[p] = job[p] /\ UNCHANGED pmohq_lock
          /\ pcall_lock' = AfterRelease(pcall_lock)
      BY <1>3, GotoEffect DEF ReferUpdate
    <2>2. Fits(p)'
      BY <1>1, <2>1, KindsApart, WorkingPlaces DEF Fits, ControlOK
    <2>3. CallsLeft(p)
      BY <1>1, <2>1 DEF CallsLeft, HoldsCallsShared, HoldsCallsExcl
    <2>4. QueuesKept(p)
      BY <1>1, <2>1 DEF QueuesKept, HoldsQueues, Updates
    <2>5. QED
      BY <2>1, <2>2, <2>3, <2>4 DEF Orderly, CallMove, QueueMove
  <1>4. CASE ReferSend(p)
    <2>1. ~HoldsCallsShared(p) /\ pc[p] = "refer_send" /\ UNCHANGED pcall_lock
      BY <1>4 DEF ReferSend, HoldsCallsShared
    <2>2. CASE Finish(p)
      BY <1>1, <2>1, <2>2, OtherFinish
    <2>3. CASE Goto(p, "upd")
      <3>1. Frame(p) /\ pc'[p] = "upd" /\ job'[p] = job[p] /\ UNCHANGED pmohq_lock
        BY <2>3, GotoEffect
      <3>2. Fits(p)'
        BY <1>1, <3>1, KindsApart, WorkingPlaces DEF Fits, ControlOK
      <3>3. CallsKept(p)
        BY <2>1, <3>1 DEF CallsKept, HoldsCallsShared, HoldsCallsExcl
      <3>4. QueuesKept(p)
        BY <2>1, <3>1 DEF QueuesKept, HoldsQueues, Updates
      <3>5. QED
        BY <3>1, <3>2, <3>3, <3>4 DEF Orderly, CallMove, QueueMove
    <2>4. QED
      BY <1>4, <2>2, <2>3 DEF ReferSend
  <1>5. QED
    BY <1>2, <1>3, <1>4

(* A message or a scan begins in an idle process.                          *)
LEMMA StartOrderly ==
    ASSUME ControlTypes, ControlOK, NEW p \in Procs, NEW op \in Ops,
           NEW d \in Dialogs \cup {NoCall},
           StartMessage(p, op, d) \/ StartScan(p, op, d)
    PROVE  Orderly(p)
  <1>1. pc[p] = "idle" /\ job[p].op = "none"
    BY DEF ControlOK, StartMessage, StartScan
  <1>2. /\ Frame(p) /\ job'[p].op = op /\ job'[p].best = -1
        /\ pc'[p] = IF op \in Messages THEN "enter" ELSE "scan"
        /\ op \in Messages \cup Scans
    BY KindsApart DEF StartMessage, StartScan, ControlTypes, Frame, IdleJob
  <1>3. Fits(p)'
    BY <1>2, KindsApart, WorkingPlaces DEF Fits
  <1>4. CASE StartMessage(p, op, d)
    <2>1. op \in Messages /\ op \notin Scans
      BY <1>4, KindsApart DEF StartMessage
    <2>2. CallsKept(p)
      BY <1>1, <1>2, <1>4, <2>1, KindsApart
      DEF StartMessage, CallsKept, HoldsCallsShared, HoldsCallsExcl
    <2>3. SetGranted(pmohq_lock, FALSE) /\ pmohq_lock' = AfterSet(pmohq_lock, FALSE)
      BY <1>4 DEF StartMessage
    <2>4. QueuesJoined(p)
      BY <1>1, <1>2, <2>1, <2>3, KindsApart DEF QueuesJoined, HoldsQueues, Updates
    <2>5. QED
      BY <1>2, <1>3, <2>2, <2>4 DEF Orderly, CallMove, QueueMove
  <1>5. CASE StartScan(p, op, d)
    <2>1. op \in Scans /\ op \notin Messages
      BY <1>5, KindsApart DEF StartScan
    <2>2. /\ SetGranted(pcall_lock, FALSE) /\ pcall_lock' = AfterSet(pcall_lock, FALSE)
          /\ UNCHANGED pmohq_lock
      BY <1>5 DEF StartScan
    <2>3. CallsJoined(p)
      BY <1>1, <1>2, <2>1, <2>2, KindsApart
      DEF CallsJoined, HoldsCallsShared, HoldsCallsExcl
    <2>4. QueuesKept(p)
      BY <1>1, <1>2, <2>1, <2>2, KindsApart DEF QueuesKept, HoldsQueues, Updates
    <2>5. QED
      BY <1>2, <1>3, <2>3, <2>4 DEF Orderly, CallMove, QueueMove
  <1>6. QED
    BY <1>4, <1>5

(* A callback does its work at once, or goes on in an idle process.        *)
LEMMA CallbackOrderly ==
    ASSUME TypeOK, ControlOK, NEW p \in Procs, NEW t \in tm,
           InviteCb(p, t) \/ ReferCb(p, t) \/ ByeCb(p, t)
    PROVE  Orderly(p)
  <1>1. /\ pc[p] = "idle" /\ job[p].op = "none" /\ UNCHANGED pcall_lock
    BY DEF ControlOK, InviteCb, ReferCb, ByeCb
  <1>2. \/ UNCHANGED control
        \/ \E op \in Callbacks, label \in {"end", "del", "upd"} : Continue(p, t, op, label)
    BY DEF InviteCb, ReferCb, ByeCb, Callbacks
  <1>3. CASE UNCHANGED control
    <2>1. Frame(p) /\ pc' = pc /\ job' = job /\ UNCHANGED pmohq_lock
      BY <1>3 DEF control, Frame
    <2>2. Fits(p)'
      BY <2>1 DEF Fits, ControlOK
    <2>3. CallsKept(p) /\ QueuesKept(p)
      BY <1>1, <2>1
      DEF CallsKept, QueuesKept, HoldsCallsShared, HoldsCallsExcl, HoldsQueues, Updates
    <2>4. QED
      BY <2>1, <2>2, <2>3 DEF Orderly, CallMove, QueueMove
  <1>4. ASSUME NEW op \in Callbacks, NEW label \in {"end", "del", "upd"},
               Continue(p, t, op, label)
        PROVE  Orderly(p)
    <2>1. t.slot \in Slots
      BY TypeParts DEF TmTypes, Transactions
    <2>2. /\ Frame(p) /\ pc'[p] = label /\ job'[p].op = op /\ job'[p].slot = t.slot
          /\ job'[p].best = -1 /\ UNCHANGED pmohq_lock
      BY <1>4, TypeParts DEF Continue, ControlTypes, Frame, IdleJob
    <2>3. Fits(p)'
      BY <2>1, <2>2, KindsApart, WorkingPlaces DEF Fits
    <2>4. CallsKept(p)
      BY <1>1, <2>2, KindsApart DEF CallsKept, HoldsCallsShared, HoldsCallsExcl
    <2>5. QueuesKept(p)
      BY <1>1, <2>2, KindsApart DEF QueuesKept, HoldsQueues, Updates
    <2>6. QED
      BY <2>2, <2>3, <2>4, <2>5 DEF Orderly, CallMove, QueueMove
  <1>5. QED
    BY <1>2, <1>3, <1>4

(* Every step of a process is orderly, but for the two that lose a lock:   *)
(* mohqueue.debug and the failed allocation in refer_call.                 *)
LEMMA StepOrderly ==
    ASSUME TypeOK, ControlOK, NEW p \in Procs, Step(p) \/ Stimulus(p)
    PROVE  \/ Orderly(p)
           \/ RpcDebug(p)
           \/ "leak" \in Faults /\ Refer(p)
  <1>1. ControlTypes
    BY TypeParts
  <1>2. CASE Step(p)
    <2>1. CASE MessageStep(p)
      <3>1. \/ BeginUpdate(p) \/ EndUpdate(p) \/ SkipUpdate(p)
            \/ Lookup(p) \/ CreateCall(p) \/ MessageWork(p)
        BY <2>1, Zenon DEF MessageStep, MessageWork
      <3>2. QED
        BY <1>1, <3>1, UpdateOrderly, LookupOrderly, CreateCallOrderly,
           MessageWorkOrderly
    <2>2. CASE TransferStep(p)
      <3>1. CASE DropScan(p) \/ RetrieveScan(p) \/ RetrievePick(p) \/ EndScan(p)
        BY <1>1, <3>1, ScanOrderly, EndScanOrderly
      <3>2. CASE Refer(p) \/ ReferUpdate(p) \/ ReferSend(p)
        BY <1>1, <3>2, ReferOrderly
      <3>3. QED
        BY <2>2, <3>1, <3>2 DEF TransferStep
    <2>3. CASE \/ EndThenDelete(p) \/ CloseCall(p) \/ DeleteRow(p) \/ FreeSlot(p)
               \/ UpdateRow(p)
      BY <1>1, <2>3, EndingOrderly
    <2>4. QED
      BY <1>2, <2>1, <2>2, <2>3 DEF Step
  <1>3. CASE Stimulus(p)
    <2>1. CASE \E op \in Ops, d \in Dialogs : StartMessage(p, op, d)
      BY <1>1, <2>1, StartOrderly
    <2>2. CASE \E op \in Ops, d \in Dialogs \cup {NoCall} : StartScan(p, op, d)
      BY <1>1, <2>2, StartOrderly
    <2>3. CASE Callback(p)
      BY <2>3, CallbackOrderly DEF Callback
    <2>4. QED
      BY <1>3, <2>1, <2>2, <2>3 DEF Stimulus
  <1>4. QED
    BY <1>2, <1>3

(* Every step keeps the control in order, the two that lose a lock too.    *)
LEMMA ControlStep ==
    ASSUME TypeOK, ControlOK, [Next]_vars
    PROVE  ControlOK'
  <1>1. ASSUME UNCHANGED <<pc, job>> PROVE ControlOK'
    BY <1>1 DEF ControlOK
  <1>2. CASE UNCHANGED vars
    BY <1>1, <1>2 DEF vars
  <1>3. ASSUME NEW p \in Procs, Step(p) \/ Stimulus(p)
        PROVE  ControlOK'
    <2>1. CASE Orderly(p)
      BY <2>1, FitsAll DEF Orderly
    <2>2. CASE RpcDebug(p)
      BY <1>1, <2>2 DEF RpcDebug
    <2>3. CASE Refer(p)
      <3>1. ControlTypes
        BY TypeParts
      <3>2. CASE Finish(p)
        BY <3>1, <3>2, FinishEffect, FitsAll
      <3>3. CASE Goto(p, "refer_upd")
        <4>1. Frame(p) /\ pc'[p] = "refer_upd" /\ job'[p] = job[p] /\ pc[p] = "refer"
          BY <2>3, <3>1, <3>3, GotoEffect DEF Refer
        <4>2. Fits(p)'
          BY <4>1, KindsApart, WorkingPlaces DEF Fits, ControlOK
        <4>3. QED
          BY <4>1, <4>2, FitsAll
      <3>4. QED
        BY <2>3, <3>2, <3>3 DEF Refer
    <2>4. QED
      BY <1>3, <2>1, <2>2, <2>3, StepOrderly
  <1>4. ASSUME NEW d \in Dialogs, SessionExpires(d)
        PROVE  ControlOK'
    BY <1>1, <1>4 DEF SessionExpires, control
  <1>5. QED
    BY <1>2, <1>3, <1>4 DEF Next

-----------------------------------------------------------------------------
(* LocksBalanced, one lock at a time.                                      *)
CallsBalanced ==
    /\ pcall_lock = IF CallWriters # {} THEN -1 ELSE Cardinality(CallReaders)
    /\ \A p \in CallWriters : CallWriters = {p} /\ CallReaders = {}

QueuesBalanced ==
    /\ pmohq_lock = IF Updaters # {} THEN -1 ELSE Cardinality(QueueUsers)
    /\ \A p \in Updaters : QueueUsers = {p}

(* Sets of processes are finite: adding or removing one counts by one.     *)
LEMMA CountingSets ==
    ASSUME NEW S, S \subseteq Procs
    PROVE  /\ IsFiniteSet(S) /\ Cardinality(S) \in Nat
           /\ Cardinality(S) = 0 <=> S = {}
           /\ \A p : Cardinality(S \cup {p}) =
                   IF p \in S THEN Cardinality(S) ELSE Cardinality(S) + 1
           /\ \A p : Cardinality(S \ {p}) =
                   IF p \in S THEN Cardinality(S) - 1 ELSE Cardinality(S)
  <1>1. IsFiniteSet(S)
    BY TableAssumption, FS_Subset
  <1>2. QED
    BY <1>1, FS_CardinalityType, FS_EmptySet, FS_AddElement, FS_RemoveElement

(* Holders are processes.                                                  *)
LEMMA HolderSets ==
    /\ CallReaders \subseteq Procs /\ CallWriters \subseteq Procs
    /\ QueueUsers \subseteq Procs /\ Updaters \subseteq Procs
  BY DEF CallReaders, CallWriters, QueueUsers, Updaters

(* A step of p changes the sets of holders in p only.                      *)
LEMMA HoldersMove ==
    ASSUME NEW p \in Procs, Frame(p)
    PROVE  /\ CallReaders' = IF HoldsCallsShared(p)' THEN CallReaders \cup {p} ELSE CallReaders \ {p}
           /\ CallWriters' = IF HoldsCallsExcl(p)' THEN CallWriters \cup {p} ELSE CallWriters \ {p}
           /\ QueueUsers' = IF HoldsQueues(p)' THEN QueueUsers \cup {p} ELSE QueueUsers \ {p}
           /\ Updaters' = IF Updates(p)' THEN Updaters \cup {p} ELSE Updaters \ {p}
           /\ p \in CallReaders <=> HoldsCallsShared(p)
           /\ p \in CallWriters <=> HoldsCallsExcl(p)
           /\ p \in QueueUsers <=> HoldsQueues(p)
           /\ p \in Updaters <=> Updates(p)
  BY DEF Frame, CallReaders, CallWriters, QueueUsers, Updaters,
         HoldsCallsShared, HoldsCallsExcl, HoldsQueues, Updates

(* Each move of a process keeps the count of the calls' lock right,        *)
LEMMA CallsBalancedStep ==
    ASSUME CallsBalanced, NEW p \in Procs, Frame(p), CallMove(p)
    PROVE  CallsBalanced'
  <1> USE HolderSets, HoldersMove
  <1>1. CASE CallsKept(p)
    <2>1. CallReaders' = CallReaders /\ CallWriters' = CallWriters
      BY <1>1 DEF CallsKept
    <2>2. QED
      BY <1>1, <2>1 DEF CallsKept, CallsBalanced
  <1>2. CASE CallsJoined(p)
    <2>1. CallWriters = {}
      BY <1>2 DEF CallsJoined, SetGranted, CallsBalanced
    <2>2. CallWriters' = {} /\ p \notin CallReaders /\ CallReaders' = CallReaders \cup {p}
      BY <1>2, <2>1 DEF CallsJoined
    <2>3. pcall_lock' = Cardinality(CallReaders) + 1
      BY <1>2, <2>1 DEF CallsJoined, AfterSet, CallsBalanced
    <2>4. QED
      BY <2>2, <2>3, CountingSets DEF CallsBalanced
  <1>3. CASE CallsTaken(p)
    <2>1. CallWriters = {} /\ CallReaders = {}
      BY <1>3, CountingSets DEF CallsTaken, SetGranted, CallsBalanced
    <2>2. CallWriters' = {p} /\ CallReaders' = {}
      BY <1>3, <2>1 DEF CallsTaken
    <2>3. QED
      BY <1>3, <2>2 DEF CallsTaken, AfterSet, CallsBalanced
  <1>4. CASE CallsLeft(p)
    <2>1. CASE p \in CallWriters
      <3>1. CallWriters' = {} /\ CallReaders' = {}
        BY <1>4, <2>1 DEF CallsLeft, CallsBalanced
      <3>2. pcall_lock' = 0
        BY <1>4, <2>1 DEF CallsLeft, CallsBalanced, AfterRelease
      <3>3. QED
        BY <3>1, <3>2, FS_EmptySet DEF CallsBalanced
    <2>2. CASE p \in CallReaders
      <3>1. CallWriters = {} /\ CallWriters' = {} /\ CallReaders' = CallReaders \ {p}
        BY <1>4, <2>2 DEF CallsLeft, CallsBalanced
      <3>2. pcall_lock = Cardinality(CallReaders) /\ pcall_lock \in Nat /\ pcall_lock # 0
        BY <2>2, <3>1, CountingSets DEF CallsBalanced
      <3>3. pcall_lock' = Cardinality(CallReaders) - 1
        BY <1>4, <3>2 DEF CallsLeft, AfterRelease
      <3>4. QED
        BY <2>2, <3>1, <3>3, CountingSets DEF CallsBalanced
    <2>3. QED
      BY <1>4, <2>1, <2>2 DEF CallsLeft
  <1>5. QED
    BY <1>1, <1>2, <1>3, <1>4 DEF CallMove

(* and the count of the queues' lock.                                      *)
LEMMA QueuesBalancedStep ==
    ASSUME QueuesBalanced, NEW p \in Procs, Frame(p), QueueMove(p)
    PROVE  QueuesBalanced'
  <1> USE HolderSets, HoldersMove
  <1>1. CASE QueuesKept(p)
    <2>1. QueueUsers' = QueueUsers /\ Updaters' = Updaters
      BY <1>1 DEF QueuesKept
    <2>2. QED
      BY <1>1, <2>1 DEF QueuesKept, QueuesBalanced
  <1>2. CASE QueuesJoined(p)
    <2>1. Updaters = {}
      BY <1>2 DEF QueuesJoined, SetGranted, QueuesBalanced
    <2>2. Updaters' = {} /\ p \notin QueueUsers /\ QueueUsers' = QueueUsers \cup {p}
      BY <1>2, <2>1 DEF QueuesJoined
    <2>3. pmohq_lock' = Cardinality(QueueUsers) + 1
      BY <1>2, <2>1 DEF QueuesJoined, AfterSet, QueuesBalanced
    <2>4. QED
      BY <2>2, <2>3, CountingSets DEF QueuesBalanced
  <1>3. CASE QueuesLeft(p)
    <2>1. Updaters = {} /\ p \in QueueUsers
      BY <1>3 DEF QueuesLeft, QueuesBalanced
    <2>2. Updaters' = {} /\ QueueUsers' = QueueUsers \ {p}
      BY <1>3, <2>1 DEF QueuesLeft
    <2>3. pmohq_lock = Cardinality(QueueUsers) /\ pmohq_lock \in Nat /\ pmohq_lock # 0
      BY <2>1, CountingSets DEF QueuesBalanced
    <2>4. pmohq_lock' = Cardinality(QueueUsers) - 1
      BY <1>3, <2>3 DEF QueuesLeft, AfterRelease
    <2>5. QED
      BY <2>1, <2>2, <2>4, CountingSets DEF QueuesBalanced
  <1>4. CASE UpdateBegun(p)
    <2>1. pmohq_lock = 1 /\ p \in QueueUsers
      BY <1>4 DEF UpdateBegun, ChangeGranted
    <2>2. Updaters = {} /\ Cardinality(QueueUsers) = 1
      BY <2>1 DEF QueuesBalanced
    <2>3. QueueUsers = {p}
      <3>1. Cardinality(QueueUsers \ {p}) = 0
        BY <2>1, <2>2, CountingSets
      <3>2. QueueUsers \ {p} = {}
        BY <3>1, CountingSets
      <3>3. QED
        BY <2>1, <3>2
    <2>4. Updaters' = {p} /\ QueueUsers' = {p}
      BY <1>4, <2>2, <2>3 DEF UpdateBegun
    <2>5. QED
      BY <1>4, <2>4 DEF UpdateBegun, AfterChange, QueuesBalanced
  <1>5. CASE UpdateEnded(p)
    <2>1. p \in Updaters /\ QueueUsers = {p} /\ pmohq_lock = -1
      BY <1>5 DEF UpdateEnded, QueuesBalanced
    <2>2. Updaters = {p}
      BY <2>1 DEF QueuesBalanced
    <2>3. Updaters' = {} /\ QueueUsers' = {p}
      BY <1>5, <2>1, <2>2 DEF UpdateEnded
    <2>4. pmohq_lock' = 1
      BY <1>5, <2>1 DEF UpdateEnded, ChangeGranted, AfterChange
    <2>5. QED
      BY <2>3, <2>4, FS_Singleton DEF QueuesBalanced
  <1>6. QED
    BY <1>1, <1>2, <1>3, <1>4, <1>5 DEF QueueMove

(* Without the two steps that lose a lock, every step keeps both counts.   *)
LEMMA LocksStep ==
    ASSUME TypeOK, ControlOK, LocksBalanced, [Next]_vars,
           "debug" \notin Ops, "leak" \notin Faults
    PROVE  LocksBalanced'
  <1>1. CallsBalanced /\ QueuesBalanced
    BY DEF LocksBalanced, CallsBalanced, QueuesBalanced
  <1>2. ASSUME CallsBalanced', QueuesBalanced' PROVE LocksBalanced'
    BY <1>2 DEF LocksBalanced, CallsBalanced, QueuesBalanced
  <1>3. ASSUME UNCHANGED <<pcall_lock, pmohq_lock, pc, job>> PROVE LocksBalanced'
    BY <1>3 DEF LocksBalanced, CallReaders, CallWriters, QueueUsers, Updaters,
                HoldsCallsShared, HoldsCallsExcl, HoldsQueues
  <1>4. CASE UNCHANGED vars
    BY <1>3, <1>4 DEF vars
  <1>5. ASSUME NEW p \in Procs, Step(p) \/ Stimulus(p)
        PROVE  LocksBalanced'
    <2>1. Orderly(p)
      BY <1>5, StepOrderly DEF RpcDebug
    <2>2. QED
      BY <1>1, <1>2, <2>1, CallsBalancedStep, QueuesBalancedStep DEF Orderly
  <1>6. ASSUME NEW d \in Dialogs, SessionExpires(d)
        PROVE  LocksBalanced'
    BY <1>3, <1>6 DEF SessionExpires, control
  <1>7. QED
    BY <1>4, <1>5, <1>6 DEF Next

(* The invariant holds after mod_init.                                     *)
LEMMA InitOK == Init => TypeOK /\ ControlOK /\ LocksBalanced
  <1> SUFFICES ASSUME Init PROVE TypeOK /\ ControlOK /\ LocksBalanced
    OBVIOUS
  <1>1. \A p \in Procs : pc[p] = "idle" /\ job[p] = IdleJob
    BY DEF Init
  <1>2. TypeOK
    BY IdleJobType DEF Init, TypeOK, LockValues, CallStates, UA_IDLE, UA_REFERRED
  <1>3. ControlOK
    BY <1>1, WorkingPlaces DEF ControlOK, IdleJob
  <1>4. /\ CallReaders = {} /\ CallWriters = {} /\ QueueUsers = {} /\ Updaters = {}
    BY <1>1, KindsApart
    DEF CallReaders, CallWriters, QueueUsers, Updaters, HoldsCallsShared,
        HoldsCallsExcl, HoldsQueues, IdleJob
  <1>5. LocksBalanced
    BY <1>4, FS_EmptySet DEF Init, LocksBalanced
  <1>6. QED
    BY <1>2, <1>3, <1>5

(* Who may give a slot another call or change a row.                       *)
LEMMA TableWriters ==
    ASSUME NEW p \in Procs, Step(p) \/ Stimulus(p)
    PROVE  \/ UNCHANGED <<call_id, db>>
           \/ CreateCall(p) \/ DeleteRow(p) \/ UpdateRow(p) \/ ReferUpdate(p)
  <1>1. MessageStep(p) => UNCHANGED <<call_id, db>> \/ CreateCall(p)
    <2>1. BeginUpdate(p) \/ EndUpdate(p) \/ SkipUpdate(p) \/ Lookup(p) => UNCHANGED <<call_id, db>>
      BY DEF BeginUpdate, EndUpdate, SkipUpdate, Lookup, table
    <2>2. \/ InviteRefuse(p) \/ InviteOffer(p) \/ InviteTransaction(p) \/ InviteTrying(p)
          \/ InviteRing(p) \/ InvitePrack(p) \/ InviteWait(p) \/ InviteCancelled(p)
          \/ InviteAnswer(p) \/ InviteAccept(p)
          => UNCHANGED <<call_id, db>>
      BY DEF InviteRefuse, InviteOffer, InviteTransaction, InviteTrying, InviteRing,
             InvitePrack, InviteWait, InviteCancelled, InviteAnswer, InviteAccept, table
    <2>3. \/ Ack(p) \/ AckQueue(p) \/ Prack(p) \/ PrackReply(p) \/ Bye(p) \/ Cancel(p)
          \/ Notify(p) \/ NotifyRequeue(p) \/ ReInvite(p) \/ Deny(p)
          => UNCHANGED <<call_id, db>>
      BY DEF Ack, AckQueue, Prack, PrackReply, Bye, Cancel, Notify, NotifyRequeue,
             ReInvite, Deny, table
    <2>4. QED
      BY <2>1, <2>2, <2>3, Zenon DEF MessageStep
  <1>2. TransferStep(p) => UNCHANGED <<call_id, db>> \/ ReferUpdate(p)
    BY DEF TransferStep, DropScan, RetrieveScan, RetrievePick, EndScan, Refer,
           ReferSend, table
  <1>3. EndThenDelete(p) \/ CloseCall(p) \/ FreeSlot(p) => UNCHANGED <<call_id, db>>
    BY DEF EndThenDelete, CloseCall, FreeSlot, table
  <1>4. Stimulus(p) => UNCHANGED <<call_id, db>>
    BY DEF Stimulus, StartMessage, StartScan, RpcDebug, Callback, InviteCb, ReferCb,
           ByeCb, table
  <1>5. QED
    BY <1>1, <1>2, <1>3, <1>4, Zenon DEF Step

-----------------------------------------------------------------------------
(* The inductive invariant of the types: a step keeps TypeOK only if each  *)
(* process is where its job can have led it.                               *)
THEOREM ControlInvariant == Spec => [](TypeOK /\ ControlOK)
  <1>1. TypeOK /\ ControlOK /\ [Next]_vars => (TypeOK /\ ControlOK)'
    BY TypeStep, ControlStep
  <1>2. QED
    BY <1>1, InitOK, PTL DEF Spec

(* Whatever goes wrong and in whatever order the handlers of any number of *)
(* processes run, the table, the locks and the processes stay typed; a     *)
(* callback or a resumed handler never works outside the table.            *)
THEOREM TableTypeCorrect == Spec => []TypeOK
  BY ControlInvariant, PTL

(* Both locks are given back on every way out of every handler, with the   *)
(* two exceptions the code has: mohqueue.debug, which releases the wrong   *)
(* lock, and the return of refer_call that forgets its own.                *)
THEOREM LocksAreBalanced ==
    ASSUME "debug" \notin Ops, "leak" \notin Faults
    PROVE  Spec => []LocksBalanced
  <1>1. TypeOK /\ ControlOK /\ LocksBalanced /\ [Next]_vars => LocksBalanced'
    BY LocksStep
  <1>2. QED
    BY <1>1, InitOK, ControlInvariant, PTL DEF Spec

(* What the shared lock is worth to the loops of mohq_retrieve and         *)
(* mohqueue.drop_call: no call appears in the table and no row vanishes    *)
(* while they run, whoever else handles messages.                          *)
THEOREM ScansSeeAStableTable ==
    ASSUME "debug" \notin Ops, "leak" \notin Faults
    PROVE  Spec => TableStableDuringScan
  <1> DEFINE Kept == /\ call_id' = call_id
                     /\ \A d \in Dialogs : db[d] # NoRow => db'[d] # NoRow
  <1>1. ASSUME TypeOK, ControlOK, LocksBalanced, [Next]_vars, CallReaders # {}
        PROVE  Kept
    <2>1. pcall_lock # 0 /\ CallWriters = {}
      BY <1>1, HolderSets, CountingSets DEF LocksBalanced
    <2>2. LockRefused
      BY <2>1 DEF LockRefused, SetGranted
    <2>3. \A p \in Procs : ~CreateCall(p)
      BY <2>1 DEF CreateCall, CallWriters, HoldsCallsExcl
    <2>4. ASSUME UNCHANGED <<call_id, db>> PROVE Kept
      BY <2>4
    <2>5. ASSUME NEW p \in Procs, UpdateRow(p) \/ ReferUpdate(p)
          PROVE  Kept
      <3>1. job[p].slot \in Slots
        BY <1>1, <2>5 DEF ControlOK, UpdateRow, ReferUpdate
      <3>2. call_state[job[p].slot] \div 100 \in {0, 1, 2, 3}
        BY <1>1, <3>1, TypeParts, StatusRange DEF StateTypes
      <3>3. call_state[job[p].slot] \div 100 # NoRow
        BY <3>2 DEF NoRow
      <3>4. call_id' = call_id /\ (UNCHANGED db \/ RowUpdated(call_id[job[p].slot], call_state[job[p].slot]))
        BY <2>5 DEF UpdateRow, ReferUpdate, NoConnection, table
      <3>5. QED
        BY <3>3, <3>4 DEF RowUpdated
    <2>6. ASSUME NEW p \in Procs, DeleteRow(p) PROVE Kept
      BY <2>2, <2>6 DEF DeleteRow
    <2>7. ASSUME NEW p \in Procs, Step(p) \/ Stimulus(p) PROVE Kept
      BY <2>3, <2>4, <2>5, <2>6, <2>7, TableWriters
    <2>8. CASE UNCHANGED vars
      BY <2>8, <2>4 DEF vars, table
    <2>9. ASSUME NEW d \in Dialogs, SessionExpires(d) PROVE Kept
      BY <2>4, <2>9 DEF SessionExpires, table
    <2>10. QED
      BY <1>1, <2>7, <2>8, <2>9 DEF Next
  <1>2. TypeOK /\ ControlOK /\ LocksBalanced /\ [Next]_vars => [CallReaders # {} => Kept]_vars
    BY <1>1
  <1>3. QED
    BY <1>2, ControlInvariant, LocksAreBalanced, PTL DEF Spec, TableStableDuringScan
=============================================================================
