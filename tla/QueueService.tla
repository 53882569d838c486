---------------------------- MODULE QueueService ----------------------------
(***************************************************************************)
(* What mohqueue promises the callers of its queues. A call comes once; it *)
(* is refused or enters while there is room; it gets into the queue or     *)
(* fails. From the queue it is transferred, and put back if the transfer   *)
(* fails, or it ends, by hanging up or being told to. A call in the queue  *)
(* never just disappears, and one that is gone does not come back.         *)
(***************************************************************************)
EXTENDS Integers, FiniteSets

CONSTANTS Dialogs, Capacity

VARIABLE phase

Present == {d \in Dialogs : phase[d] \notin {"none", "gone"}}

Init == phase = [d \in Dialogs |-> "none"]

Move(d, from, to) ==
    /\ phase[d] \in from
    /\ phase' = [phase EXCEPT ![d] = to]

Refuse(d) == Move(d, {"none"}, "gone")
Enter(d) == Cardinality(Present) < Capacity /\ Move(d, {"none"}, "entering")
Fail(d) == Move(d, {"entering"}, "gone")
Queue(d) == Move(d, {"entering"}, "queued")
Transfer(d) == Move(d, {"queued"}, "transferring")
Requeue(d) == Move(d, {"transferring"}, "queued")
Abandon(d) == Move(d, {"transferring"}, "gone")
End(d) == Move(d, {"entering", "queued", "transferring"}, "ending")
Gone(d) == Move(d, {"ending"}, "gone")

Next ==
    \E d \in Dialogs :
        \/ Refuse(d) \/ Enter(d) \/ Fail(d) \/ Queue(d)
        \/ Transfer(d) \/ Requeue(d) \/ Abandon(d) \/ End(d) \/ Gone(d)

Spec == Init /\ [][Next]_phase
=============================================================================
