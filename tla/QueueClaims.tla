----------------------------- MODULE QueueClaims -----------------------------
(***************************************************************************)
(* What the documentation says of queues that are redefined while calls    *)
(* are in them, and of the count of calls, to be held against LifeCycle.   *)
(***************************************************************************)
EXTENDS LifeCycle

(* README:330-335: a queue is not changed while calls are in it, so that   *)
(* no call is "adversely affected by queue redefinitions": between loads,  *)
(* the queue of a call is a queue of the list, and the one it entered.     *)
CallKeepsItsQueue ==
    (phase = "up" /\ \A p \in Procs : pc[p] \notin {"load", "rows"})
    => \A s \in Slots \ OpenSlots :
        /\ calls[s].block = pmohq_lst /\ calls[s].idx \in Indices
        /\ Queue(calls[s].idx).id = calls[s].joined

(* README:305-307: mohq_count returns TRUE and the pseudo-variable         *)
(* "contains the count" of calls in the queue; a count that could not be   *)
(* taken is no count. The list must not have moved under it.               *)
CountIsTrue ==
    \A p \in Procs : pc[p] = "result" \/ ScanDone(p, "count") => CountRight(p)
=============================================================================
