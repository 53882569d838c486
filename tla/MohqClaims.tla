----------------------------- MODULE MohqClaims -----------------------------
(***************************************************************************)
(* What the README and the comments of mohqueue say of it and the code     *)
(* does not keep. Each is checked by a run of its own that finds the way   *)
(* it goes wrong.                                                          *)
(***************************************************************************)
EXTENDS Mohq

(* README:368-369: the table holds the calls that are in queue or in       *)
(* transition. delete_call inside the loop of drop_call cannot get the     *)
(* lock that its own process holds shared, and leaves the row.             *)
RowsHaveCalls ==
    Quiet => \A d \in Dialogs :
        db[d] # NoRow => \E s \in Slots : Active(s) /\ call_id[s] = d

(* README:93-98: callers listen until an operator is available; the call   *)
(* is removed when the transfer succeeded. A call in queue does not vanish *)
(* without hanging up, being transferred or being told BYE.                *)
QueuedCallStays ==
    [][\A s \in Slots : call_state[s] = CLSTA_INQUEUE => call_state'[s] # 0]_vars

(* README:270: mohq_retrieve redirects the oldest call to one URI. Two     *)
(* of them at once both find it: the lock they hold is shared.             *)
OneTransferPerCall ==
    \A p, q \in Procs :
        /\ p # q
        /\ {pc[p], pc[q]} \subseteq {"refer", "refer_upd", "refer_send"}
        => job[p].slot # job[q].slot

(* mohq_funcs.c:689: delete_call inactivates the slot. From then on only   *)
(* create_call takes it again. But cancel_msg and prack_msg write the      *)
(* state of a call that another process may have deleted since they looked *)
(* it up.                                                                  *)
FreeSlotStaysFree ==
    [][\A s \in Slots :
        call_state[s] = 0 /\ call_state'[s] # 0
        => \E p \in Procs : pc[p] = "create" /\ job[p].slot = s]_vars
=============================================================================
