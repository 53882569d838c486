------------------------------ MODULE MohqLock ------------------------------
(***************************************************************************)
(* The lock of mohq_locks.c with the processes that use it. The record     *)
(* keeps a bare counter and no holder, so who holds it is known only to    *)
(* the callers: held is that knowledge. mohq_lock_set is a polling loop;   *)
(* each pass is a step of its own, between which other processes run.      *)
(*                                                                         *)
(* The callers follow the rules the rest of the module follows: release or *)
(* change only what you hold, and ask for a lock you do not hold. The one  *)
(* exception is delete_call inside mohqueue_rpc_drop_call and              *)
(* mohq_retrieve, which asks for the exclusive lock while its own process  *)
(* holds the shared one.                                                   *)
(***************************************************************************)
EXTENDS Integers, FiniteSets, LockRecord

CONSTANTS
    Procs,      \* the server's processes
    MaxTries    \* bound of the "milliseconds to try" argument

ASSUME ProcsAssumption == IsFiniteSet(Procs)
ASSUME TriesAssumption == MaxTries \in Nat

VARIABLES
    lock_cnt,   \* mohq_lock.lock_cnt
    held,       \* what each process holds
    want,       \* what the mohq_lock_set call in progress asks for
    nms_cnt,    \* its remaining-tries counter
    asked,      \* the value nms_cnt was called with
    tries,      \* passes of the loop made so far
    result      \* what the last mohq_lock_set returned

vars == <<lock_cnt, held, want, nms_cnt, asked, tries, result>>

Modes == {"shared", "excl"}
Holdings == {"none"} \cup Modes

TypeOK ==
    /\ lock_cnt \in LockValues
    /\ held \in [Procs -> Holdings]
    /\ want \in [Procs -> Holdings]
    /\ nms_cnt \in [Procs -> -1..MaxTries]
    /\ asked \in [Procs -> 0..MaxTries]
    /\ tries \in [Procs -> 0..(MaxTries + 1)]
    /\ result \in [Procs -> {"none", "granted", "refused"}]

(* mohq_lock_init *)
Init ==
    /\ lock_cnt = 0
    /\ held = [p \in Procs |-> "none"]
    /\ want = [p \in Procs |-> "none"]
    /\ nms_cnt = [p \in Procs |-> -1]
    /\ asked = [p \in Procs |-> 0]
    /\ tries = [p \in Procs |-> 0]
    /\ result = [p \in Procs |-> "none"]

(* Process p calls mohq_lock_set (plock, mode, n).                         *)
SetCall(p, mode, n) ==
    /\ want[p] = "none"
    /\ held[p] = "none" \/ (held[p] = "shared" /\ mode = "excl")
    /\ want' = [want EXCEPT ![p] = mode]
    /\ nms_cnt' = [nms_cnt EXCEPT ![p] = n]
    /\ asked' = [asked EXCEPT ![p] = n]
    /\ tries' = [tries EXCEPT ![p] = 0]
    /\ result' = [result EXCEPT ![p] = "none"]
    /\ UNCHANGED <<lock_cnt, held>>

(* One pass that takes the lock and returns.                               *)
SetTake(p) ==
    /\ want[p] # "none"
    /\ SetGranted(lock_cnt, want[p] = "excl")
    /\ lock_cnt' = AfterSet(lock_cnt, want[p] = "excl")
    /\ held' = [held EXCEPT ![p] = want[p]]
    /\ want' = [want EXCEPT ![p] = "none"]
    /\ tries' = [tries EXCEPT ![p] = @ + 1]
    /\ result' = [result EXCEPT ![p] = "granted"]
    /\ UNCHANGED <<nms_cnt, asked>>

(* A plausible slip: the loop stops one pass early.                        *)
LastTryEarly(n) == n <= 1

(* A plausible slip: nms_cnt-- instead of --nms_cnt.                       *)
LastTryPost(n) == n < 0

(* while (!nret && --nms_cnt >= 0): was this the last pass?                *)
LastTry(n) == n - 1 < 0

(* One pass that finds the lock taken: sleep and retry, or give up.        *)
SetMiss(p) ==
    /\ want[p] # "none"
    /\ ~SetGranted(lock_cnt, want[p] = "excl")
    /\ nms_cnt' = [nms_cnt EXCEPT ![p] = @ - 1]
    /\ tries' = [tries EXCEPT ![p] = @ + 1]
    /\ IF LastTry(nms_cnt[p])
       THEN /\ want' = [want EXCEPT ![p] = "none"]
            /\ result' = [result EXCEPT ![p] = "refused"]
       ELSE UNCHANGED <<want, result>>
    /\ UNCHANGED <<lock_cnt, held, asked>>

(* mohq_lock_change (plock, 1); refused, it leaves everything as it was.   *)
ChangeUp(p) ==
    /\ held[p] = "shared" /\ want[p] = "none"
    /\ ChangeGranted(lock_cnt, TRUE)
    /\ lock_cnt' = AfterChange(lock_cnt, TRUE)
    /\ held' = [held EXCEPT ![p] = "excl"]
    /\ UNCHANGED <<want, nms_cnt, asked, tries, result>>

(* mohq_lock_change (plock, 0) *)
ChangeDown(p) ==
    /\ held[p] = "excl" /\ want[p] = "none"
    /\ ChangeGranted(lock_cnt, FALSE)
    /\ lock_cnt' = AfterChange(lock_cnt, FALSE)
    /\ held' = [held EXCEPT ![p] = "shared"]
    /\ UNCHANGED <<want, nms_cnt, asked, tries, result>>

Release(p) ==
    /\ held[p] # "none" /\ want[p] = "none"
    /\ lock_cnt' = AfterRelease(lock_cnt)
    /\ held' = [held EXCEPT ![p] = "none"]
    /\ UNCHANGED <<want, nms_cnt, asked, tries, result>>

(* A plausible slip: a caller that waits instead of polling.               *)
SetPassBlocking(p) == SetTake(p)

SetPass(p) == SetTake(p) \/ SetMiss(p)

Next ==
    \E p \in Procs :
        \/ \E mode \in Modes, n \in 0..MaxTries : SetCall(p, mode, n)
        \/ SetPass(p)
        \/ ChangeUp(p) \/ ChangeDown(p)
        \/ Release(p)

(* A process inside mohq_lock_set keeps running its loop; nothing obliges  *)
(* a holder to release.                                                    *)
Fairness == \A p \in Procs : WF_vars(SetPass(p))

Spec == Init /\ [][Next]_vars
FairSpec == Spec /\ Fairness
-----------------------------------------------------------------------------
Readers == {p \in Procs : held[p] = "shared"}
Writers == {p \in Procs : held[p] = "excl"}

(* The anonymous counter always tells the truth about the holders: -1 when *)
(* one process has the lock exclusively, else how many share it. Every     *)
(* grant, change and release in mohq_locks.c is decided by it alone.       *)
CountMatchesHolders ==
    lock_cnt = IF Writers # {} THEN -1 ELSE Cardinality(Readers)

(* mohq_lock_set and mohq_lock_change never let a process in beside an     *)
(* exclusive holder, and never make one beside a reader.                   *)
Exclusion ==
    \A p, q \in Procs : held[p] = "excl" /\ q # p => held[q] = "none"

(* "0 = try once" (mohq_locks.c:157): a call that asks for n retries is    *)
(* refused after exactly n + 1 passes, never after fewer.                  *)
RefusedAfterAllTries ==
    \A p \in Procs : result[p] = "refused" => tries[p] = asked[p] + 1

(* delete_call asks for the exclusive lock while mohqueue_rpc_drop_call or *)
(* mohq_retrieve of the same process holds it shared: that call never      *)
(* succeeds, however long it polls.                                        *)
NoSelfUpgradeBySet ==
    [][\A p \in Procs :
        held[p] = "shared" /\ want[p] = "excl" => held'[p] = "shared"]_vars

(* mohq_lock_set always returns: it polls a bounded number of times even   *)
(* when the lock is never released.                                        *)
SetReturns == \A p \in Procs : want[p] # "none" ~> want[p] = "none"

(* The counter implements the readers/writer lock of module RWLock.        *)
Abstract == INSTANCE RWLock WITH readers <- Readers, writers <- Writers
ImplementsRWLock == Abstract!Spec
=============================================================================
