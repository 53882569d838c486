----------------------------- MODULE LockRecord -----------------------------
(***************************************************************************)
(* The counter of a mohq_lock record (mohq_locks.c): -1 is one exclusive   *)
(* holder, 0 is free, n > 0 is n shared holders. Every operator below is   *)
(* what one pass between lock_get and lock_release does to the counter, so *)
(* each is used as (part of) one atomic step.                              *)
(***************************************************************************)
LOCAL INSTANCE Integers

LockValues == {-1} \cup Nat

(* A plausible slip: an exclusive set that only looks for another writer.  *)
SetGrantedOverReaders(cnt, bexcl) == cnt # -1

(* A plausible slip: a shared set that does not look for a writer.         *)
SetGrantedUnderWriter(cnt, bexcl) == bexcl => cnt = 0

(* Would this pass of mohq_lock_set take the lock?                         *)
SetGranted(cnt, bexcl) == IF bexcl THEN cnt = 0 ELSE cnt # -1

AfterSet(cnt, bexcl) == IF bexcl THEN -1 ELSE cnt + 1

(* A plausible slip: an upgrade that does not count the other readers.     *)
ChangeGrantedAmongReaders(cnt, bexcl) ==
    IF bexcl THEN cnt >= 1 ELSE cnt = -1

(* Would mohq_lock_change switch the type of a held lock?                  *)
ChangeGranted(cnt, bexcl) == IF bexcl THEN cnt = 1 ELSE cnt = -1

AfterChange(cnt, bexcl) == IF bexcl THEN -1 ELSE 1

(* A plausible slip: any release clears the record.                        *)
AfterReleaseClears(cnt) == 0

(* mohq_lock_release: it warns about a free lock and leaves it free; it    *)
(* never asks who is releasing.                                            *)
AfterRelease(cnt) == IF cnt \in {-1, 0} THEN 0 ELSE cnt - 1
=============================================================================
