-------------------------- MODULE MohqLock_proofs --------------------------
(* Proofs about the lock of mohq_locks.c, for every set of processes and   *)
(* every number of tries. The counter record is anonymous, so the argument *)
(* is that it counts: LockInv relates it to the holders it does not know.  *)
EXTENDS MohqLock, FiniteSetTheorems, TLAPS

(* A polling call has made asked - nms_cnt passes and has no result yet,   *)
(* and nobody asks for the shared lock twice.                              *)
PollInv ==
    \A p \in Procs : want[p] # "none" =>
        /\ nms_cnt[p] \in 0..asked[p]
        /\ tries[p] = asked[p] - nms_cnt[p]
        /\ result[p] = "none"
        /\ want[p] = "shared" => held[p] = "none"

LockInv ==
    /\ TypeOK
    /\ CountMatchesHolders
    /\ Exclusion
    /\ PollInv
    /\ RefusedAfterAllTries

(* Sets of holders are finite, so adding or removing one counts by one.    *)
LEMMA HoldersFinite ==
    /\ IsFiniteSet(Readers) /\ Cardinality(Readers) \in Nat
    /\ (Cardinality(Readers) = 0 <=> Readers = {})
    /\ \A p : Cardinality(Readers \cup {p}) =
            IF p \in Readers THEN Cardinality(Readers) ELSE Cardinality(Readers) + 1
    /\ \A p : Cardinality(Readers \ {p}) =
            IF p \in Readers THEN Cardinality(Readers) - 1 ELSE Cardinality(Readers)
  <1>1. IsFiniteSet(Readers)
    <2>1. Readers \subseteq Procs
      BY DEF Readers
    <2>2. QED
      BY <2>1, ProcsAssumption, FS_Subset
  <1>2. QED
    BY <1>1, FS_CardinalityType, FS_EmptySet, FS_AddElement, FS_RemoveElement

(* What a process may rely on in a state where the invariant holds.        *)
LEMMA LockFacts ==
    ASSUME LockInv
    PROVE  /\ lock_cnt = -1 <=> Writers # {}
           /\ lock_cnt = 0 <=> Readers = {} /\ Writers = {}
           /\ lock_cnt = 1 => \E r \in Procs : Readers = {r}
           /\ Writers # {} => Readers = {}
           /\ \A p \in Writers : Writers = {p}
  <1>1. Writers # {} => Readers = {}
    BY DEF LockInv, Exclusion, Readers, Writers
  <1>2. \A p \in Writers : Writers = {p}
    BY DEF LockInv, Exclusion, Writers
  <1>3. lock_cnt = -1 <=> Writers # {}
    BY HoldersFinite DEF LockInv, CountMatchesHolders
  <1>4. lock_cnt = 0 <=> Readers = {} /\ Writers = {}
    BY HoldersFinite, <1>1 DEF LockInv, CountMatchesHolders
  <1>5. ASSUME lock_cnt = 1 PROVE \E r \in Procs : Readers = {r}
    <2>1. Cardinality(Readers) = 1
      BY <1>5 DEF LockInv, CountMatchesHolders
    <2>2. PICK r : r \in Readers
      BY <2>1, HoldersFinite
    <2>3. Cardinality(Readers \ {r}) = 0
      BY <2>1, <2>2, HoldersFinite
    <2>4. IsFiniteSet(Readers \ {r})
      BY HoldersFinite, FS_RemoveElement
    <2>5. Readers \ {r} = {}
      BY <2>3, <2>4, FS_EmptySet
    <2>6. r \in Procs
      BY <2>2 DEF Readers
    <2>7. QED
      BY <2>2, <2>5, <2>6
  <1>6. QED
    BY <1>1, <1>2, <1>3, <1>4, <1>5

-----------------------------------------------------------------------------
(* The invariant holds of a fresh lock record.                             *)
LEMMA LockInit == Init => LockInv
  <1> SUFFICES ASSUME Init PROVE LockInv
    OBVIOUS
  <1> USE TriesAssumption
  <1>1. TypeOK
    BY DEF Init, TypeOK, LockValues, Holdings, Modes
  <1>2. Readers = {} /\ Writers = {}
    BY DEF Init, Readers, Writers
  <1>3. CountMatchesHolders
    BY <1>2, FS_EmptySet DEF Init, CountMatchesHolders
  <1>4. Exclusion /\ PollInv /\ RefusedAfterAllTries
    BY DEF Init, Exclusion, PollInv, RefusedAfterAllTries
  <1>5. QED
    BY <1>1, <1>3, <1>4 DEF LockInv

(* A step that leaves the counter and the holders alone.                   *)
LEMMA HoldersUnchanged ==
    ASSUME CountMatchesHolders, Exclusion, UNCHANGED <<lock_cnt, held>>
    PROVE  CountMatchesHolders' /\ Exclusion'
  BY DEF CountMatchesHolders, Exclusion, Readers, Writers

(* A call of mohq_lock_set that begins changes no holder.                  *)
LEMMA SetCallInv ==
    ASSUME LockInv, NEW p \in Procs, NEW mode \in Modes, NEW n \in 0..MaxTries,
           SetCall(p, mode, n)
    PROVE  LockInv'
  <1>1. TypeOK'
    BY TriesAssumption DEF LockInv, TypeOK, SetCall, Holdings, Modes
  <1>2. CountMatchesHolders' /\ Exclusion'
    BY HoldersUnchanged DEF LockInv, SetCall
  <1>3. PollInv' /\ RefusedAfterAllTries'
    BY TriesAssumption DEF LockInv, TypeOK, PollInv, SetCall,
           RefusedAfterAllTries
  <1>4. QED
    BY <1>1, <1>2, <1>3 DEF LockInv

(* How the holders change when a pass of mohq_lock_set takes the lock.     *)
LEMMA SetTakeHolders ==
    ASSUME LockInv, NEW p \in Procs, SetTake(p)
    PROVE  \/ /\ want[p] = "excl"
              /\ Readers = {} /\ Writers = {}
              /\ Readers' = {} /\ Writers' = {p}
              /\ lock_cnt' = -1
           \/ /\ want[p] = "shared"
              /\ Writers = {} /\ Writers' = {}
              /\ p \notin Readers /\ Readers' = Readers \cup {p}
              /\ lock_cnt' = lock_cnt + 1
  <1>1. want[p] \in Modes
    BY DEF LockInv, TypeOK, Holdings, SetTake
  <1>2. CASE want[p] = "excl"
    <2>1. Readers = {} /\ Writers = {}
      BY <1>2, LockFacts DEF SetTake, SetGranted
    <2>2. Readers' = {} /\ Writers' = {p}
      BY <1>2, <2>1 DEF SetTake, Readers, Writers, LockInv, TypeOK
    <2>3. QED
      BY <1>2, <2>1, <2>2 DEF SetTake, AfterSet
  <1>3. CASE want[p] = "shared"
    <2>1. Writers = {} /\ p \notin Readers
      BY <1>3, LockFacts DEF SetTake, SetGranted, LockInv, PollInv, Readers
    <2>2. Writers' = {} /\ Readers' = Readers \cup {p}
      BY <1>3, <2>1 DEF SetTake, Readers, Writers, LockInv, TypeOK
    <2>3. QED
      BY <1>3, <2>1, <2>2 DEF SetTake, AfterSet
  <1>4. QED
    BY <1>1, <1>2, <1>3 DEF Modes

(* Exclusion after a step, from the holders after it.                      *)
LEMMA ExclusionFromHolders ==
    ASSUME TypeOK', Writers' = {} \/ Readers' = {},
           \A p \in Writers' : Writers' = {p}
    PROVE  Exclusion'
  <1> SUFFICES ASSUME NEW p \in Procs, NEW q \in Procs, held'[p] = "excl", q # p
               PROVE  held'[q] = "none"
    BY DEF Exclusion
  <1>1. p \in Writers' /\ q \notin Writers' /\ q \notin Readers'
    BY DEF Writers
  <1>2. held'[q] \in Holdings
    BY DEF TypeOK
  <1>3. QED
    BY <1>1, <1>2 DEF Holdings, Modes, Readers, Writers

(* A pass that takes the lock keeps the invariant.                         *)
LEMMA SetTakeInv ==
    ASSUME LockInv, NEW p \in Procs, SetTake(p)
    PROVE  LockInv'
  <1>1. TypeOK'
    <2>1. lock_cnt' \in LockValues
      BY DEF LockInv, TypeOK, SetTake, SetGranted, AfterSet, LockValues
    <2>2. tries[p] + 1 \in 0..(MaxTries + 1)
      BY TriesAssumption DEF LockInv, TypeOK, PollInv, SetTake
    <2>3. QED
      BY <2>1, <2>2 DEF LockInv, TypeOK, SetTake, Holdings
  <1>2. CountMatchesHolders'
    <2>1. lock_cnt = Cardinality(Readers) \/ want[p] = "excl"
      BY SetTakeHolders DEF LockInv, CountMatchesHolders
    <2>2. QED
      BY <2>1, SetTakeHolders, HoldersFinite DEF CountMatchesHolders
  <1>3. Exclusion'
    BY <1>1, SetTakeHolders, ExclusionFromHolders
  <1>4. PollInv' /\ RefusedAfterAllTries'
    BY DEF LockInv, TypeOK, PollInv, SetTake,
           RefusedAfterAllTries
  <1>5. QED
    BY <1>1, <1>2, <1>3, <1>4 DEF LockInv

(* A pass that misses, and the last miss, keep the invariant.              *)
LEMMA SetMissInv ==
    ASSUME LockInv, NEW p \in Procs, SetMiss(p)
    PROVE  LockInv'
  <1>1. /\ nms_cnt[p] \in 0..asked[p] /\ asked[p] \in 0..MaxTries
        /\ tries[p] = asked[p] - nms_cnt[p]
    BY DEF LockInv, TypeOK, PollInv, SetMiss
  <1>2. TypeOK'
    <2>1. /\ nms_cnt[p] - 1 \in -1..MaxTries
          /\ tries[p] + 1 \in 0..(MaxTries + 1)
      BY <1>1, TriesAssumption
    <2>2. QED
      BY <2>1 DEF LockInv, TypeOK, SetMiss, Holdings
  <1>3. CountMatchesHolders' /\ Exclusion'
    BY HoldersUnchanged DEF LockInv, SetMiss
  <1>4. PollInv' /\ RefusedAfterAllTries'
    BY <1>1, TriesAssumption DEF LockInv, TypeOK, PollInv, SetMiss, LastTry,
           RefusedAfterAllTries
  <1>5. QED
    BY <1>2, <1>3, <1>4 DEF LockInv

(* The only reader becomes the only writer.                                *)
LEMMA ChangeUpHolders ==
    ASSUME LockInv, NEW p \in Procs, ChangeUp(p)
    PROVE  /\ Readers = {p} /\ Writers = {}
           /\ Readers' = {} /\ Writers' = {p}
           /\ lock_cnt' = -1
  <1>1. lock_cnt = 1 /\ p \in Readers
    BY DEF ChangeUp, ChangeGranted, Readers
  <1>2. Readers = {p} /\ Writers = {}
    BY <1>1, LockFacts
  <1>3. Readers' = {} /\ Writers' = {p}
    BY <1>2 DEF ChangeUp, Readers, Writers, LockInv, TypeOK
  <1>4. QED
    BY <1>2, <1>3 DEF ChangeUp, AfterChange

(* The only writer becomes the only reader.                                *)
LEMMA ChangeDownHolders ==
    ASSUME LockInv, NEW p \in Procs, ChangeDown(p)
    PROVE  /\ Writers = {p} /\ Readers = {}
           /\ Readers' = {p} /\ Writers' = {}
           /\ lock_cnt' = 1
  <1>1. p \in Writers
    BY DEF ChangeDown, Writers
  <1>2. Writers = {p} /\ Readers = {}
    BY <1>1, LockFacts
  <1>3. Readers' = {p} /\ Writers' = {}
    BY <1>2 DEF ChangeDown, Readers, Writers, LockInv, TypeOK
  <1>4. QED
    BY <1>2, <1>3 DEF ChangeDown, AfterChange

(* mohq_lock_change keeps the invariant, in both directions.               *)
LEMMA ChangeInv ==
    ASSUME LockInv, NEW p \in Procs, ChangeUp(p) \/ ChangeDown(p)
    PROVE  LockInv'
  <1>1. TypeOK'
    <2>1. lock_cnt' \in LockValues
      BY ChangeUpHolders, ChangeDownHolders DEF LockValues
    <2>2. held' \in [Procs -> Holdings]
      BY DEF LockInv, TypeOK, ChangeUp, ChangeDown, Holdings, Modes
    <2>3. QED
      BY <2>1, <2>2 DEF LockInv, TypeOK, ChangeUp, ChangeDown
  <1>2. CountMatchesHolders'
    BY ChangeUpHolders, ChangeDownHolders, FS_Singleton DEF CountMatchesHolders
  <1>3. Exclusion'
    BY <1>1, ChangeUpHolders, ChangeDownHolders, ExclusionFromHolders
  <1>4. PollInv' /\ RefusedAfterAllTries'
    BY DEF LockInv, TypeOK, PollInv, ChangeUp, ChangeDown,
           RefusedAfterAllTries
  <1>5. QED
    BY <1>1, <1>2, <1>3, <1>4 DEF LockInv

(* A release takes the releasing holder away and counts it down.           *)
LEMMA ReleaseHolders ==
    ASSUME LockInv, NEW p \in Procs, Release(p)
    PROVE  /\ p \in Readers \cup Writers
           /\ Readers' = Readers \ {p} /\ Writers' = {}
           /\ lock_cnt' = Cardinality(Readers')
  <1>1. p \in Readers \cup Writers
    BY DEF Release, LockInv, TypeOK, Holdings, Modes, Readers, Writers
  <1>2. Readers' = Readers \ {p} /\ Writers' = Writers \ {p}
    BY DEF Release, Readers, Writers, LockInv, TypeOK
  <1>3. CASE p \in Writers
    <2>1. Writers = {p} /\ Readers = {} /\ lock_cnt = -1
      BY <1>3, LockFacts
    <2>2. QED
      BY <1>1, <1>2, <2>1, FS_EmptySet DEF Release, AfterRelease
  <1>4. CASE p \in Readers
    <2>1. Writers = {}
      BY <1>4, LockFacts
    <2>2. lock_cnt = Cardinality(Readers) /\ lock_cnt # 0
      BY <1>4, <2>1, LockFacts DEF LockInv, CountMatchesHolders
    <2>3. QED
      BY <1>1, <1>2, <1>4, <2>1, <2>2, HoldersFinite DEF Release, AfterRelease
  <1>5. QED
    BY <1>1, <1>3, <1>4

(* mohq_lock_release by a holder keeps the invariant.                      *)
LEMMA ReleaseInv ==
    ASSUME LockInv, NEW p \in Procs, Release(p)
    PROVE  LockInv'
  <1>1. TypeOK'
    BY DEF LockInv, TypeOK, Release, AfterRelease, LockValues, Holdings
  <1>2. CountMatchesHolders'
    BY ReleaseHolders DEF CountMatchesHolders
  <1>3. Exclusion'
    BY DEF Exclusion, Release, LockInv, TypeOK
  <1>4. PollInv' /\ RefusedAfterAllTries'
    BY DEF LockInv, TypeOK, PollInv, Release,
           RefusedAfterAllTries
  <1>5. QED
    BY <1>1, <1>2, <1>3, <1>4 DEF LockInv

(* Every step keeps the invariant.                                         *)
LEMMA LockStep == LockInv /\ [Next]_vars => LockInv'
  <1> SUFFICES ASSUME LockInv, [Next]_vars PROVE LockInv'
    OBVIOUS
  <1>1. CASE UNCHANGED vars
    BY <1>1 DEF vars, LockInv, TypeOK, CountMatchesHolders, Exclusion, PollInv,
                RefusedAfterAllTries, Readers, Writers
  <1>2. CASE Next
    <2>1. PICK p \in Procs :
            \/ \E mode \in Modes, n \in 0..MaxTries : SetCall(p, mode, n)
            \/ SetPass(p) \/ ChangeUp(p) \/ ChangeDown(p) \/ Release(p)
      BY <1>2 DEF Next
    <2>2. QED
      BY <2>1, SetCallInv, SetTakeInv, SetMissInv, ChangeInv, ReleaseInv DEF SetPass
  <1>3. QED
    BY <1>1, <1>2

(* The invariant the theorems below are parts of: types, the counter, the  *)
(* holders, and how far each polling mohq_lock_set has got.                *)
THEOREM LockInvariant == Spec => []LockInv
  BY LockInit, LockStep, PTL DEF Spec

(* Every variable of the lock and of its callers keeps its type; the tries *)
(* a call makes stay within the number it asked for.                       *)
THEOREM LockTypeCorrect == Spec => []TypeOK
  BY LockInvariant, PTL DEF LockInv

(* mohq_lock_set, _change and _release keep the anonymous counter equal to *)
(* what the processes hold.                                                *)
THEOREM CounterTruthful == Spec => []CountMatchesHolders
  BY LockInvariant, PTL DEF LockInv

(* No process ever has the lock beside an exclusive holder.                *)
THEOREM MutualExclusion == Spec => []Exclusion
  BY LockInvariant, PTL DEF LockInv

(* A refused mohq_lock_set has really made all the tries it was given.     *)
THEOREM RefusalsEarned == Spec => []RefusedAfterAllTries
  BY LockInvariant, PTL DEF LockInv

(* delete_call polling for the exclusive lock while its own process holds  *)
(* the shared one never gets it: mohqueue_rpc_drop_call and mohq_retrieve  *)
(* cannot free the record they are looking at.                             *)
THEOREM SelfUpgradeFails == Spec => NoSelfUpgradeBySet
  <1>1. ASSUME LockInv, [Next]_vars, NEW p \in Procs,
               held[p] = "shared", want[p] = "excl"
        PROVE  held'[p] = "shared"
    <2>1. lock_cnt # 0
      BY <1>1, LockFacts DEF Readers
    <2>2. ~SetTake(p)
      BY <1>1, <2>1 DEF SetTake, SetGranted
    <2>3. CASE UNCHANGED vars
      BY <1>1, <2>3 DEF vars
    <2>4. CASE Next
      <3>1. PICK q \in Procs :
              \/ \E mode \in Modes, n \in 0..MaxTries : SetCall(q, mode, n)
              \/ SetPass(q) \/ ChangeUp(q) \/ ChangeDown(q) \/ Release(q)
        BY <2>4 DEF Next
      <3>2. CASE q = p
        BY <1>1, <2>2, <3>1, <3>2
        DEF SetPass, SetCall, SetMiss, ChangeUp, ChangeDown, Release
      <3>3. CASE q # p
        BY <1>1, <3>1, <3>3
        DEF SetPass, SetCall, SetTake, SetMiss, ChangeUp, ChangeDown, Release,
            LockInv, TypeOK
      <3>4. QED
        BY <3>2, <3>3
    <2>5. QED
      BY <1>1, <2>3, <2>4
  <1>2. LockInv /\ [Next]_vars =>
          [\A p \in Procs :
             held[p] = "shared" /\ want[p] = "excl" => held'[p] = "shared"]_vars
    BY <1>1
  <1>3. QED
    BY <1>2, LockInvariant, PTL DEF Spec, NoSelfUpgradeBySet

-----------------------------------------------------------------------------
(* The counter refines the readers/writer lock of module RWLock.           *)
LEMMA RefinementInit == Init => Abstract!Init
  BY DEF Init, Abstract!Init, Readers, Writers

(* Every step of the lock is a step of RWLock or changes no holder.        *)
LEMMA RefinementStep == LockInv /\ [Next]_vars => [Abstract!Next]_(Abstract!vars)
  <1> SUFFICES ASSUME LockInv, [Next]_vars
               PROVE  Abstract!Next \/ UNCHANGED <<Readers, Writers>>
    BY DEF Abstract!vars
  <1>1. CASE UNCHANGED vars
    BY <1>1 DEF vars, Readers, Writers
  <1>2. ASSUME NEW p \in Procs,
               \/ \E mode \in Modes, n \in 0..MaxTries : SetCall(p, mode, n)
               \/ SetMiss(p)
        PROVE  UNCHANGED <<Readers, Writers>>
    BY <1>2 DEF SetCall, SetMiss, Readers, Writers
  <1>3. ASSUME NEW p \in Procs, SetTake(p)
        PROVE  Abstract!AcquireShared(p) \/ Abstract!AcquireExclusive(p)
    BY <1>3, SetTakeHolders DEF Abstract!AcquireShared, Abstract!AcquireExclusive
  <1>4. ASSUME NEW p \in Procs, ChangeUp(p) PROVE Abstract!Upgrade(p)
    BY <1>4, ChangeUpHolders DEF Abstract!Upgrade
  <1>5. ASSUME NEW p \in Procs, ChangeDown(p) PROVE Abstract!Downgrade(p)
    BY <1>5, ChangeDownHolders DEF Abstract!Downgrade
  <1>6. ASSUME NEW p \in Procs, Release(p) PROVE Abstract!Leave(p)
    <2>1. Writers \ {p} = {}
      BY <1>6, ReleaseHolders, LockFacts
    <2>2. QED
      BY <1>6, <2>1, ReleaseHolders DEF Abstract!Leave
  <1>7. QED
    <2>1. CASE Next
      <3>1. PICK p \in Procs :
              \/ \E mode \in Modes, n \in 0..MaxTries : SetCall(p, mode, n)
              \/ SetPass(p) \/ ChangeUp(p) \/ ChangeDown(p) \/ Release(p)
        BY <2>1 DEF Next
      <3>2. QED
        BY <1>2, <1>3, <1>4, <1>5, <1>6, <3>1 DEF Abstract!Next, SetPass
    <2>2. QED
      BY <1>1, <2>1

(* mohq_locks.c implements a readers/writer lock that knows its holders,   *)
(* for any number of processes that release only what they hold.           *)
THEOREM LockRefines == Spec => ImplementsRWLock
  BY RefinementInit, RefinementStep, LockInvariant, PTL
  DEF Spec, ImplementsRWLock, Abstract!Spec
=============================================================================
