------------------------ MODULE LifeCycleLocks_proofs ------------------------
(* Proofs about the queue list: who is where, and who holds which lock.    *)
(* Orderly says what a step of a process may do to the control and to the  *)
(* two counters; every step does just that. From it follows that each      *)
(* counter is what the processes inside account for, so that who loads the *)
(* list is alone with it and nobody fills a slot while another scans.      *)
EXTENDS LifeCycle, FiniteSetTheorems, TLAPS

ControlTypes == pc \in [Procs -> Places] /\ job \in [Procs -> Jobs]

(* Where a process is fits what it is doing.                               *)
Fits(p) ==
    /\ pc[p] \in StartPlaces => job[p].op = "init"
    /\ pc[p] \in LoadPlaces => job[p].op \in {"init", "message"}
    /\ pc[p] \in {"enter", "find"} => job[p].op = "message"
    /\ pc[p] \in {"create", "handle"} =>
        job[p].op \in {"message", "invite"} /\ job[p].slot \in Slots
    /\ pc[p] \in ScanPlaces => job[p].op \in Scans
    /\ pc[p] \in {"cfg", "db", "load", "enter"} => job[p].chk = {}
    /\ pc[p] = "named" =>
        /\ job[p].best = -1 /\ job[p].cnt = 0
        /\ job[p].idx = 0 =>
            job[p].op = "count" /\ (job[p].asked = None \/ job[p].refused)
    /\ pc[p] = "scan" => job[p].cnt <= job[p].slot

Busy(p) == pc[p] # "idle"
Initialising(p) == pc[p] \in StartPlaces \cup LoadPlaces /\ job[p].op = "init"

(* While the module starts, one process is active and it runs mod_init.    *)
PhaseOK ==
    /\ phase \in {"down", "failed", "stopped"} => \A p \in Procs : ~Busy(p)
    /\ phase = "starting" =>
        \A p \in Procs : Busy(p) => Initialising(p) /\ \A q \in Procs \ {p} : ~Busy(q)
    /\ phase = "up" => \A p \in Procs : ~Initialising(p)

PhaseTypes == phase \in {"down", "starting", "up", "failed", "stopped"}

ControlOK == ControlTypes /\ PhaseTypes /\ PhaseOK /\ \A p \in Procs : Fits(p)

-----------------------------------------------------------------------------
(* What a step of p does to the others: a change of a call's state is      *)
(* noted in the history of their scans, nothing else.                      *)
Aside(j, k) ==
    /\ k.op = j.op /\ k.uri = j.uri /\ k.idx = j.idx /\ k.block = j.block /\ k.id = j.id
    /\ k.slot = j.slot /\ k.best = j.best /\ k.cnt = j.cnt /\ k.todo = j.todo
    /\ k.chk = j.chk /\ k.asked = j.asked /\ k.bad = j.bad /\ k.refused = j.refused

Frame(p) == \A q \in Procs \ {p} : pc'[q] = pc[q] /\ Aside(job[q], job'[q])

(* Who uses the queue list, who loads it anew, who goes through the calls, *)
(* who adds one.                                                           *)
UsesList(p) == pc[p] \in MessagePlaces \/ (pc[p] \in LoadPlaces /\ job[p].op # "init")
LoadsList(p) == pc[p] \in LoadPlaces /\ job[p].op # "init"
ScansCalls(p) == pc[p] = "scan"
CreatesCall(p) == pc[p] = "create"

Users == {p \in Procs : UsesList(p)}
Loaders == {p \in Procs : LoadsList(p)}
Scanners == {p \in Procs : ScansCalls(p)}
Creators == {p \in Procs : CreatesCall(p)}

QueuesBalanced ==
    /\ pmohq_lock = IF Loaders = {} THEN Cardinality(Users) ELSE -1
    /\ \A p \in Loaders : Users = {p}
CallsBalanced ==
    /\ pcall_lock = IF Creators = {} THEN Cardinality(Scanners) ELSE -1
    /\ \A p \in Creators : Creators = {p} /\ Scanners = {}
LocksOK == QueuesBalanced /\ CallsBalanced

(* What a step of p can mean for the lock of the calls,                    *)
CallsKept(p) ==
    /\ pcall_lock' = pcall_lock
    /\ ScansCalls(p)' <=> ScansCalls(p)
    /\ CreatesCall(p)' <=> CreatesCall(p)
CallsJoined(p) ==
    /\ SetGranted(pcall_lock, FALSE) /\ pcall_lock' = AfterSet(pcall_lock, FALSE)
    /\ ~ScansCalls(p) /\ ~CreatesCall(p) /\ ScansCalls(p)' /\ ~CreatesCall(p)'
CallsLeft(p) ==
    /\ pcall_lock' = AfterRelease(pcall_lock)
    /\ ScansCalls(p) /\ ~CreatesCall(p) /\ ~ScansCalls(p)' /\ ~CreatesCall(p)'
CallsTaken(p) ==
    /\ SetGranted(pcall_lock, TRUE) /\ pcall_lock' = AfterSet(pcall_lock, TRUE)
    /\ ~ScansCalls(p)' /\ CreatesCall(p)'
CallsGiven(p) ==
    /\ pcall_lock' = AfterRelease(pcall_lock)
    /\ CreatesCall(p) /\ ~CreatesCall(p)' /\ ~ScansCalls(p)'
CallMove(p) ==
    CallsKept(p) \/ CallsJoined(p) \/ CallsLeft(p) \/ CallsTaken(p) \/ CallsGiven(p)

(* and for the lock of the queues.                                         *)
QueuesKept(p) ==
    /\ pmohq_lock' = pmohq_lock
    /\ UsesList(p)' <=> UsesList(p)
    /\ LoadsList(p)' <=> LoadsList(p)
QueuesJoined(p) ==
    /\ SetGranted(pmohq_lock, FALSE) /\ pmohq_lock' = AfterSet(pmohq_lock, FALSE)
    /\ ~UsesList(p) /\ UsesList(p)' /\ ~LoadsList(p)'
QueuesLeft(p) ==
    /\ pmohq_lock' = AfterRelease(pmohq_lock)
    /\ UsesList(p) /\ ~LoadsList(p) /\ ~UsesList(p)'
LoadBegun(p) ==
    /\ ChangeGranted(pmohq_lock, TRUE) /\ pmohq_lock' = AfterChange(pmohq_lock, TRUE)
    /\ UsesList(p) /\ LoadsList(p)'
LoadEnded(p) ==
    /\ pmohq_lock' = IF ChangeGranted(pmohq_lock, FALSE)
                     THEN AfterChange(pmohq_lock, FALSE) ELSE pmohq_lock
    /\ LoadsList(p) /\ UsesList(p)' /\ ~LoadsList(p)'
QueueMove(p) ==
    QueuesKept(p) \/ QueuesJoined(p) \/ QueuesLeft(p) \/ LoadBegun(p) \/ LoadEnded(p)

Orderly(p) == Frame(p) /\ ControlOK' /\ CallMove(p) /\ QueueMove(p)

-----------------------------------------------------------------------------
(* Fields that may be set in a job.                                        *)
LEMMA JobEdits ==
    ASSUME NEW j \in Jobs
    PROVE  /\ \A x \in SUBSET Row : [j EXCEPT !.todo = x] \in Jobs
           /\ \A x \in SUBSET Row, y \in SUBSET Nat : [j EXCEPT !.todo = x, !.chk = y] \in Jobs
           /\ \A x \in SUBSET Nat : [j EXCEPT !.chk = x] \in Jobs
           /\ \A a, b \in SUBSET Slots : [j EXCEPT !.kept = a, !.seen = b] \in Jobs
           /\ \A x \in 0..MaxCalls : [j EXCEPT !.slot = x] \in Jobs
  <1>1. ASSUME NEW x \in SUBSET Row PROVE [j EXCEPT !.todo = x] \in Jobs
    BY DEF Jobs
  <1>2. ASSUME NEW x \in SUBSET Row, NEW y \in SUBSET Nat
        PROVE  [j EXCEPT !.todo = x, !.chk = y] \in Jobs
    BY DEF Jobs
  <1>3. ASSUME NEW x \in SUBSET Nat PROVE [j EXCEPT !.chk = x] \in Jobs
    BY DEF Jobs
  <1>4. ASSUME NEW a \in SUBSET Slots, NEW b \in SUBSET Slots
        PROVE  [j EXCEPT !.kept = a, !.seen = b] \in Jobs
    BY DEF Jobs
  <1>5. ASSUME NEW x \in 0..MaxCalls PROVE [j EXCEPT !.slot = x] \in Jobs
    BY DEF Jobs
  <1>6. QED
    BY <1>1, <1>2, <1>3, <1>4, <1>5

(* The fields of a job.                                                    *)
LEMMA JobFields ==
    ASSUME NEW j \in Jobs
    PROVE  /\ j.idx \in Nat /\ j.slot \in 0..MaxCalls /\ j.best \in {-1} \cup Slots
           /\ j.cnt \in 0..MaxCalls /\ j.todo \in SUBSET Row /\ j.chk \in SUBSET Nat
           /\ j.kept \in SUBSET Slots /\ j.seen \in SUBSET Slots /\ j.bad \in BOOLEAN
           /\ j.block \in Blocks \cup {NULL} /\ j.asked \in Ids \cup {None}
           /\ j.id \in Ids \cup {None} /\ j.uri \in Uris \cup {None} /\ j.refused \in BOOLEAN
  BY DEF Jobs

(* The job of a process that does nothing.                                 *)
LEMMA IdleJobType == IdleJob \in Jobs
  BY ListAssumption DEF IdleJob, Jobs, Ops, Scans, NULL

(* The places and the kinds of jobs are different.                         *)
LEMMA PlacesApart ==
    /\ "idle" \notin StartPlaces \cup LoadPlaces \cup MessagePlaces \cup ScanPlaces
    /\ StartPlaces \cap (LoadPlaces \cup MessagePlaces \cup ScanPlaces) = {}
    /\ LoadPlaces \cap (MessagePlaces \cup ScanPlaces) = {}
    /\ MessagePlaces \cap ScanPlaces = {}
    /\ Scans = {"retrieve", "drop", "count"}
    /\ "create" \in MessagePlaces /\ "handle" \in MessagePlaces
    /\ "scan" \in ScanPlaces /\ "named" \in ScanPlaces /\ "result" \in ScanPlaces
    /\ Places = {"idle"} \cup StartPlaces \cup LoadPlaces \cup MessagePlaces \cup ScanPlaces
  BY DEF StartPlaces, LoadPlaces, MessagePlaces, ScanPlaces, Places, Scans

(* A job is noted aside of itself.                                         *)
LEMMA AsideSelf == \A j : Aside(j, j)
  BY DEF Aside

(* What Noted does to a job.                                               *)
LEMMA NotedEffect ==
    ASSUME NEW jobs \in [Procs -> Jobs], NEW s \in Slots, NEW st
    PROVE  /\ Noted(jobs, s, st) \in [Procs -> Jobs]
           /\ \A q \in Procs : Aside(jobs[q], Noted(jobs, s, st)[q])
  <1>1. ASSUME NEW q \in Procs
        PROVE  Noted(jobs, s, st)[q] \in Jobs /\ Aside(jobs[q], Noted(jobs, s, st)[q])
    <2> DEFINE j == jobs[q]
               seen == j.seen \cup {s}
               kept == j.kept \ {s}
    <2>1. j \in Jobs
      OBVIOUS
    <2>2. seen \in SUBSET Slots /\ kept \in SUBSET Slots
      BY <2>1 DEF Jobs
    <2>3. \/ Noted(jobs, s, st)[q] = j
          \/ Noted(jobs, s, st)[q] = [j EXCEPT !.seen = seen]
          \/ Noted(jobs, s, st)[q] = [j EXCEPT !.kept = kept]
      BY DEF Noted
    <2> HIDE DEF j, seen, kept
    <2>4. [j EXCEPT !.seen = seen] \in Jobs /\ Aside(j, [j EXCEPT !.seen = seen])
      BY <2>1, <2>2 DEF Jobs, Aside
    <2>5. [j EXCEPT !.kept = kept] \in Jobs /\ Aside(j, [j EXCEPT !.kept = kept])
      BY <2>1, <2>2 DEF Jobs, Aside
    <2>6. Noted(jobs, s, st)[q] \in Jobs /\ Aside(j, Noted(jobs, s, st)[q])
      BY <2>1, <2>3, <2>4, <2>5, AsideSelf
    <2>7. QED
      BY <2>6 DEF j
  <1>2. QED
    BY <1>1 DEF Noted

(* What going on changes.                                                  *)
LEMMA GotoEffect ==
    ASSUME ControlTypes, NEW p \in Procs, NEW label \in Places
    PROVE  /\ Goto(p, label) =>
                /\ Frame(p) /\ ControlTypes' /\ pc'[p] = label /\ job' = job
           /\ \A j \in Jobs : GotoWith(p, label, j) =>
                /\ Frame(p) /\ ControlTypes' /\ pc'[p] = label /\ job'[p] = j
  BY AsideSelf DEF ControlTypes, Goto, GotoWith, Frame

(* Becoming idle.                                                          *)
LEMMA ReturnEffect ==
    ASSUME ControlTypes, NEW p \in Procs, Return(p)
    PROVE  Frame(p) /\ ControlTypes' /\ pc'[p] = "idle" /\ job'[p] = IdleJob /\ Fits(p)'
  <1>1. Frame(p) /\ ControlTypes' /\ pc'[p] = "idle" /\ job'[p] = IdleJob
    BY GotoEffect, IdleJobType, PlacesApart DEF Return
  <1>2. QED
    BY <1>1, PlacesApart DEF Fits, ScanPlaces

(* Changing the state of a call.                                           *)
LEMMA SetStateEffect ==
    ASSUME ControlTypes, NEW p \in Procs, NEW label \in Places, NEW j \in Jobs,
           NEW s \in Slots, NEW st, SetState(p, label, j, s, st)
    PROVE  Frame(p) /\ ControlTypes' /\ pc'[p] = label /\ Aside(j, job'[p])
  <1> DEFINE jobs == [job EXCEPT ![p] = j]
  <1>1. jobs \in [Procs -> Jobs] /\ jobs[p] = j /\ \A q \in Procs \ {p} : jobs[q] = job[q]
    BY DEF ControlTypes
  <1>2. job' = Noted(jobs, s, st)
    BY DEF SetState
  <1>3. job' \in [Procs -> Jobs] /\ \A q \in Procs : Aside(jobs[q], job'[q])
    BY <1>1, <1>2, NotedEffect
  <1>4. pc' \in [Procs -> Places] /\ pc'[p] = label /\ \A q \in Procs \ {p} : pc'[q] = pc[q]
    BY DEF SetState, ControlTypes
  <1>5. QED
    BY <1>1, <1>3, <1>4 DEF ControlTypes, Frame

(* When the process that moves fits, all do.                               *)
LEMMA FitsAll ==
    ASSUME ControlOK, NEW p \in Procs, Frame(p), Fits(p)'
    PROVE  \A q \in Procs : Fits(q)'
  <1>1. ASSUME NEW q \in Procs \ {p} PROVE Fits(q)'
    BY DEF ControlOK, Frame, Aside, Fits
  <1>2. QED
    BY <1>1

(* A process that stays busy in the same phase.                            *)
LEMMA PhaseKept ==
    ASSUME ControlOK, NEW p \in Procs, Frame(p), phase' = phase,
           phase = "starting" => Busy(p) /\ Initialising(p)',
           phase = "up" => ~Initialising(p)', phase \in {"starting", "up"}
    PROVE  PhaseTypes' /\ PhaseOK'
  <1>1. \A q \in Procs \ {p} : /\ Busy(q)' <=> Busy(q)
                               /\ Initialising(q)' <=> Initialising(q)
    BY DEF Frame, Aside, Busy, Initialising
  <1>2. QED
    BY <1>1 DEF ControlOK, PhaseOK, PhaseTypes

(* Who does mod_init does it while the module starts; who is active at     *)
(* all is so then or when the module is up.                                *)
LEMMA Phases ==
    ASSUME ControlOK, NEW p \in Procs
    PROVE  /\ Initialising(p) => phase = "starting"
           /\ pc[p] \in StartPlaces => Initialising(p)
           /\ Busy(p) => phase \in {"starting", "up"}
           /\ Busy(p) /\ ~Initialising(p) => phase = "up"
  BY PlacesApart DEF ControlOK, PhaseOK, PhaseTypes, Busy, Initialising, Fits
-----------------------------------------------------------------------------
(* mod_init goes on.                                                       *)
LEMMA StartGoes ==
    ASSUME ControlOK, NEW p \in Procs, NEW label \in StartPlaces \cup {"load"},
           pc[p] \in StartPlaces, Goto(p, label),
           label \in {"db", "load"} => pc[p] \in {"cfg", "db"}, label # "cfg",
           UNCHANGED <<phase, locks>>
    PROVE  Orderly(p)
  <1>1. /\ Frame(p) /\ ControlTypes' /\ pc'[p] = label /\ job' = job
        /\ Initialising(p) /\ job[p].op = "init" /\ phase = "starting"
    BY GotoEffect, PlacesApart, Phases DEF ControlOK, LoadPlaces, Initialising
  <1>2. Fits(p)'
    <2>1. pc'[p] \notin {"enter", "find", "create", "handle"} \cup ScanPlaces
      BY <1>1, PlacesApart DEF MessagePlaces, LoadPlaces
    <2>2. pc[p] \in {"cfg", "db"} => job[p].chk = {}
      BY DEF ControlOK, Fits
    <2>3. QED
      BY <1>1, <2>1, <2>2 DEF Fits, ScanPlaces
  <1>3. Initialising(p)' /\ Busy(p)
    BY <1>1, PlacesApart DEF Initialising, Busy, LoadPlaces
  <1>4. ControlOK'
    BY <1>1, <1>2, <1>3, FitsAll, PhaseKept DEF ControlOK
  <1>5. CallsKept(p) /\ QueuesKept(p)
    BY <1>1, PlacesApart
    DEF CallsKept, QueuesKept, locks, ScansCalls, CreatesCall, UsesList, LoadsList, ScanPlaces, LoadPlaces
  <1>6. QED
    BY <1>1, <1>4, <1>5 DEF Orderly, CallMove, QueueMove

(* mod_init is over.                                                       *)
LEMMA StartEnds ==
    ASSUME ControlOK, NEW p \in Procs, pc[p] \in StartPlaces, Return(p),
           phase' \in {"up", "failed"}, UNCHANGED locks
    PROVE  Orderly(p)
  <1>1. /\ Frame(p) /\ ControlTypes' /\ pc'[p] = "idle" /\ Fits(p)'
        /\ Initialising(p) /\ phase = "starting" /\ Busy(p)
    BY ReturnEffect, Phases, PlacesApart DEF ControlOK, Busy
  <1>2. \A q \in Procs : ~Busy(q)'
    BY <1>1 DEF Frame, Busy, ControlOK, PhaseOK
  <1>3. \A q \in Procs : ~Initialising(q)'
    BY <1>2, PlacesApart DEF Busy, Initialising
  <1>4. ControlOK'
    BY <1>1, <1>2, <1>3, FitsAll DEF ControlOK, PhaseOK, PhaseTypes
  <1>5. CallsKept(p) /\ QueuesKept(p)
    BY <1>1, PlacesApart
    DEF CallsKept, QueuesKept, locks, ScansCalls, CreatesCall, UsesList, LoadsList, ScanPlaces, LoadPlaces,
        Initialising
  <1>6. QED
    BY <1>1, <1>4, <1>5 DEF Orderly, CallMove, QueueMove

(* mod_init begins.                                                        *)
LEMMA ModInitControl ==
    ASSUME ControlOK, NEW p \in Procs, ModInit(p)
    PROVE  Orderly(p)
  <1> DEFINE j == [IdleJob EXCEPT !.op = "init"]
  <1>1. phase = "down" /\ ~Busy(p) /\ \A q \in Procs : ~Busy(q)
    BY DEF ModInit, ControlOK, PhaseOK
  <1>2. CASE phase' = "failed" /\ UNCHANGED <<pc, job>>
    <2>1. Frame(p) /\ ControlOK'
      BY <1>1, <1>2, AsideSelf
      DEF Frame, ControlOK, ControlTypes, PhaseOK, PhaseTypes, Fits, Busy
    <2>2. CallsKept(p) /\ QueuesKept(p)
      BY <1>2 DEF CallsKept, QueuesKept, ModInit, locks, ScansCalls, CreatesCall, UsesList, LoadsList
    <2>3. QED
      BY <2>1, <2>2 DEF Orderly, CallMove, QueueMove
  <1>3. CASE phase' = "starting" /\ GotoWith(p, "cfg", j)
    <2>1. j \in Jobs /\ j.op = "init" /\ j.chk = {}
      BY IdleJobType DEF Jobs, Ops, IdleJob
    <2>2. "cfg" \in StartPlaces /\ "cfg" \in Places
      BY DEF StartPlaces, Places
    <2>3. Frame(p) /\ ControlTypes' /\ pc'[p] = "cfg" /\ job'[p] = j
      BY <1>3, <2>1, <2>2, GotoEffect DEF ControlOK
    <2>4. Fits(p)'
      BY <2>1, <2>2, <2>3, PlacesApart DEF Fits, MessagePlaces, ScanPlaces
    <2>5. Initialising(p)' /\ \A q \in Procs \ {p} : ~Busy(q)'
      BY <1>1, <2>1, <2>2, <2>3 DEF Initialising, Frame, Busy
    <2>6. ControlOK'
      BY <1>3, <2>3, <2>4, <2>5, FitsAll DEF ControlOK, PhaseOK, PhaseTypes
    <2>7. CallsKept(p) /\ QueuesKept(p)
      BY <1>1, <2>2, <2>3, PlacesApart
      DEF ModInit, CallsKept, QueuesKept, locks, ScansCalls, CreatesCall, UsesList, LoadsList,
          ScanPlaces, Busy
    <2>8. QED
      BY <2>3, <2>6, <2>7 DEF Orderly, CallMove, QueueMove
  <1>4. QED
    BY <1>2, <1>3 DEF ModInit

(* Every step of mod_init but the load.                                    *)
LEMMA StartControl ==
    ASSUME ControlOK, NEW p \in Procs, Start(p)
    PROVE  Orderly(p)
  <1> USE DEF StartPart, StartPlaces
  <1>1. CASE ModInit(p)
    BY <1>1, ModInitControl
  <1>2. CASE InitCfg(p)
    BY <1>2, StartGoes DEF InitCfg
  <1>3. CASE InitDb(p)
    BY <1>3, StartGoes DEF InitDb
  <1>4. CASE Bind(p)
    BY <1>4, StartGoes DEF Bind
  <1>5. CASE RegisterRpc(p)
    BY <1>5, StartGoes, StartEnds DEF RegisterRpc
  <1>6. CASE FindPv(p)
    BY <1>6, StartGoes DEF FindPv
  <1>7. CASE InitQueueLock(p)
    BY <1>7, StartGoes DEF InitQueueLock, LockInitFails
  <1>8. CASE InitCallLock(p)
    BY <1>8, StartGoes, StartEnds DEF InitCallLock, LockInitFails
  <1>9. CASE InitErr(p)
    BY <1>9, StartEnds DEF InitErr
  <1>10. QED
    BY <1>1, <1>2, <1>3, <1>4, <1>5, <1>6, <1>7, <1>8, <1>9 DEF Start

-----------------------------------------------------------------------------
(* A load goes on,                                                         *)
LEMMA LoadGoes ==
    ASSUME ControlOK, NEW p \in Procs, pc[p] \in LoadPlaces, NEW j \in Jobs,
           j.op = job[p].op, GotoWith(p, "rows", j), UNCHANGED <<phase, locks>>
    PROVE  Orderly(p)
  <1>1. "rows" \in LoadPlaces /\ "rows" \in Places
    BY DEF LoadPlaces, Places
  <1>2. Frame(p) /\ ControlTypes' /\ pc'[p] = "rows" /\ job'[p] = j
    BY <1>1, GotoEffect DEF ControlOK
  <1>3. Fits(p)'
    BY <1>1, <1>2, PlacesApart DEF Fits, MessagePlaces, ControlOK
  <1>4. Initialising(p)' = Initialising(p) /\ Busy(p)
    BY <1>1, <1>2, PlacesApart DEF Initialising, Busy
  <1>5. ControlOK'
    BY <1>2, <1>3, <1>4, FitsAll, PhaseKept, Phases DEF ControlOK, PhaseOK
  <1>6. CallsKept(p) /\ QueuesKept(p)
    BY <1>1, <1>2, PlacesApart
    DEF CallsKept, QueuesKept, locks, ScansCalls, CreatesCall, UsesList, LoadsList, ScanPlaces
  <1>7. QED
    BY <1>2, <1>5, <1>6 DEF Orderly, CallMove, QueueMove

(* or ends and the lock is shared again.                                   *)
LEMMA LoadEnds ==
    ASSUME ControlOK, NEW p \in Procs, pc[p] \in LoadPlaces, EndLoad(p),
           UNCHANGED <<phase, pcall_lock>>
    PROVE  Orderly(p)
  <1> DEFINE j == [job[p] EXCEPT !.todo = {}, !.chk = {}]
             label == IF job[p].op = "init" THEN "bind" ELSE "find"
  <1>1. j \in Jobs /\ j.op = job[p].op /\ job[p].op \in {"init", "message"}
    <2>1. job[p] \in Jobs /\ job[p].op \in {"init", "message"}
      BY DEF ControlOK, ControlTypes, Fits
    <2>2. j \in Jobs
      BY <2>1, JobEdits
    <2>3. QED
      BY <2>1, <2>2 DEF Jobs
  <1>2. label \in Places
    BY DEF Places, StartPlaces, MessagePlaces
  <1>3. Frame(p) /\ ControlTypes' /\ pc'[p] = label /\ job'[p] = j
    BY <1>1, <1>2, GotoEffect DEF ControlOK, EndLoad
  <1>4. CASE job[p].op = "init"
    <2>1. pc'[p] = "bind" /\ "bind" \in StartPlaces /\ Initialising(p)
      BY <1>3, <1>4 DEF StartPlaces, Initialising
    <2>2. Fits(p)'
      BY <1>1, <1>3, <1>4, <2>1, PlacesApart DEF Fits, MessagePlaces
    <2>3. ControlOK'
      BY <1>1, <1>3, <1>4, <2>1, <2>2, FitsAll, PhaseKept, Phases, PlacesApart
      DEF ControlOK, Initialising, Busy
    <2>4. CallsKept(p) /\ QueuesKept(p)
      BY <1>1, <1>3, <1>4, <2>1, PlacesApart
      DEF EndLoad, CallsKept, QueuesKept, ScansCalls, CreatesCall, UsesList, LoadsList, ScanPlaces
    <2>5. QED
      BY <1>3, <2>3, <2>4 DEF Orderly, CallMove, QueueMove
  <1>5. CASE job[p].op # "init"
    <2>1. pc'[p] = "find" /\ "find" \in MessagePlaces /\ job'[p].op = "message"
      BY <1>1, <1>3, <1>5 DEF MessagePlaces
    <2>2. Fits(p)'
      BY <2>1, PlacesApart DEF Fits
    <2>3. ~Initialising(p) /\ ~Initialising(p)' /\ Busy(p) /\ phase = "up"
      BY <1>5, <2>1, Phases, PlacesApart DEF Initialising, Busy
    <2>4. ControlOK'
      BY <1>3, <2>2, <2>3, FitsAll, PhaseKept DEF ControlOK
    <2>5. CallsKept(p)
      BY <2>1, PlacesApart DEF CallsKept, ScansCalls, CreatesCall, ScanPlaces
    <2>6. LoadEnded(p)
      BY <1>5, <2>1, PlacesApart DEF EndLoad, LoadEnded, UsesList, LoadsList
    <2>7. QED
      BY <1>3, <2>4, <2>5, <2>6 DEF Orderly, CallMove, QueueMove
  <1>6. QED
    BY <1>4, <1>5

(* The steps of update_mohq_lst.                                           *)
LEMMA LoadControl ==
    ASSUME TypeOK, ControlOK, NEW p \in Procs, LoadStep(p), UNCHANGED phase
    PROVE  Orderly(p)
  <1>1. /\ job[p] \in Jobs /\ rows \in SUBSET Row /\ mohq_cnt \in Nat
        /\ job[p].todo \in SUBSET Row /\ job[p].chk \in SUBSET Nat
    BY DEF TypeOK, Jobs
  <1>2. Indices \subseteq Nat
    BY <1>1 DEF Indices
  <1>3. CASE Query(p)
    <2>1. pc[p] \in LoadPlaces
      BY <1>3 DEF Query, LoadPlaces
    <2>2. CASE EndLoad(p)
      BY <1>3, <2>1, <2>2, LoadEnds DEF Query
    <2>3. CASE GotoWith(p, "rows", [job[p] EXCEPT !.todo = rows]) /\ UNCHANGED pmohq_lock
      <3>1. [job[p] EXCEPT !.todo = rows] \in Jobs
        BY <1>1, JobEdits
      <3>2. [job[p] EXCEPT !.todo = rows].op = job[p].op
        BY <1>1 DEF Jobs
      <3>3. QED
        BY <1>3, <2>1, <2>3, <3>1, <3>2, LoadGoes DEF Query, locks
    <2>4. QED
      BY <1>3, <2>2, <2>3 DEF Query
  <1>4. CASE LoadRow(p)
    <2>1. pc[p] \in LoadPlaces /\ UNCHANGED pcall_lock
      BY <1>4 DEF LoadRow, LoadPlaces
    <2>2. CASE EndLoad(p)
      BY <2>1, <2>2, LoadEnds
    <2>3. ASSUME NEW r \in Row, NEW i \in Nat, NextRow(p, r, i), UNCHANGED pmohq_lock
          PROVE  Orderly(p)
      <3> DEFINE j == [job[p] EXCEPT !.todo = @ \ {r}, !.chk = @ \cup {i}]
      <3>1. j = [job[p] EXCEPT !.todo = job[p].todo \ {r}, !.chk = job[p].chk \cup {i}]
        BY <1>1 DEF Jobs
      <3>2. j \in Jobs
        BY <1>1, <3>1, JobEdits
      <3>3. j.op = job[p].op
        BY <1>1 DEF Jobs
      <3>4. QED
        BY <2>1, <2>3, <3>2, <3>3, LoadGoes DEF NextRow, locks
    <2>4. ASSUME NEW r \in job[p].todo, ChangeEntry(p, r) PROVE Orderly(p)
      BY <1>1, <1>2, <2>3, <2>4 DEF ChangeEntry, EntryOf
    <2>5. ASSUME NEW r \in job[p].todo, AddEntry(p, r) PROVE Orderly(p)
      BY <1>1, <2>2, <2>3, <2>5 DEF AddEntry
    <2>6. QED
      BY <1>4, <2>4, <2>5 DEF LoadRow
  <1>5. CASE Sweep(p)
    <2>1. PICK i \in Indices :
            GotoWith(p, "rows", [job[p] EXCEPT !.chk =
                IF mohq_cnt \in @ THEN (@ \ {mohq_cnt}) \cup {i} ELSE @])
      BY <1>5 DEF Sweep, Unchecked
    <2> DEFINE c == IF mohq_cnt \in job[p].chk
                    THEN (job[p].chk \ {mohq_cnt}) \cup {i} ELSE job[p].chk
    <2>2. c \in SUBSET Nat
      BY <1>1, <1>2
    <2>3. GotoWith(p, "rows", [job[p] EXCEPT !.chk = c])
      BY <1>1, <2>1 DEF Jobs
    <2>4. [job[p] EXCEPT !.chk = c] \in Jobs
      BY <1>1, <2>2, JobEdits
    <2>5. [job[p] EXCEPT !.chk = c].op = job[p].op
      BY <1>1 DEF Jobs
    <2>6. pc[p] \in LoadPlaces /\ UNCHANGED locks
      BY <1>5 DEF Sweep, LoadPlaces
    <2>7. QED
      BY <2>3, <2>4, <2>5, <2>6, LoadGoes
  <1>6. CASE Swept(p)
    BY <1>6, LoadEnds DEF Swept, LoadPlaces
  <1>7. QED
    BY <1>3, <1>4, <1>5, <1>6 DEF LoadStep

-----------------------------------------------------------------------------
(* What uses the list runs while the module is up.                         *)
LEMMA UserMoves ==
    ASSUME ControlOK, NEW p \in Procs, phase = "up", UNCHANGED phase,
           Frame(p), ControlTypes', Fits(p)',
           pc'[p] \notin StartPlaces,
           pc'[p] \in LoadPlaces => job'[p].op # "init"
    PROVE  ControlOK'
  <1>1. ~Initialising(p)'
    BY DEF Initialising
  <1>2. QED
    BY <1>1, FitsAll, PhaseKept DEF ControlOK

(* The entries in use are entries.                                         *)
EntriesOK == \A i \in Indices : Queue(i) \in Entry

(* What may be read as an id is one, even where memory was freed.          *)
LEMMA IdsAreIds ==
    ASSUME TypeOK, NEW b \in Blocks \cup {NULL}, NEW i \in Nat
    PROVE  IdAt(b, i) \subseteq Ids
  <1>1. CASE b # NULL /\ i \in DOMAIN mem[b]
    <2>1. mem[b] \in Seq(Entry)
      BY <1>1 DEF TypeOK
    <2>2. mem[b][i] \in Entry
      BY <1>1, <2>1
    <2>3. QED
      BY <1>1, <2>2 DEF IdAt, Entry
  <1>2. QED
    BY <1>1 DEF IdAt

(* Handlers of messages, and callbacks.                                    *)
LEMMA HandlerControl ==
    ASSUME TypeOK, ControlOK, EntriesOK, NEW p \in Procs, phase = "up", UNCHANGED phase,
           \/ StartMessage(p) \/ BeginLoad(p) \/ Lookup(p) \/ AddCallRec(p) \/ Handle(p)
           \/ \E s \in Slots : Callback(p, s)
    PROVE  Orderly(p)
  <1> USE DEF locks
  <1>1. ControlTypes /\ job[p] \in Jobs
    BY DEF ControlOK, TypeOK
  <1>2. /\ "enter" \in MessagePlaces /\ "find" \in MessagePlaces /\ "handle" \in MessagePlaces
        /\ "load" \in LoadPlaces
        /\ {"enter", "find", "create", "handle", "load", "idle"} \subseteq Places
        /\ "enter" \notin ScanPlaces /\ "find" \notin ScanPlaces
    BY DEF MessagePlaces, LoadPlaces, Places, ScanPlaces
  <1>3. CASE StartMessage(p)
    <2> DEFINE j == [IdleJob EXCEPT !.op = "message"]
    <2>1. j \in Jobs /\ j.op = "message" /\ j.chk = {}
      BY IdleJobType DEF Jobs, Ops, IdleJob
    <2>2. Frame(p) /\ ControlTypes' /\ pc'[p] = "enter" /\ job'[p] = j
      BY <1>1, <1>2, <1>3, <2>1, GotoEffect DEF StartMessage
    <2>3. Fits(p)' /\ pc'[p] \notin StartPlaces \cup LoadPlaces
      BY <1>2, <2>1, <2>2, PlacesApart DEF Fits
    <2>4. CallsKept(p) /\ QueuesJoined(p)
      BY <1>2, <1>3, <2>2, <2>3, PlacesApart
      DEF StartMessage, CallsKept, QueuesJoined, ScansCalls, CreatesCall, UsesList, LoadsList, ScanPlaces
    <2>5. QED
      BY <2>2, <2>3, <2>4, UserMoves DEF Orderly, CallMove, QueueMove
  <1>4. CASE BeginLoad(p)
    <2>1. Frame(p) /\ ControlTypes' /\ pc'[p] = "load" /\ job' = job
      BY <1>1, <1>2, <1>4, GotoEffect DEF BeginLoad
    <2>2. job[p].op = "message" /\ job[p].chk = {}
      BY <1>4 DEF BeginLoad, ControlOK, Fits
    <2>3. Fits(p)' /\ pc'[p] \notin StartPlaces /\ job'[p].op # "init"
      BY <1>2, <2>1, <2>2, PlacesApart DEF Fits
    <2>4. CallsKept(p) /\ LoadBegun(p)
      BY <1>2, <1>4, <2>1, <2>3, PlacesApart
      DEF BeginLoad, CallsKept, LoadBegun, ScansCalls, CreatesCall, UsesList, LoadsList, ScanPlaces
    <2>5. QED
      BY <2>1, <2>3, <2>4, UserMoves DEF Orderly, CallMove, QueueMove
  <1>5. ASSUME pc[p] \in MessagePlaces, pc[p] # "create",
               Frame(p), ControlTypes', pc'[p] = "idle",
               pmohq_lock' = AfterRelease(pmohq_lock), UNCHANGED pcall_lock
        PROVE  Orderly(p)
    <2>1. Fits(p)' /\ pc'[p] \notin StartPlaces \cup LoadPlaces
      BY <1>5, PlacesApart DEF Fits, ScanPlaces
    <2>2. CallsKept(p) /\ QueuesLeft(p)
      BY <1>5, <2>1, PlacesApart
      DEF CallsKept, QueuesLeft, ScansCalls, CreatesCall, UsesList, LoadsList, ScanPlaces
    <2>3. QED
      BY <1>5, <2>1, <2>2, UserMoves DEF Orderly, CallMove, QueueMove
  <1>6. CASE Lookup(p)
    <2>1. pc[p] \in {"enter", "find"} /\ pc[p] \in MessagePlaces
      BY <1>2, <1>6 DEF Lookup
    <2>2. CASE LeaveMessage(p) /\ UNCHANGED pcall_lock
      BY <1>1, <1>5, <2>1, <2>2, ReturnEffect DEF LeaveMessage
    <2>3. ASSUME NEW op \in {"message", "invite"}, NEW u \in Uris, NEW i \in Indices,
                 NEW s \in Slots, NEW l \in {"create", "handle"}, Found(p, l, op, u, i, s),
                 UNCHANGED pmohq_lock, Queue(i).id \in Ids,
                 IF l = "create"
                 THEN SetGranted(pcall_lock, TRUE) /\ pcall_lock' = AfterSet(pcall_lock, TRUE)
                 ELSE UNCHANGED pcall_lock
          PROVE  Orderly(p)
      <3> DEFINE j == [job[p] EXCEPT !.op = op, !.uri = u, !.idx = i, !.slot = s,
                                     !.asked = Queue(i).id]
      <3>1. i \in Nat /\ s \in 0..MaxCalls
        BY ListAssumption DEF TypeOK, Indices, Slots
      <3>2. j \in Jobs /\ j.op = op /\ j.slot = s
        BY <1>1, <2>3, <3>1 DEF Jobs, Ops
      <3>3. Frame(p) /\ ControlTypes' /\ pc'[p] = l /\ job'[p] = j
        BY <1>1, <1>2, <2>3, <3>2, GotoEffect DEF Found
      <3>4. Fits(p)' /\ pc'[p] \notin StartPlaces \cup LoadPlaces
        BY <1>2, <3>2, <3>3, PlacesApart DEF Fits
      <3>5. (CallsKept(p) \/ CallsTaken(p)) /\ QueuesKept(p)
        BY <1>2, <2>1, <2>3, <3>3, <3>4, PlacesApart
        DEF CallsKept, CallsTaken, QueuesKept, ScansCalls, CreatesCall, UsesList, LoadsList,
            ScanPlaces
      <3>6. QED
        BY <3>3, <3>4, <3>5, UserMoves DEF Orderly, CallMove, QueueMove
    <2>4. ASSUME NEW u \in Uris, NEW i \in Indices, FirstInvite(p, u, i), UNCHANGED pmohq_lock,
                 SetGranted(pcall_lock, TRUE)
          PROVE  Orderly(p)
      BY <2>3, <2>4 DEF FirstInvite, OpenSlots, EntriesOK, Entry
    <2>5. ASSUME NEW u \in Uris, NEW i \in Indices, OfCall(p, u, i), UNCHANGED pmohq_lock
          PROVE  Orderly(p)
      BY <2>3, <2>5 DEF OfCall, EntriesOK, Entry
    <2>6. QED
      BY <1>6, <2>2, <2>4, <2>5 DEF Lookup, Matches
  <1>10. CASE AddCallRec(p)
    <2>1. Frame(p) /\ ControlTypes' /\ pc'[p] = "handle" /\ job' = job /\ pc[p] = "create"
      BY <1>1, <1>2, <1>10, GotoEffect DEF AddCallRec
    <2>2. Fits(p)
      BY DEF ControlOK
    <2>3. Fits(p)' /\ pc'[p] \notin StartPlaces \cup LoadPlaces
      BY <1>2, <2>1, <2>2, PlacesApart DEF Fits
    <2>4. CallsGiven(p) /\ QueuesKept(p)
      BY <1>10, <2>1, PlacesApart
      DEF AddCallRec, CallsGiven, QueuesKept, ScansCalls, CreatesCall, UsesList, LoadsList
    <2>5. QED
      BY <2>1, <2>3, <2>4, UserMoves DEF Orderly, CallMove, QueueMove
  <1>7. CASE Handle(p)
    <2>1. pc[p] = "handle" /\ job[p].slot \in Slots /\ UNCHANGED pcall_lock
      BY <1>7 DEF Handle, ControlOK, Fits
    <2>2. PICK st : SetState(p, "idle", IdleJob, job[p].slot, st)
      BY <1>7 DEF Handle
    <2>3. Frame(p) /\ ControlTypes' /\ pc'[p] = "idle"
      BY <1>1, <1>2, <2>1, <2>2, IdleJobType, SetStateEffect
    <2>4. QED
      BY <1>2, <1>5, <1>7, <2>1, <2>3 DEF Handle
  <1>8. ASSUME NEW s \in Slots, Callback(p, s)
        PROVE  Orderly(p)
    <2>1. PICK st : SetState(p, "idle", IdleJob, s, st)
      BY <1>8 DEF Callback
    <2>2. Frame(p) /\ ControlTypes' /\ pc'[p] = "idle"
      BY <1>1, <1>2, <2>1, IdleJobType, SetStateEffect
    <2>3. Fits(p)' /\ pc'[p] \notin StartPlaces \cup LoadPlaces
      BY <2>2, PlacesApart DEF Fits, ScanPlaces
    <2>4. CallsKept(p) /\ QueuesKept(p)
      BY <1>8, <2>2, <2>3, PlacesApart
      DEF Callback, CallsKept, QueuesKept, ScansCalls, CreatesCall, UsesList, LoadsList, ScanPlaces
    <2>5. QED
      BY <2>2, <2>3, <2>4, UserMoves DEF Orderly, CallMove, QueueMove
  <1>9. QED
    BY <1>3, <1>4, <1>6, <1>7, <1>8, <1>10

(* What the shared lock of the calls is needed for.                        *)
LEMMA FindQnameControl ==
    ASSUME TypeOK, ControlOK, EntriesOK, NEW p \in Procs, phase = "up", UNCHANGED phase,
           NEW op \in Scans, NEW n \in Names, FindQname(p, op, n)
    PROVE  Orderly(p)
  <1>1. ControlTypes /\ pc[p] = "idle" /\ UNCHANGED locks
    BY DEF ControlOK, FindQname
  <1>2. "named" \in ScanPlaces /\ "named" \in Places /\ op \in Ops
    BY DEF Places, ScanPlaces, Ops
  <1>3. ASSUME NEW j \in Jobs, GotoWith(p, "named", j), j.op = op, j.best = -1, j.cnt = 0,
               j.idx = 0 => op = "count" /\ (j.asked = None \/ j.refused)
        PROVE  Orderly(p)
    <2>1. Frame(p) /\ ControlTypes' /\ pc'[p] = "named" /\ job'[p] = j
      BY <1>1, <1>2, <1>3, GotoEffect
    <2>2. Fits(p)' /\ pc'[p] \notin StartPlaces \cup LoadPlaces
      BY <1>2, <1>3, <2>1, PlacesApart DEF Fits, MessagePlaces
    <2>3. CallsKept(p) /\ QueuesKept(p)
      BY <1>1, <1>2, <2>1, <2>2, PlacesApart
      DEF locks, CallsKept, QueuesKept, ScansCalls, CreatesCall, UsesList, LoadsList, ScanPlaces
    <2>4. QED
      BY <2>1, <2>2, <2>3, UserMoves DEF Orderly, CallMove, QueueMove
  <1>4. ASSUME NEW i \in Indices,
               GotoWith(p, "named",
                    [IdleJob EXCEPT !.op = op, !.idx = i,
                        !.asked = IF op = "drop" THEN None ELSE Queue(i).id])
        PROVE  Orderly(p)
    <2> DEFINE id == IF op = "drop" THEN None ELSE Queue(i).id
               j == [IdleJob EXCEPT !.op = op, !.idx = i, !.asked = id]
    <2>1. i \in Nat /\ i # 0 /\ id \in Ids \cup {None}
      BY DEF EntriesOK, Entry, Indices, TypeOK
    <2>2. j \in Jobs
      <3> HIDE DEF id
      <3>1. QED
        BY <1>2, <2>1, IdleJobType DEF Jobs
    <2>3. j.op = op /\ j.best = -1 /\ j.cnt = 0 /\ j.idx # 0
      BY <2>1 DEF IdleJob
    <2>4. QED
      BY <1>3, <1>4, <2>2, <2>3
  <1>5. ASSUME op = "count", GotoWith(p, "named", [IdleJob EXCEPT !.op = op])
        PROVE  Orderly(p)
    <2> DEFINE j == [IdleJob EXCEPT !.op = op]
    <2>1. j \in Jobs
      BY <1>2, IdleJobType DEF Jobs
    <2>2. j.op = op /\ j.best = -1 /\ j.cnt = 0 /\ j.asked = None
      BY DEF IdleJob
    <2>3. QED
      BY <1>3, <1>5, <2>1, <2>2
  <1>6. ASSUME op = "count", NEW id \in IF IdsNamed(n) = {} THEN {None} ELSE IdsNamed(n),
               GotoWith(p, "named", [IdleJob EXCEPT !.op = op, !.asked = id, !.refused = TRUE])
        PROVE  Orderly(p)
    <2> DEFINE j == [IdleJob EXCEPT !.op = op, !.asked = id, !.refused = TRUE]
    <2>1. id \in Ids \cup {None}
      BY DEF IdsNamed, FirstNamed, EntriesOK, Entry
    <2>2. j \in Jobs
      BY <1>2, <2>1, IdleJobType DEF Jobs
    <2>3. j.op = op /\ j.best = -1 /\ j.cnt = 0 /\ j.refused
      BY DEF IdleJob
    <2>4. QED
      BY <1>3, <1>6, <2>2, <2>3
  <1>7. QED
    BY <1>4, <1>5, <1>6 DEF FindQname, FirstNamed

(* What a call of the queue adds is a job of the type, of the same kind.   *)
LEMMA CountedType ==
    ASSUME NEW p \in Procs, job[p] \in Jobs, job[p].slot \in Slots,
           job[p].cnt <= job[p].slot, NEW bad \in BOOLEAN
    PROVE  LET j == [Counted(p, job[p].slot) EXCEPT !.bad = bad]
           IN  j \in Jobs /\ j.op = job[p].op /\ j.cnt <= j.slot
  <1> DEFINE s == job[p].slot
             c == IF job[p].op = "count" /\ calls[s].state = "queued"
                  THEN job[p].cnt + 1 ELSE job[p].cnt
             b == IF job[p].op = "retrieve" /\ calls[s].state = "queued" /\ Older(p, s)
                  THEN s ELSE job[p].best
             j == [job[p] EXCEPT !.slot = s + 1, !.cnt = c, !.best = b, !.bad = bad]
  <1>1. s + 1 \in 0..MaxCalls /\ c \in 0..MaxCalls /\ c <= s + 1
    BY ListAssumption DEF Jobs, Slots
  <1>2. b \in {-1} \cup Slots
    BY DEF Jobs
  <1>3. [Counted(p, s) EXCEPT !.bad = bad] = j
    BY DEF Counted, Jobs
  <1> HIDE DEF c, b
  <1>4. j \in Jobs /\ j.op = job[p].op /\ j.cnt = c /\ j.slot = s + 1
    BY <1>1, <1>2 DEF Jobs
  <1>5. QED
    BY <1>1, <1>3, <1>4

(* The loops over the calls.                                               *)
LEMMA ScanControl ==
    ASSUME TypeOK, ControlOK, EntriesOK, NEW p \in Procs, phase = "up", UNCHANGED phase,
           StartScan(p) \/ ScanSlot(p) \/ EndScan(p) \/ SetResult(p)
    PROVE  Orderly(p)
  <1>1. ControlTypes /\ job[p] \in Jobs /\ pc[p] \in ScanPlaces /\ job[p].op \in Scans
    BY DEF ControlOK, TypeOK, StartScan, ScanSlot, EndScan, SetResult, ScanPlaces, Fits
  <1>2. "scan" \in ScanPlaces /\ "result" \in ScanPlaces /\ {"scan", "result", "idle"} \subseteq Places
    BY DEF Places, ScanPlaces
  <1>3. ASSUME Frame(p), ControlTypes', pc'[p] = "scan", job'[p].op = job[p].op,
               job'[p].cnt <= job'[p].slot
        PROVE  Fits(p)' /\ pc'[p] \notin StartPlaces \cup LoadPlaces
    BY <1>1, <1>2, <1>3, PlacesApart DEF Fits, MessagePlaces
  <1>4. ASSUME Frame(p), ControlTypes', pc'[p] = "idle"
        PROVE  Fits(p)' /\ pc'[p] \notin StartPlaces \cup LoadPlaces
    BY <1>4, PlacesApart DEF Fits, ScanPlaces
  <1>10. ASSUME Frame(p), ControlTypes', pc'[p] = "result", job'[p].op = "count"
         PROVE  Fits(p)' /\ pc'[p] \notin StartPlaces \cup LoadPlaces
    BY <1>2, <1>10, PlacesApart DEF Fits, MessagePlaces
  <1>5. ASSUME Frame(p), ControlTypes', pc'[p] \in {"idle", "scan", "result"},
               UNCHANGED pmohq_lock
        PROVE  QueuesKept(p)
    BY <1>1, <1>2, <1>5, PlacesApart DEF QueuesKept, UsesList, LoadsList
  <1>11. ~CreatesCall(p) /\ (pc'[p] \in {"idle", "scan", "result"} => ~CreatesCall(p)')
    BY <1>1, PlacesApart DEF CreatesCall
  <1>6. CASE StartScan(p)
    <2>1. CASE Return(p) /\ UNCHANGED pcall_lock
      <3>1. Frame(p) /\ ControlTypes' /\ pc'[p] = "idle"
        BY <1>1, <2>1, ReturnEffect
      <3>2. CallsKept(p)
        BY <1>6, <1>11, <2>1, <3>1 DEF StartScan, CallsKept, ScansCalls
      <3>3. QED
        BY <1>4, <1>5, <1>6, <3>1, <3>2, UserMoves DEF StartScan, Orderly, CallMove, QueueMove
    <2>5. CASE /\ job[p].op = "count" /\ UNCHANGED pcall_lock
               /\ GotoWith(p, "result",
                    [IdleJob EXCEPT !.op = "count", !.refused = TRUE,
                        !.kept = InQueue(job[p].asked), !.seen = InQueue(job[p].asked)])
      <3> DEFINE set == InQueue(job[p].asked)
                 f == [IdleJob EXCEPT !.op = "count", !.refused = TRUE]
                 j == [f EXCEPT !.kept = set, !.seen = set]
      <3>1. set \in SUBSET Slots
        BY DEF InQueue
      <3> HIDE DEF set
      <3>7. f \in Jobs /\ f.op = "count"
        <4>1. "count" \in Ops
          BY DEF Ops, Scans
        <4>2. f \in Jobs
          BY <4>1, IdleJobType DEF Jobs
        <4>3. QED
          BY <4>2 DEF IdleJob
      <3> HIDE DEF f
      <3>2. j \in Jobs /\ j.op = "count"
        BY <3>1, <3>7, JobEdits DEF Jobs
      <3>3. GotoWith(p, "result", j)
        BY <2>5 DEF f, set
      <3> HIDE DEF j
      <3>4. Frame(p) /\ ControlTypes' /\ pc'[p] = "result" /\ job'[p].op = "count"
        BY <1>1, <1>2, <3>2, <3>3, GotoEffect
      <3>5. CallsKept(p)
        BY <1>6, <1>11, <2>5, <3>4 DEF StartScan, CallsKept, ScansCalls
      <3>6. QED
        BY <1>5, <1>6, <1>10, <3>4, <3>5, UserMoves DEF StartScan, Orderly, CallMove, QueueMove
    <2>2. ASSUME NEW id \in IF job[p].idx = 0 THEN {None} ELSE IdAt(pmohq_lst, job[p].idx),
                 GotoWith(p, "scan",
                    [job[p] EXCEPT
                        !.id = id, !.bad = job[p].idx # 0 /\ id # job[p].asked,
                        !.block = IF job[p].op = "drop" THEN pmohq_lst ELSE NULL,
                        !.slot = IF job[p].idx = 0 THEN MaxCalls ELSE 0,
                        !.kept = InQueue(job[p].asked), !.seen = InQueue(job[p].asked)])
          PROVE  /\ Frame(p) /\ ControlTypes' /\ pc'[p] = "scan" /\ job'[p].op = job[p].op
                 /\ job'[p].cnt <= job'[p].slot
      <3> DEFINE bad == job[p].idx # 0 /\ id # job[p].asked
                 block == IF job[p].op = "drop" THEN pmohq_lst ELSE NULL
                 slot == IF job[p].idx = 0 THEN MaxCalls ELSE 0
                 set == InQueue(job[p].asked)
                 j == [job[p] EXCEPT !.id = id, !.bad = bad, !.block = block,
                                     !.slot = slot, !.kept = set, !.seen = set]
      <3>1. id \in Ids \cup {None}
        <4>1. job[p].idx \in Nat /\ pmohq_lst \in Blocks \cup {NULL}
          BY <1>1 DEF Jobs, TypeOK
        <4>2. QED
          BY <4>1, IdsAreIds
      <3>2. slot \in 0..MaxCalls /\ set \in SUBSET Slots /\ bad \in BOOLEAN
            /\ block \in Blocks \cup {NULL}
        BY ListAssumption DEF InQueue, TypeOK
      <3> HIDE DEF slot, set, bad, block
      <3>3. j \in Jobs /\ j.op = job[p].op /\ j.slot = slot /\ j.cnt = job[p].cnt
        <4> DEFINE k == job[p]
                   h == [k EXCEPT !.id = id, !.bad = bad, !.block = block]
                   g == [h EXCEPT !.slot = slot, !.kept = set, !.seen = set]
        <4>1. k \in Jobs
          BY <1>1
        <4> HIDE DEF k
        <4>2. h \in Jobs /\ h.op = k.op /\ h.cnt = k.cnt
          BY <4>1, <3>1, <3>2 DEF Jobs
        <4> HIDE DEF h
        <4>3. g \in Jobs /\ g.op = h.op /\ g.slot = slot /\ g.cnt = h.cnt
          BY <4>2, <3>2 DEF Jobs
        <4>4. j = g
          BY DEF g, h, k
        <4>5. QED
          BY <4>2, <4>3, <4>4 DEF k
      <3>6. job[p].cnt = 0
        BY <1>6 DEF StartScan, ControlOK, Fits
      <3>4. GotoWith(p, "scan", j)
        BY <2>2 DEF slot, set, bad, block
      <3>5. QED
        <4>1. Frame(p) /\ ControlTypes' /\ pc'[p] = "scan" /\ job'[p] = j
          BY <1>1, <1>2, <3>3, <3>4, GotoEffect
        <4>2. 0 <= slot
          BY <3>2, ListAssumption
        <4>3. QED
          BY <3>3, <3>6, <4>1, <4>2
    <2>3. CASE /\ SetGranted(pcall_lock, FALSE) /\ pcall_lock' = AfterSet(pcall_lock, FALSE)
               /\ \E id \in IF job[p].idx = 0 THEN {None} ELSE IdAt(pmohq_lst, job[p].idx) :
                GotoWith(p, "scan",
                    [job[p] EXCEPT
                        !.id = id, !.bad = job[p].idx # 0 /\ id # job[p].asked,
                        !.block = IF job[p].op = "drop" THEN pmohq_lst ELSE NULL,
                        !.slot = IF job[p].idx = 0 THEN MaxCalls ELSE 0,
                        !.kept = InQueue(job[p].asked), !.seen = InQueue(job[p].asked)])
      <3>1. /\ Frame(p) /\ ControlTypes' /\ pc'[p] = "scan" /\ job'[p].op = job[p].op
            /\ job'[p].cnt <= job'[p].slot
        BY <2>2, <2>3
      <3>2. Fits(p)' /\ pc'[p] \notin StartPlaces \cup LoadPlaces
        BY <1>3, <3>1
      <3>3. QueuesKept(p) /\ CallsJoined(p)
        <4>1. pc[p] = "named" /\ UNCHANGED pmohq_lock
          BY <1>6 DEF StartScan
        <4>2. QED
          BY <1>5, <1>11, <2>3, <3>1, <4>1 DEF CallsJoined, ScansCalls
      <3>4. QED
        BY <3>1, <3>2, <3>3, UserMoves DEF Orderly, CallMove, QueueMove
    <2>4. QED
      BY <1>6, <2>1, <2>3, <2>5 DEF StartScan
  <1>7. CASE ScanSlot(p)
    <2>1. job[p].slot \in Slots /\ job[p].slot + 1 \in 0..MaxCalls /\ UNCHANGED locks
      <3>1. job[p].slot < MaxCalls /\ UNCHANGED locks
        BY <1>7 DEF ScanSlot
      <3>2. job[p].slot \in 0..MaxCalls /\ MaxCalls \in Nat
        BY <1>1, JobFields, ListAssumption
      <3>3. QED
        BY <3>1, <3>2 DEF Slots
    <2>2. job[p].cnt <= job[p].slot /\ job[p].cnt \in Nat /\ job[p].slot \in Nat
      <3>1. job[p].cnt <= job[p].slot
        BY <1>7 DEF ScanSlot, ControlOK, Fits
      <3>2. QED
        BY <1>1, <3>1, JobFields, ListAssumption
    <2> DEFINE Goes == /\ Frame(p) /\ ControlTypes' /\ pc'[p] = "scan" /\ job'[p].op = job[p].op
                       /\ job'[p].cnt <= job'[p].slot
    <2>3. ASSUME NEW j \in Jobs, j.op = job[p].op, j.cnt <= j.slot, GotoWith(p, "scan", j)
          PROVE  Goes
      BY <1>1, <1>2, <2>3, GotoEffect
    <2>4. ASSUME NEW j \in Jobs, j.op = job[p].op, j.cnt <= j.slot,
                 NEW st, SetState(p, "scan", j, job[p].slot, st)
          PROVE  Goes
      BY <1>1, <1>2, <2>1, <2>4, SetStateEffect DEF Aside
    <2>5. ASSUME NEW bad \in BOOLEAN
          PROVE  LET j == [job[p] EXCEPT !.slot = job[p].slot + 1, !.bad = bad]
                 IN  j \in Jobs /\ j.op = job[p].op /\ j.cnt <= j.slot
      <3> DEFINE j == [job[p] EXCEPT !.slot = job[p].slot + 1, !.bad = bad]
      <3>1. j \in Jobs
        BY <1>1, <2>1 DEF Jobs
      <3>2. j.op = job[p].op /\ j.cnt = job[p].cnt /\ j.slot = job[p].slot + 1
        BY <1>1 DEF Jobs
      <3>3. QED
        BY <2>2, <3>1, <3>2
    <2>6. LET j == [job[p] EXCEPT !.slot = job[p].slot + 1]
          IN  j \in Jobs /\ j.op = job[p].op /\ j.cnt <= j.slot
      BY <1>1, <2>1, <2>2 DEF Jobs
    <2>7. Goes
      <3>1. CASE GotoWith(p, "scan", [job[p] EXCEPT !.slot = job[p].slot + 1])
        BY <2>3, <2>6, <3>1
      <3>2. ASSUME NEW bad \in BOOLEAN,
                   GotoWith(p, "scan", [job[p] EXCEPT !.slot = job[p].slot + 1, !.bad = bad])
            PROVE  Goes
        BY <2>3, <2>5, <3>2
      <3>3. ASSUME NEW bad \in BOOLEAN,
                   GotoWith(p, "scan", [Counted(p, job[p].slot) EXCEPT !.bad = bad])
            PROVE  Goes
        BY <1>1, <2>1, <2>2, <2>3, <3>3, CountedType
      <3>4. ASSUME NEW bad \in BOOLEAN, NEW st,
                   SetState(p, "scan", [job[p] EXCEPT !.slot = job[p].slot + 1, !.bad = bad],
                            job[p].slot, st)
            PROVE  Goes
        BY <2>4, <2>5, <3>4
      <3>5. \A x, y : (job[p].bad \/ x # calls[job[p].slot].joined \/ y # job[p].asked) \in BOOLEAN
        BY <1>1 DEF Jobs
      <3> HIDE DEF Goes
      <3>6. QED
        BY <1>7, <3>1, <3>2, <3>3, <3>4, <3>5 DEF ScanSlot
    <2>8. Fits(p)' /\ pc'[p] \notin StartPlaces \cup LoadPlaces
      BY <1>3, <2>7
    <2>9. QueuesKept(p) /\ CallsKept(p)
      BY <1>5, <1>7, <1>11, <2>1, <2>7 DEF ScanSlot, CallsKept, ScansCalls, locks
    <2>10. QED
      BY <2>7, <2>8, <2>9, UserMoves DEF Orderly, CallMove, QueueMove
  <1>8. CASE EndScan(p)
    <2>1. Frame(p) /\ ControlTypes' /\ pc'[p] = "idle"
      <3>1. CASE Return(p)
        BY <1>1, <3>1, ReturnEffect
      <3>2. CASE job[p].best # -1 /\ SetState(p, "idle", IdleJob, job[p].best, "busy")
        <4>1. job[p].best \in Slots
          BY <1>1, <3>2 DEF Jobs
        <4>2. QED
          BY <1>1, <1>2, <3>2, <4>1, IdleJobType, SetStateEffect
      <3>3. QED
        BY <1>8, <3>1, <3>2 DEF EndScan
    <2>2. Fits(p)' /\ pc'[p] \notin StartPlaces \cup LoadPlaces
      BY <1>4, <2>1
    <2>3. QueuesKept(p) /\ CallsLeft(p)
      BY <1>5, <1>8, <1>11, <2>1 DEF EndScan, CallsLeft, ScansCalls
    <2>4. QED
      BY <2>1, <2>2, <2>3, UserMoves DEF Orderly, CallMove, QueueMove
  <1>12. CASE SetResult(p)
    <2>1. Frame(p) /\ ControlTypes' /\ pc'[p] = "idle"
      BY <1>1, <1>12, ReturnEffect DEF SetResult
    <2>2. UNCHANGED locks /\ pc[p] = "result"
      BY <1>12 DEF SetResult
    <2>3. QueuesKept(p) /\ CallsKept(p)
      BY <1>5, <1>11, <2>1, <2>2 DEF CallsKept, ScansCalls, locks
    <2>4. QED
      BY <1>4, <2>1, <2>3, UserMoves DEF Orderly, CallMove, QueueMove
  <1>9. QED
    BY <1>6, <1>7, <1>8, <1>12

-----------------------------------------------------------------------------
(* Every step of a process is orderly.                                     *)
LEMMA ProcessControl ==
    ASSUME TypeOK, ControlOK, phase = "up" => EntriesOK, NEW p \in Procs,
           Start(p) \/ (Work(p) /\ UNCHANGED lifeVars)
    PROVE  Orderly(p)
  <1>1. CASE Start(p)
    BY <1>1, StartControl
  <1>2. CASE Work(p) /\ UNCHANGED lifeVars
    <2>1. UNCHANGED phase
      BY <1>2 DEF lifeVars
    <2>2. CASE LoadStep(p)
      BY <2>1, <2>2, LoadControl
    <2>3. ASSUME phase = "up", UserStimulus(p) PROVE Orderly(p)
      BY <2>1, <2>3, HandlerControl, FindQnameControl DEF UserStimulus
    <2>4. ASSUME phase = "up", UserStep(p) PROVE Orderly(p)
      BY <2>1, <2>4, HandlerControl, ScanControl DEF UserStep
    <2>5. QED
      BY <1>2, <2>2, <2>3, <2>4 DEF Work
  <1>3. QED
    BY <1>1, <1>2

(* The sets of processes the counters count.                               *)
LEMMA CountingSets ==
    /\ IsFiniteSet(Users) /\ IsFiniteSet(Scanners)
    /\ Cardinality(Users) \in Nat /\ Cardinality(Scanners) \in Nat
    /\ \A p \in Users : Cardinality(Users \ {p}) = Cardinality(Users) - 1
    /\ \A p \in Scanners : Cardinality(Scanners \ {p}) = Cardinality(Scanners) - 1
    /\ \A p : p \notin Users => Cardinality(Users \cup {p}) = Cardinality(Users) + 1
    /\ \A p : p \notin Scanners => Cardinality(Scanners \cup {p}) = Cardinality(Scanners) + 1
    /\ \A p : Cardinality({p}) = 1
    /\ Cardinality(Users) = 1 => \E p : Users = {p}
  <1>1. IsFiniteSet(Users) /\ IsFiniteSet(Scanners)
    BY ListAssumption, FS_Subset DEF Users, Scanners
  <1>2. QED
    BY <1>1, FS_CardinalityType, FS_RemoveElement, FS_AddElement, FS_Singleton

(* A step of p moves only p in or out of them.                             *)
LEMMA HoldersMove ==
    ASSUME NEW p \in Procs, Frame(p)
    PROVE  /\ Users' = IF UsesList(p)' THEN Users \cup {p} ELSE Users \ {p}
           /\ Loaders' = IF LoadsList(p)' THEN Loaders \cup {p} ELSE Loaders \ {p}
           /\ Scanners' = IF ScansCalls(p)' THEN Scanners \cup {p} ELSE Scanners \ {p}
           /\ Creators' = IF CreatesCall(p)' THEN Creators \cup {p} ELSE Creators \ {p}
  <1>1. \A q \in Procs \ {p} : /\ UsesList(q)' <=> UsesList(q)
                               /\ LoadsList(q)' <=> LoadsList(q)
                               /\ ScansCalls(q)' <=> ScansCalls(q)
                               /\ CreatesCall(q)' <=> CreatesCall(q)
    BY DEF Frame, Aside, UsesList, LoadsList, ScansCalls, CreatesCall
  <1>2. Users' = IF UsesList(p)' THEN Users \cup {p} ELSE Users \ {p}
    BY <1>1 DEF Users
  <1>3. Loaders' = IF LoadsList(p)' THEN Loaders \cup {p} ELSE Loaders \ {p}
    BY <1>1 DEF Loaders
  <1>4. Scanners' = IF ScansCalls(p)' THEN Scanners \cup {p} ELSE Scanners \ {p}
    BY <1>1 DEF Scanners
  <1>5. Creators' = IF CreatesCall(p)' THEN Creators \cup {p} ELSE Creators \ {p}
    BY <1>1 DEF Creators
  <1>6. QED
    BY <1>2, <1>3, <1>4, <1>5

(* The counter of the calls is the number of scans, or -1 for the one      *)
(* process that adds a call while nobody scans.                            *)
LEMMA CallsBalancedStep ==
    ASSUME CallsBalanced, NEW p \in Procs, Frame(p), CallMove(p)
    PROVE  CallsBalanced'
  <1>1. /\ p \in Scanners <=> ScansCalls(p)
        /\ p \in Creators <=> CreatesCall(p)
    BY DEF Scanners, Creators
  <1>2. CASE CallsKept(p)
    <2>1. Scanners' = Scanners /\ Creators' = Creators
      BY <1>1, <1>2, HoldersMove DEF CallsKept
    <2>2. QED
      BY <1>2, <2>1 DEF CallsKept, CallsBalanced
  <1>3. CASE CallsJoined(p)
    <2>1. Creators = {}
      BY <1>3 DEF CallsJoined, SetGranted, CallsBalanced
    <2>2. p \notin Scanners /\ Scanners' = Scanners \cup {p} /\ Creators' = {}
      BY <1>1, <1>3, <2>1, HoldersMove DEF CallsJoined
    <2>3. QED
      BY <1>3, <2>1, <2>2, CountingSets DEF CallsJoined, AfterSet, CallsBalanced
  <1>4. CASE CallsLeft(p)
    <2>1. p \in Scanners /\ Scanners' = Scanners \ {p}
      BY <1>1, <1>4, HoldersMove DEF CallsLeft
    <2>2. Creators = {} /\ Creators' = {}
      <3>1. Creators = {}
        BY <2>1 DEF CallsBalanced
      <3>2. QED
        BY <1>4, <3>1, HoldersMove DEF CallsLeft
    <2>3. Cardinality(Scanners') = Cardinality(Scanners) - 1 /\ Cardinality(Scanners') \in Nat
      <3>1. IsFiniteSet(Scanners')
        BY <2>1, CountingSets, FS_RemoveElement
      <3>2. QED
        BY <2>1, <3>1, CountingSets, FS_CardinalityType
    <2>4. pcall_lock' = Cardinality(Scanners) - 1
      BY <1>4, <2>2, <2>3, CountingSets DEF CallsLeft, CallsBalanced, AfterRelease
    <2>5. QED
      BY <2>2, <2>3, <2>4 DEF CallsBalanced
  <1>5. CASE CallsTaken(p)
    <2>1. Creators = {} /\ Cardinality(Scanners) = 0
      BY <1>5 DEF CallsTaken, SetGranted, CallsBalanced
    <2>2. Scanners = {}
      BY <2>1, CountingSets, FS_EmptySet
    <2>3. Scanners' = {} /\ Creators' = {p}
      BY <1>5, <2>1, <2>2, HoldersMove DEF CallsTaken
    <2>4. QED
      BY <1>5, <2>3 DEF CallsTaken, AfterSet, CallsBalanced
  <1>6. CASE CallsGiven(p)
    <2>1. Creators = {p} /\ Scanners = {} /\ pcall_lock = -1
      BY <1>1, <1>6 DEF CallsGiven, CallsBalanced
    <2>2. Scanners' = {} /\ Creators' = {}
      BY <1>6, <2>1, HoldersMove DEF CallsGiven
    <2>3. QED
      BY <1>6, <2>1, <2>2, FS_EmptySet DEF CallsGiven, AfterRelease, CallsBalanced
  <1>7. QED
    BY <1>2, <1>3, <1>4, <1>5, <1>6 DEF CallMove

(* The counter of the queues is the number of users, or -1 for one that    *)
(* loads and is alone.                                                     *)
LEMMA QueuesBalancedStep ==
    ASSUME QueuesBalanced, NEW p \in Procs, Frame(p), QueueMove(p)
    PROVE  QueuesBalanced'
  <1>1. /\ p \in Users <=> UsesList(p)
        /\ p \in Loaders <=> LoadsList(p)
    BY DEF Users, Loaders
  <1>2. CASE QueuesKept(p)
    <2>1. Users' = Users /\ Loaders' = Loaders
      BY <1>1, <1>2, HoldersMove DEF QueuesKept
    <2>2. QED
      BY <1>2, <2>1 DEF QueuesKept, QueuesBalanced
  <1>3. CASE QueuesJoined(p)
    <2>1. Loaders = {}
      BY <1>3 DEF QueuesJoined, SetGranted, QueuesBalanced
    <2>2. Loaders' = {} /\ p \notin Users /\ Users' = Users \cup {p}
      BY <1>1, <1>3, <2>1, HoldersMove DEF QueuesJoined
    <2>3. pmohq_lock' = Cardinality(Users) + 1
      BY <1>3, <2>1 DEF QueuesJoined, AfterSet, QueuesBalanced
    <2>4. QED
      BY <2>2, <2>3, CountingSets DEF QueuesBalanced
  <1>4. CASE QueuesLeft(p)
    <2>1. p \in Users /\ p \notin Loaders
      BY <1>1, <1>4 DEF QueuesLeft
    <2>2. Loaders = {}
      BY <2>1 DEF QueuesBalanced, Loaders
    <2>3. ~LoadsList(p)'
      BY <1>4, PlacesApart DEF QueuesLeft, UsesList, LoadsList
    <2>4. Loaders' = {} /\ Users' = Users \ {p}
      BY <1>4, <2>2, <2>3, HoldersMove DEF QueuesLeft
    <2>5. pmohq_lock = Cardinality(Users) /\ pmohq_lock \in Nat /\ pmohq_lock # 0
      <3>1. Cardinality(Users) # 0
        BY <2>1, CountingSets, FS_EmptySet
      <3>2. QED
        BY <2>2, <3>1, CountingSets DEF QueuesBalanced
    <2>6. QED
      BY <1>4, <2>1, <2>4, <2>5, CountingSets DEF QueuesLeft, AfterRelease, QueuesBalanced
  <1>5. CASE LoadBegun(p)
    <2>1. pmohq_lock = 1 /\ p \in Users
      BY <1>1, <1>5 DEF LoadBegun, ChangeGranted
    <2>2. Loaders = {} /\ Cardinality(Users) = 1
      BY <2>1 DEF QueuesBalanced
    <2>3. Users = {p}
      BY <2>1, <2>2, CountingSets
    <2>4. UsesList(p)'
      BY <1>5 DEF LoadBegun, LoadsList, UsesList
    <2>5. Loaders' = {p} /\ Users' = {p}
      BY <1>5, <2>2, <2>3, <2>4, HoldersMove DEF LoadBegun
    <2>6. QED
      BY <1>5, <2>5 DEF LoadBegun, AfterChange, QueuesBalanced
  <1>6. CASE LoadEnded(p)
    <2>1. p \in Loaders /\ Users = {p} /\ pmohq_lock = -1
      BY <1>1, <1>6 DEF LoadEnded, QueuesBalanced
    <2>2. Loaders = {p}
      BY <2>1 DEF QueuesBalanced
    <2>3. Loaders' = {} /\ Users' = {p}
      BY <1>6, <2>1, <2>2, HoldersMove DEF LoadEnded
    <2>4. pmohq_lock' = 1
      BY <1>6, <2>1 DEF LoadEnded, ChangeGranted, AfterChange
    <2>5. QED
      BY <2>3, <2>4, CountingSets DEF QueuesBalanced
  <1>7. QED
    BY <1>2, <1>3, <1>4, <1>5, <1>6 DEF QueueMove

(* The table is edited, or the server stops: nobody moves.                 *)
LEMMA NobodyMoves ==
    ASSUME ControlOK, LocksOK, UNCHANGED <<locks, pc, job>>,
           phase' = phase \/ (phase' = "stopped" /\ \A p \in Procs : pc[p] = "idle")
    PROVE  ControlOK' /\ LocksOK'
  <1>1. ControlOK'
    BY PlacesApart
    DEF ControlOK, ControlTypes, PhaseTypes, PhaseOK, Fits, Busy, Initialising
  <1>2. /\ Users' = Users /\ Loaders' = Loaders
        /\ Scanners' = Scanners /\ Creators' = Creators
    BY DEF Users, Loaders, Scanners, Creators, UsesList, LoadsList, ScansCalls, CreatesCall
  <1>3. QED
    BY <1>1, <1>2 DEF LocksOK, QueuesBalanced, CallsBalanced, locks

(* Every step keeps the control and the counters in order.                 *)
LEMMA ControlStep ==
    ASSUME TypeOK, ControlOK, LocksOK, phase = "up" => EntriesOK, [Next]_vars
    PROVE  ControlOK' /\ LocksOK'
  <1>1. ASSUME NEW p \in Procs, Start(p) \/ (Work(p) /\ UNCHANGED lifeVars)
        PROVE  ControlOK' /\ LocksOK'
    <2>1. Orderly(p)
      BY <1>1, ProcessControl
    <2>2. QED
      BY <2>1, CallsBalancedStep, QueuesBalancedStep DEF Orderly, LocksOK
  <1>2. CASE EditTable /\ UNCHANGED lifeVars
    <2>1. UNCHANGED <<locks, pc, job, phase>>
      BY <1>2 DEF EditTable, Edited, lifeVars
    <2>2. QED
      BY <2>1, NobodyMoves
  <1>3. CASE ModDestroy
    BY <1>3, NobodyMoves DEF ModDestroy
  <1>4. CASE UNCHANGED vars
    BY <1>4, NobodyMoves DEF vars, qvars, lifeVars
  <1>5. QED
    BY <1>1, <1>2, <1>3, <1>4 DEF Next

(* And so does the beginning.                                              *)
LEMMA ControlInit == Init => ControlOK /\ LocksOK
  <1> SUFFICES ASSUME Init PROVE ControlOK /\ LocksOK
    OBVIOUS
  <1>1. phase = "down" /\ \A p \in Procs : pc[p] = "idle" /\ job[p] = IdleJob
    BY DEF Init
  <1>2. ControlTypes
    BY IdleJobType, PlacesApart DEF Init, ControlTypes
  <1>3. \A p \in Procs : Fits(p)
    BY <1>1, PlacesApart DEF Fits, ScanPlaces
  <1>4. ControlOK
    BY <1>1, <1>2, <1>3 DEF ControlOK, PhaseOK, PhaseTypes, Busy
  <1>5. Users = {} /\ Loaders = {} /\ Scanners = {} /\ Creators = {}
    BY <1>1, PlacesApart DEF Users, Loaders, Scanners, Creators, UsesList, LoadsList, ScansCalls, CreatesCall
  <1>6. LocksOK
    BY <1>5, FS_EmptySet DEF Init, LocksOK, QueuesBalanced, CallsBalanced
  <1>7. QED
    BY <1>4, <1>6
=============================================================================
