# mohqueue in TLA+

Models, model checking and proofs of the Kamailio module *mohqueue* (this
repository): callers are answered, hear music on hold, and are handed to an
operator with REFER. The module runs inside Kamailio's worker processes, which
share one call table and one queue list in shared memory, guard them with two
hand-made readers/writer locks, and mirror the calls into a database table.
File and line references are to the repository: `mohq_funcs.c:2690`.

## 1. The system

| Part | State | Operations | Talks to |
|---|---|---|---|
| Lock (`mohq_locks.c`) | one counter per lock: -1 exclusive, 0 free, n shared | `mohq_lock_set` (polls), `_change`, `_release`, `_init`, `_destroy` | everything below |
| Call table (`mohq_funcs.c`) | `call_lst[moh_maxcalls]`: state, Call-ID, To tag, transaction hash/label, times, queue pointer | `find_call`, `create_call`, `close_call`, `delete_call`, `end_RTP` | call lock, status table, RTP proxy, tm |
| SIP handlers | none of their own | `mohq_process` → `first_invite_msg` (with `send_prov_rsp`, `send_rtp_answer`), `reinvite_msg`, `ack_msg`, `prack_msg`, `bye_msg`, `cancel_msg`, `notify_msg`, `deny_method` | queue lock (shared for the whole handler), call table |
| Transfers | `refer_time`, `call_referto` | `mohq_retrieve`, `refer_call`; callbacks `invite_cb`, `refer_cb`, `bye_cb` | call lock (shared), tm |
| RPC | none | `mohqueue.drop_call`, `mohqueue.debug` | both locks, `close_call` |
| Status table (`mohq_db.c`) | rows of `mohqcalls`, `call_status` = state / 100 | `add_call_rec`, `update_call_rec`, `delete_call_rec`, `clear_calls` | database |
| Queue list (`mohq_db.c`) | `mohq_lst[]`, `mohq_cnt`, `mohq_update` | `update_mohq_lst`, `find_queue`, `find_qname`, `update_debug`, `mohq_send` | database, queue lock |
| Counting | none | `mohq_count` | call lock (shared) |
| Life cycle (`mohqueue_mod.c`) | shared memory, bindings | `mod_init`, `mod_child_init`, `mod_destroy`, `init_cfg`, `init_db` | all |
| Text | none | `search_hdr_ext`, `addstrbfr`, `form_dialog`, `form_rtp_SDP`, `find_MOH`, `start_stream`, `stop_stream` | file system, rtpproxy |

What makes each part correct:

* the lock: the counter tells the truth about its holders, a writer is alone,
  a refusal was earned, and no call blocks;
* the call table: a call occupies one slot; a slot that is freed stays free until
  `create_call` fills it; both locks are left as they were found on every path;
* the handlers: a caller is in queue only with music playing; messages in a
  wrong order change nothing; every handler comes to its end;
* transfers: one transfer at a time per call, and a transfer that fails leaves
  the call queued as before;
* the status table: a row for each call and for nothing else, with the status
  the call has;
* the queue list: it is what the table said at the last complete load; a handler's
  queue does not move under it; (by the documentation) nor does the queue of a call;
* counting and retrieving: calls that wait all the time are counted and ranked by age,
  whatever other handlers do meanwhile;
* the life cycle: what is allocated is released, once;
* text: a header's extensions are found as whole words; a call record fits its buffer
  and every field is read back.

What makes it hard. `mohq_process` gives up the call lock as soon as it has found
the slot (`mohq_funcs.c:2750`); from then on handlers read and write `call_state`
of the slot with no lock, beside other handlers, RPC commands and callbacks. A
handler can sleep 32 s in the PRACK wait (2006-2018). States are stored after the
reply they stand for is sent (1991/1997, 2257/2263). `delete_call` asks for the
exclusive call lock, also from loops that hold it shared (694, 2562, 2894).
Callbacks keep a bare pointer to a slot. Every outside call can fail.
`PROJECT.json` lists these hazards one by one, at their lines, with the
properties that watch them.

## 2. The modules

    RWLock                          a readers/writer lock that knows its holders
      ^ refined by
    MohqLock  --uses-->  LockRecord <--uses--  CallTable        QueueList
      ^                                          ^ extends        ^ extends
    MohqLock_proofs                            SipHandlers      QueueUsers
                                                 ^ extends        ^ extends
    QueueService  <--refined by--  Mohq  --->  Transfers        LifeCycle
                                    ^                             ^
                                    |                             |
        MCMohq, MohqClaims, MohqTypes_proofs            MCQueues, QueueClaims,
                              ^ extends                 LifeCycleLocks_proofs
                            Mohq_proofs                           ^ extends
                              ^ extends                 LifeCycle_proofs
                            MohqSerial_proofs
                              ^ extends
                            MohqService_proofs

    HeaderSearch, CallRecord  <--extends--  MCText, Text_proofs

* **LockRecord** — what one pass between `lock_get` and `lock_release` does to
  the counter. Both models below use it.
* **MohqLock** — the lock with its users. `lock_cnt` and `nms_cnt` are the code's;
  `held`, `want`, `asked`, `tries`, `result` are what the callers know. One pass of
  the polling loop of `mohq_lock_set` is one step (`SetTake`, `SetMiss`), so that
  others run in between.
* **RWLock** — the promise: sets of readers and writers.
* **CallTable** — the shared variables and the operations all handlers are made
  of. `call_state`, `call_id`, `call_tran` are fields of `call_lst` (`call_tran`
  stands for `call_hash`/`call_label`); `pcall_lock`, `pmohq_lock` the counters;
  `db` the status column of each call's row; `rtp` the session at the proxy; `tm`
  the transactions that owe a callback; `ua` what the caller has seen, which
  decides what it may send; `pc` and `job` where each process is, in which handler,
  at which slot.
* **SipHandlers** — `mohq_process` and all handlers.
* **Transfers** — `mohq_retrieve`, `refer_call`, `drop_call`, `debug`, callbacks.
* **Mohq** — composition, fairness, properties.
* **QueueService** — the promise to callers, one phase per call: none, entering,
  queued, transferring, ending, gone. `Phase` in Mohq is the refinement mapping.
* **MohqClaims** — what documentation and comments say of calls and the code does not keep.
* **QueueList** — the list of queues and `update_mohq_lst`. `rows` is the table, `mem`
  the blocks of shared memory lists can have, `pmohq_lst` and `mohq_cnt` the code's;
  `calls` is `call_lst` reduced to its state (free, busy, queued), its `pmohq` (block and
  index) and `call_time`. `loaded` (the rows of the last complete load) and a call's
  `joined` (the queue it entered) are history.
* **QueueUsers** — what reads the list: `mohq_process` with `find_queue`, `find_call`
  and `create_call` under the queue lock; `find_qname` with `mohq_count`,
  `mohq_retrieve` and `drop_call`, which use the index it returns without the lock.
  A handler is here one step that changes its call's state, or frees it (`Handle`):
  what it does is the subject of SipHandlers. Only `AddCallRec` is apart: who creates a
  call holds the call lock until the row is added. A scan ends with `EndScan`; `mohq_count`
  without the call lock goes to `SetResult` instead, with the same outcome for its caller. Reading through a pointer into freed memory gives any id.
* **LifeCycle** — `mod_init` with all its ways out, `mod_child_init`, the running
  server (QueueList and QueueUsers), `mod_destroy`; `shm` says what became of each
  object in shared memory.
* **QueueClaims** — what the README says of redefined queues and of the count of calls and
  the code does not keep.
* **HeaderSearch** — `search_hdr_ext`, a step per turn of its loops, with `npos1` and
  `npos2`, and what a word is.
* **CallRecord** — `addstrbfr`, the packing of `call_buffer` in `create_call`, the To
  tag `first_invite_msg` adds, and reuse. Strings are lengths, a cell of the buffer
  says whose byte it holds.
* **MCMohqLock, MCMohq, MCQueues, MCText** — symmetry sets and instances for TLC.

### Steps

A step is the code from one call of the outside world (lock, database, tm, RTP
proxy) to the next. The order of sending and storing is the code's: `InviteAnswer`
sends 200 and `InviteAccept` stores `CLSTA_INVITED` in a step of its own, `Ack` tests
and `AckQueue` stores, `DeleteRow` works under the lock and `FreeSlot` after it. Tests
and writes with nothing between them but a stateless reply after the write
(`cancel_msg`, the first half of `bye_msg`) are one step; a finer grain would only
add interleavings of a kind that stale slots already give.

`mohq_lock_set` of up to 5000 passes is one step in the table model: it takes the
lock if it is free, and may give up only while it is taken. That every set
returns, and gives up only after all its tries, is the subject of MohqLock.
Where a refusal only makes the code return at once without any effect (a retrieve
that cannot get the lock, a message that cannot get the queue lock) the step is
simply not taken. `mohq_count` does not return: refused the queue lock in `find_qname` or the
call lock, it goes on to a result of 0 (`FindQname`, `StartScan`, `refused` in `job`). For `find_qname`
the whole pass through the queue lock is one step.

Two merges of outside calls are left. `DeleteRow` takes the call lock, deletes the row
and releases the lock in one step, so that another process's `delete_call` never refuses it (its scans
and lookups do). `CloseCall` has `end_RTP` and the sending of BYE in one step.

`Overlap = FALSE` lets a process run only while the others are idle or in the PRACK
wait: the sequential meaning of the handlers. `Overlap = TRUE` is the real system.

### Abstractions

* In CallTable and its users there is one queue, and which call of two is older is a
  free choice in `RetrievePick`; QueueUsers has several queues and `call_time`, and
  knows of the handlers only which state they may leave.
* A call's headers, SDP and dialog are gone; what they lead to (refused, accepted,
  on hold, kind of the NOTIFY report) is a nondeterministic choice.
* `tm` is a set, so a second REFER for the same call, while the first is pending,
  shares its record.
* `call_time` and `refer_time` are gone. "32 s since the REFER" is the
  fault `silence`; "the minute is over" may be true at any message.
* The rows of `mohqcalls` have only their status. A reload (`BeginUpdate`) changes in
  CallTable the lock only; what it does to the list is QueueList.
* A row of `mohqueues` has id, URI and name. One with a bad URI, directory or no audio
  files is passed over by the code and so is not in `rows`; becoming usable is an edit
  of the table. The directory and file columns are taken over like the name. The debug
  column only controls logging and is left out.
* In QueueUsers a free slot's `pmohq` and `call_time` are forgotten unless a scan has
  chosen the slot, and a handler whose slot was freed leaves it free. In the code such a handler can
  make the slot active again (`claim_slot`), with the old `pmohq`: QueueUsers says nothing of that.
* CallRecord adds a Via or Route line in one step; the code adds its three strings
  one by one, which fails in the same cases.
* Of `invite_cb` only `TMCB_DESTROY` is modelled, which every transaction reaches.
* `Faults` names what may fail and what callers may do: see `FaultNames` in CallTable.
* tm ends the transaction of an INVITE a few seconds after its final reply. By then the
  call may have ended and its slot have gone to another; that is the fault `late`. Without
  it `InviteCb` waits for no more than that its slot has not changed hands.

## 3. What is checked

| Run | Instance | Shows |
|---|---|---|
| `lock` | 3 processes, 2 retries, fair | types; counter = holders; exclusion; refusal only after all tries; no self-upgrade; every set returns; implements RWLock |
| `service` | serial, 2 calls, 2 slots, all messages, `drop_call`, retrieve | queued calls hear music; status table right; implements QueueService |
| `faults` | serial, 1 call, 2 slots, all operations and failures, fair handlers | a call is in one slot; every handler ends, the PRACK wait included |
| `overlap` | 2 processes overlapping, 1 call, 1 slot; INVITE, ACK, BYE, retrieve, drop; fair | types; locks balanced; no row vanishes and no slot changes hands under a scan; entering, referred and ending calls move on |
| `queues` | 2 processes, 2 slots, 2 ids, URIs and names, 2 blocks of memory, 2 seconds, 1 edit, 1 scan at a time | types; the list has the URIs and names of the table; handlers keep their queue; retrieve takes the oldest; a count that got both locks is right; memory released once |
| `text` | bodies up to 6 characters of 5; 2 messages of 2 lengths in 36 bytes | words found, and only words; buffer kept; fields read back |

Why the bounds are enough. Three processes on the lock are the least with two
sharers and a writer. One slot with two calls is the least in which a slot is reused
(`claim_glare`); two slots with one call the least in which a repeated INVITE could
take a second (`faults`); two calls and two slots the least in which one call's
handling could hurt another's and retrieve have a choice (`service`). No run of `service`
meets a full table: it has a slot for each call, and that an INVITE is turned away then is part of the theorem
`QueueServiceImplemented`, for any numbers of both. Two processes give every pairwise race. `overlap` has one call because
its liveness needs the whole graph; its three safety properties are theorems, for any
number of processes and calls, all operations and (but for one) all failures.
`MaxReaders` only bounds the counter of a lock that is never released (`debug`,
`leak`); elsewhere the counter is bounded by the processes.
In `queues` two rows are the least with a first and a last entry (the last one is
moved over a removed one), two blocks the least in which the list moves, and with
none left the load stops for want of memory; one edit changes, adds or removes a row at
any moment, also during a load, after the initial table was any; two seconds give calls of
equal and of different age in either slot. `MaxScans` keeps one process free for the
handlers that move calls beside a scan; two retrieves at once are `claim_refer`. In
`text` six characters hold two words and all separators around them; 36 bytes
hold some messages with a Via and a Route line, and not others, so that every string
of a record is the first one without room in some behaviour.

The `claim_*` runs each end in a counterexample, described under `findings` in
`PROJECT.json`: `drop_call` can leave rows behind; a
BYE that crosses ours makes the module drop the next caller who gets the slot; two
retrieves refer one call; a CANCEL (or PRACK) that comes late makes a free slot active
again; a reload with calls in queue leaves them pointing into freed memory; `mohq_count`
that is refused a lock returns TRUE and 0 though calls wait.

Other places where the code departs from its documentation, or where a property
holds only with a condition, are visible in the model:

* `close_call` and `bye_msg` do not update the row, so a call that was told BYE
  reads as queued (497; README:374-375). `StatusTableRight` exempts it.
* `mohqueue.debug` takes the call lock (2470) and, where its comment says "release lock" (2480), releases
  the queue lock (2489): the calls are locked for good. `LocksBalanced` is about servers without it.
* A call dropped by `drop_call` leaves its session at the proxy: `end_RTP` returns at
  once for `FAKED_REPLY` (769).
* Because of `claim_slot`, `overlap` has neither CANCEL nor PRACK, and
  `ImplementsQueueService` is about one message at a time. A BYE in the PRACK wait frees
  the slot under the waiting handler, which deletes whatever is in it later (1193):
  `early` and `glare` name such callers in `Faults`, and `service` has neither.
* `invite_cb` does not look whose call is in its slot (1431). When a transaction ends
  after the slot went to the next call, and that one is not yet in queue, it is deleted;
  if it was waiting for its PRACK, the handler that waits wakes to the call after it and
  deletes that one, in queue by then (three calls on one slot show it). This is the fault
  `late`, which `service` does not have.
* Because of `claim_count`, `CountsQueued` is about counts for which both locks were got.
* The `mohq_id` of an entry that is kept over a reload is not refreshed (`mohq_db.c:513-552`), also when the
  table has the same URI under another id: `ListMatchesTable` compares URIs and names.
* Because of `claim_queue`, `RetrievesOldest` and `CountsQueued` speak of scans that read
  nothing through a stale pointer (`bad`); a slot by slot comparison that does is
  free to do anything in the model.
* With no database a call gets no `call_time`, or that of the slot's previous call
  (`mohq_db.c:205`); `mohq_retrieve` takes 0 for none. `RetrievesOldest` assumes it set.
* When the last queue is removed and one is added, the old block is not freed
  (`mohq_db.c:594`); `queues` leaves at least one usable row (fault `empty` does not).
* If `lock_init` of the call lock fails, its memory is given back twice
  (`mohq_locks.c:110`, `mohqueue_mod.c:496`); the table of calls and the lock of the
  queues are never given back when `mod_init` fails. `Released` says what does hold.
* A comma or semicolon with a space before it is taken into the next word, which is
  then missed (1938-1945); `WellSpaced` is the condition of `SearchComplete`.

The properties of `service` are about the sequential meaning, with database and
proxy working, no crossing BYEs and no late end of a transaction.

### Fairness

`HandlerFairness`: a process in a handler takes its next step. Handlers sleep and
poll, they never block, so the operating system's scheduling is enough. In serial
instances the PRACK wait is enabled only while others are idle, hence the strong
fairness of `InviteWait`: the 32 s do pass.
`CallbackFairness`: tm makes the callbacks it owes. Its timers end every
transaction (`TMCB_DESTROY`) and answer 408 for a peer that is silent. The fairness is
strong, per kind, because a callback needs an idle process. Nothing is assumed of callers.

## 4. What is proved

For every value of the constants, by `tlapm`.

**MohqLock_proofs**, from `ProcsAssumption` (finitely many processes) and
`TriesAssumption`: `LockTypeCorrect`, `CounterTruthful`, `MutualExclusion`,
`RefusalsEarned`, `SelfUpgradeFails`, `LockRefines`. One inductive invariant carries
them: the counter equals -1 or the number of readers, there is at most one writer
and then no reader, and a process in `mohq_lock_set` has made as many passes as its
counter has lost. Exclusion alone is not inductive: grants are decided by the
counter, so the counter's meaning has to be carried along, and with it the
cardinality of the reader set under each step.

**MohqTypes_proofs** and **Mohq_proofs**, from `TableAssumption`:

* `ControlInvariant`, `TableTypeCorrect`: types, and `ControlOK`: where a process is
  fits what it is doing. Types alone are not inductive: a slot must be one of the
  table wherever a step writes it.
* `LocksAreBalanced`: both counters are what the processes inside account for, on
  every path of every handler, under every interleaving. Assumes that
  `mohqueue.debug` is not used and that the allocation of `refer_call` that leaks the
  lock succeeds: with either the property is false. The argument: a step of
  one process changes only whether that process is a reader, writer, user or
  updater (`Frame`), and moves each counter to match (`CallMove`, `QueueMove`).
* `ScansSeeAStableTable`: an action property, from the balance of the call lock: a
  step that gives a slot its Call-ID or removes a row needs the exclusive
  lock, so there is no reader.

**MohqSerial_proofs** and **MohqService_proofs**, for the sequential meaning
(`Overlap = FALSE`), any number of processes, calls and slots:

* `CallsHaveOneSlot`: all operations and failures, INVITEs sent again included. That
  there is one slot per call does not carry itself from step to step: `CreateCall`
  fills a slot on the strength of a lookup steps ago. `SerialInv` adds that at most one
  process is at work (`OneAtWork`), all others being idle or in the PRACK wait, and that what
  the one at work has read of the table still holds (`Informed`): found nothing means nothing is there.
* `StatusTableIsRight`: assumes that the database, tm, and the allocations work, no INVITE is
  sent again and `debug` is not used. Each of these really breaks it. A send
  that fails makes `delete_call` run in a loop that holds the lock (`claim_rows`), and
  `debug` leaves it held for good: the row stays. An INVITE sent
  again can get a slot of its own after the first has left; when the first one's transaction
  ends, `invite_cb` removes the row the two share. `OnceInv` says what not sending again gives:
  a call gets one slot, ever. `RowsInv` follows each row: it is there for as long as the call
  is `Kept` (from `CreateCall` to `DeleteRow`, not to `FreeSlot`), and right when the call is
  `Settled` (nobody is about to update it); and no deletion runs inside a loop that holds the
  lock (`NoLoopDeletes`), for it would be refused.
* `QueuedCallsHearMusic`: assumes that the proxy works and no INVITE is sent again.
  `MusicInv` follows the answer: the music starts when the 200 is sent, before the state says
  so, and a process that is going to store `CLSTA_INQUEUE` works on a call that plays. The
  stop of the music in `end_RTP` is right because a call that gets there never goes back into
  the queue.
* `QueueServiceImplemented`: the refinement of QueueService, by `CalmInvariant`.
  `PhasesAreRead` gets rid of the `CHOOSE` in `Phase`: with one slot per call a
  call's phase is that of its slot, and without a slot it is new or gone. Then `StateMoves`
  says which states a step can lead from and to, and `ServiceMoves`, `LookupServes` and
  `CreateServes` name the move of QueueService for each; that there is room is counted, the calls
  present having different slots and the one being filled having none (`RoomForOne`). Two
  moves need more than the state: a call that is freed must not be in queue, and one that is told to
  end must still be there when its BYE is answered. `CalmInv` says so (`Deleting`, `ByesOwed`) and why: who
  waits for a PRACK has the call to itself (`Entering`), only one process has the first INVITE of a caller
  (`OneInvite`), no BYE crosses another (`NoCrossing`), no drop runs beside a wait
  (`DropsAlone`) and `close_call` is not called for an early call (`Closing`).

  Six faults are excluded, and each breaks a promise in a run of TLC: `mem`, `close_call` without memory
  deletes a queued call at once; `tm`, a call whose BYE was sent is deleted by another way
  and its slot given away before `bye_cb`; `resend`, a call that is gone comes again; `early`, `glare`, a BYE or drop
  frees the slot under a handler or a callback that deletes who comes next; `late`,
  the end of an INVITE transaction does (three calls, one slot). The failures of the database, of
  stateless replies, of the proxy, the leaked lock and a silent operator are allowed.

**LifeCycleLocks_proofs** and **LifeCycle_proofs**, from `ListAssumption`, the whole of
`mod_init` to `mod_destroy` with any number of processes, queues, calls, edits and blocks of memory:

* `TypesCorrect`, `ListFollowsTable`, `QueueStaysPut`, `OldestIsRetrieved`, `QueueIsCounted`
  from one invariant, `LifeCycleInv`. Its core are the counters of the two locks: with them,
  a process in `update_mohq_lst` is alone with the list (so a handler's index stays
  good), and one that is about to fill a slot is alone with the calls. While the list
  is loaded the invariant says, row by row, what part of the block already is the
  table. For a scan it says what the slots passed so far have contributed: the best is no
  younger than every kept call passed, the count lies between kept and seen calls passed. Kept
  can only shrink and seen only grow while other handlers move calls, which is why the
  scans need no more than the shared lock. Who creates a call is alone with the call lock until
  its row is added (`CreatesCall`).
* `MemoryIsReleased`: assumes that the table is never emptied (`empty` not in `QFaults`). The
  code loses the block otherwise (`mohq_db.c:594`, section 3).

**Text_proofs**, from `SearchAssumption` and `RecordAssumption`:

* `FoundIsThere`, `WhatIsThereIsFound`: `search_hdr_ext` for bodies of any length. The
  invariant says where words can begin (`SkipInv`), that from the second character on
  a word has no separator (`WordInv`; the first may be a comma), and that the extension
  does not occur in what was passed over (`PassedInv`). The heart is `EndWordKeeps`: two
  words of the body that begin at the same place are the same.
* `BufferIsEnough`, `FieldsAreReadBack`: call records of any size and content. The
  strings of a message form a chain of fields in a fixed order (`MessagesOrdered`, from
  `RunConcat` about joining chains); fields before the one being added are complete and
  lie before `pbuf`, so what is added there cannot disturb them; the tag is last, so
  writing over it disturbs none.

Only model-checked: everything under fairness (`SetReturns`, `HandlersEnd`, `EnteringEnds`,
`ReferEnds`, `ByeEnds`): the prover does not do liveness or `ENABLED`.

## 5. What is not modelled

* Formatting: `form_dialog`, `form_rtp_SDP`, the text of answers; the logging of
  `mohq_debug`, and with it `update_debug` and the flag `mohqueue.debug` sets (its locks
  are in Transfers).
* `mohq_send` (2943-3004): it changes no state of the module. It looks up a queue with
  `find_qname`, writes the URI into the message it was called for and has tm relay it
  to the server, where it arrives as any INVITE.
* `find_MOH` (file system), `start_stream` and `stop_stream` (calls of the proxy module),
  the checks of the parameters in `init_cfg`: only their outcomes are there.
* Private memory passed between processes (`call_pmsg`, 680).

## 6. Plan

Done, in this order: LockRecord, RWLock, MohqLock and its proofs; CallTable,
SipHandlers, Transfers, QueueService, Mohq, claims; types, lock balance and stable scans
proved; QueueList, QueueUsers, LifeCycle, queue claims; HeaderSearch and CallRecord
with their proofs.

LifeCycle proved, then one slot per call, the status table and the music in the sequential meaning,
and from them the refinement of QueueService.

To come: nothing that a run checks and the prover can do is unproved. Left are invariants for the
interleaved meaning (`Overlap` TRUE) where the code keeps a promise there too.

## 7. Running

    tlc -workers 2 -config <run>.cfg <module>.tla     (module of the run: PROJECT.json)
    tlapm MohqLock_proofs.tla
    tlapm MohqTypes_proofs.tla && tlapm Mohq_proofs.tla
    tlapm MohqSerial_proofs.tla && tlapm MohqService_proofs.tla
    tlapm LifeCycleLocks_proofs.tla && tlapm LifeCycle_proofs.tla
    tlapm Text_proofs.tla

`PROJECT.json` maps each definition to the lines it stands for and names for each
property a slip in the code (an operator marked "A plausible slip" in the
modules) that the property detects.
