# A verification project for c-logger

c-logger is a C11 logging library: threads hand records to a logger instance,
a worker thread writes them in batches to a console, a file and syslog, and a
default slot lets code log without carrying a handle. This directory holds TLA+
modules translated from `src/src`, the TLC configurations that check them on
small instances, and TLAPS proofs of their safety properties for instances of any
size.

`PROJECT.json` lists the runs, maps every definition to the lines it models and
lists the hazards the properties are aimed at. Line numbers below refer to
`src/src`.

## 1. The system

| Component | State | Operations | Talks to | What is hard |
|---|---|---|---|---|
| Queue and spill pool (`logger_queue.c`) | ring of slots with sequence numbers, `enqueue_pos`, `dequeue_pos`, bitmap of spill blocks | push, try_pop, drain, empty, depth | producers, worker | lock-free reservation, wrapped positions, plain memory guarded by sequence numbers |
| Sleep and wake-up (`logger_queue.c/.h`, `logger_worker.c`) | `consumer_waiting`, `wait_mu`, `wait_cv`, `running` | notify_if_waiting, wake_force, the worker's waiting loop | producers, worker, whoever stops it | Dekker's pattern on weak memory |
| Logger instance (`logger.c`, `logger_worker.c`) | `state`, latched errors, `completed_pos`, counters, `emit_mu`, `progress_mu`, `progress_cv` | create, log, log_sync_status, flush, destroy, the worker | queue, outputs, default slot | failing locks, waits, threads and outputs at every point; who wakes whom; when may it be freed |
| Default slot (`logger_global.c`) | `g_ticket` (generation and phase), `g_logger`, `g_control_mu`, `g_lifetime_lock`, `default_borrowed` | `logger_default_set`, every default API, the check in `logger_destroy` | instances, host | stale readers, pointer reuse, reader preference, failing releases |
| File output (`logger_file.c`, `logger_file_rename.c`) | descriptors, `detached`, `dir_dirty`, sizes, day, last archive time; lock file, directory, files | open, append, sync, rotate, retention, reopen, close | `emit_mu` holders, other processes, rotation tools | crashes between system calls, partial failures, clocks set back |
| Syslog output (`logger_syslog.c`) | socket, `retry_from_ms`, `retry_clock_pending`, metrics | init, write with at most one reconnect, close | `emit_mu` holders, the daemon, the monotonic clock | interrupted and short sends, a clock that fails or runs back in the cool-down |
| Process domain (`logger_process.c`, `logger_runtime.c`, `logger_scope.c`) | `process_ticket`, `owner_pid`, `forked_child`, the mapped domain with its mutexes, allocations and live count | init, enter, leave, calloc, free, child rejection and re-initialisation, unload | every API, fork | first entries racing, fork at any point of them, failures half-way |
| Descriptor registry (`logger_fork_fd.c`) | registered descriptors, `resource_mu`, the thread's snapshot | open, close, directory leases; prepare, parent and child handlers | outputs, fork, the host's own descriptors | fork against open and close, numbers reused by the host, lock order |
| libc coordination (`logger_libc.c`) | `format_mu` | calls of vsnprintf, strftime, fflush and the like | every formatter, fork | nested calls, its order with `resource_mu` |
| Lock order checker (`logger_lockdep.c`), fault injection, console printer, formatting, redaction | debug or pure | | | |

The correctness of each, in a sentence: the queue is a bounded FIFO that refuses
only when full; the worker never sleeps on a published record or on a stop that
was announced with a wake-up; flush, confirmed writes and destroy never report a success they did not have, and
return; a default call uses the instance it saw or none, and never a freed one;
a record reported safe survives a crash of the machine under some name; the
outputs that reconnect do so neither in a storm nor never; a forked child never
touches the parent's objects.

## 2. Modules

### MpscQueue, BoundedFifo, MpscQueueProofs

`MpscQueue` is `logger_queue.c` with one action per access to shared memory.
Variables hold unwrapped positions; every operation the code applies to
positions (index, equality, signed comparison) is applied to the value modulo
`PosMod`, so a run that starts just below the wrap (`Start = 14`,
`PosMod = 16`) crosses it. A push is the actions `Begin`,
`SpillTake`/`SpillNextWord`/`SpillExhausted`, `SpillCopy` (spill block),
`LoadPos`, `CheckFree`/`CheckFull`/`CheckStale`, `Reserve`/`ReserveFails`,
`Pack`, `Publish`, and `Reject` on the way out; a pop is `Test`, `Unpack`,
`PutBlock`, `Reuse`, `Advance`; `Depth` makes its two loads in two steps.
The record of a slot and the text of a spill block are separate variables that
hold a message name, so that a torn or overtaken copy shows.

`BoundedFifo` is the promise: at most `Cap` messages, each entering once,
delivered whole and in order. `RefinesFifo` maps `tail` to `enqueue_pos`,
`head` to `dequeue_pos` (one more once the record has been copied out), and what
was delivered to header and text of the popped record.

### QueueWakeup, QueueWakeupProofs

The handshake under the release/acquire memory model: `stored` is the set of
one-shot stores executed, `view[t]` those that happen before thread `t`; a load
must see what is in the view and may see more. The acq_rel read-modify-write of
`consumer_waiting` and the mutex exchange views. This is the module that would
notice a plain load in `logger_queue_notify_if_waiting`.

`running` is cleared in three ways. `StopQuiesced` is `logger_destroy` and
`StopAbrupt` a log call whose notification failed (logger.c:261-275); both go on to
`logger_queue_wake_force`, which makes the stop announced (`StopIsAnnounced`).
`StopSilent` is `logger_note_synchronization_error` after a failed unlock
(logger_worker.c:203, logger.c:1107, 1210, 1275): it wakes nobody, and
`logger_destroy` then returns at the latched error (logger.c:766-773) without a
wake-up and without the join. A worker that was asleep sleeps on; its logger is
kept (`LifetimesNest`), so nothing is freed under it. `docs/v2/QUEUE_WAKEUP_PROOF.md`
(366) says that the worker's loop exits once `running` is 0, which the code does not
do for these stops. `NoLostWakeup` and `StopIsObeyed` therefore speak of announced
stops only; what they say of records holds after a silent stop too.

### AsyncLogger, AsyncLoggerProofs, AsyncLoggerPromises

One instance from `logger_create` to `logger_destroy`: producers, flushers, the
worker and the host, in asynchronous and synchronous mode (`l.async_mode`). The
queue is the FIFO that `MpscQueue` implements, with publication out of order.
Every pthread and output call may fail (`FaultKinds`, at most `MaxFaults`); a
failed unlock may or may not have released the mutex, and `unproven` remembers
it. The two functions that record errors are three separate stores (`NoteStep`),
because other threads test them one by one. `written` and `durable` abstract the
outputs: what is still written becomes durable with a successful file sync.
A failed sync may lose what was written and not yet durable, and a later
successful sync does not bring it back (`StillWritten`), so that the answers of a
later flush and of `logger_destroy` rest on the latched `first_error`.
`logger_create` acquires its parts one by one in the order of `Construction`
(`Acquire`, `StartWorker`, `PublishRunning`); `l.built` is what `struct
logger_ctor_state` and the pointers of the instance say is there. Any part may
fail, and `Rollback` and `Release` give the rest back in the order of
`Destruction`, stopping, as the code does, at the first part whose quiescence is
not proved. Atomics are sequentially consistent here. Records of `logger_log`
are below `flush_level`; a record that must be synced takes the path of
`logger_log_sync_status`. Calls that return before they touch the instance (a level
that is filtered out, a clock or a `vsnprintf` that fails) change nothing and are no
steps.

### GlobalBinding, GlobalBindingProofs

`logger_global.c` with every load, compare-and-swap, lock and unlock as a step,
and the host that destroys an instance and may get a new one at the same
address. As `docs/v2/DEFAULT_BORROW.md` asks of the host, an instance named by a
`logger_default_set` in progress is not destroyed. What a reader does with the
instance is one abstract use.

### FileBackend, FileBackendProofs

`logger_file.c` with one action per system call that changes the file system.
The directory is a history since its last sync: a crash leaves any of its past
versions (an ordered journal), and of each file what was synced and any part of
the rest. A failed `fsync` loses the pages for later syncs too. A killed process
loses its descriptors and locks, not the page cache. The lock file is never
removed (`docs/FILE_BACKEND.md`), the target is a regular file (the character
device branch is left out) and the crash keeps a file's length. Rotation
settings are the variable `rotation`, chosen once from `Rotations`.

### SyslogBackend, SyslogBackendProofs

`logger_syslog.c` with one action per system call: the clock, the socket with
its `connect`, each `send`, and the loss of an association. Only a `connect` that
finds no daemon lets a deferred start go on; a `socket` that fails never does.
An interrupted `send` is taken to have delivered nothing, as POSIX has it for a
datagram. The daemon stops and
starts at any moment; a socket connected to a daemon that has stopped is "stale"
for ever, even when another daemon listens. `m` is what the current call adds
to the metrics, so that the counters stay bounded. Clock readings lie in a
window that moves with the clock, which is sound because the code only compares
and subtracts them; `since_attempt` and `since_loss` measure the true time that
the code cannot see. `MaxFaults` bounds failing calls and clock jumps, not the
daemon's restarts.

### ProcessDomain, ProcessDomainProofs

`logger_process.c`, `logger_runtime.c`, `logger_scope.c`, `logger_fork_fd.c` and
`logger_libc.c` together, because fork takes all their locks. Parent and child
share no memory: a behaviour follows one process, and a fork is a choice between
going on as the parent (`ForkParent`) and as the child (`ForkChild`, then
`ChildHandler`). `kernel` says who holds each descriptor number and mapping:
"inherited" is what a child got from its parent's library, "host" what the host
opened. Forks come with handlers, without (before registration, or as a raw
system call), from inside the library and nested in another handler of the host.
Children follow the contract of `include/logger.h` (336): they call
`logger_process_init` while they have one thread, and the host does not close
the library's descriptors. The bitmap of descriptors is a set; a thread inside
any API is at "scope", from where it makes any resource or libc call.

## 3. Runs

Every run takes about two minutes or less with two TLC workers. All set
`CHECK_DEADLOCK FALSE`, because the number of calls is bounded and a system in
which every call has returned stops.

| Run | Properties | Shows | Instance |
|---|---|---|---|
| `queue_safety` | TypeOK, SlotExclusive, DeliveredInOrder, SpillBlocksOwned, ReportsAreHonest, IndInv, RejectOnlyWhenFull, RefinesFifo | exclusive slots, whole messages in order, no leaked block, refusal only when full, honest outcomes and depth, refinement of the FIFO | 2 producers with 2 pushes each, 1 observer, 2 slots, 2 blocks in one word; 4 positions across the wrap: each slot is used on two laps, the queue fills, a producer is overtaken |
| `queue_live` | ReservedIsConsumed, PushReturns | a producer that stops anywhere delays no other push, and only its own position blocks the consumer | 3 producers, one of which fairness does not run; one block per bitmap word, so that the search moves between words |
| `wakeup` | NoLostWakeup, NothingLeftBehind, HeadIsConsumed, StopIsObeyed | the handshake on weak memory | 2 producers, 2 records: the worker sleeps, is woken, and sleeps again |
| `async_safety` | TypeOK, FlushIsHonest, ConfirmedIsDurable, EveryRecordCounted, LifetimesNest, DestroyIsHonest | no false success, no record counted twice or not at all, no part released while somebody can use it, roll-back of every partial construction | both modes, capacities 1 and 2, 2 producers with either call, a flush, any one failure: full queue, holes before a flush's target, batches of two |
| `async_live` | FlushReturns, LogReturns, DestroyReturns | everything returns after any one failure that leaves the mutexes known | both modes, 1 producer, 1 flush |
| `async_lostwake` | ExitWakesWaiters (violated) | finding 1 | 2 producers, 1 flush, one failed unlock of `emit_mu` |
| `async_relock` | UnprovenLockUntouched (violated) | finding 2 | 1 producer, 1 flush, one failed unlock of `progress_mu` |
| `async_rollback` | DoubtKeepsMemory (violated) | finding 3 | 1 producer, 1 flush, a failed lock of `wait_mu` and a failed unlock of `progress_mu` |
| `global` | TypeOK, BorrowedIsAlive, ReaderKeepsGeneration, RebindIsFresh, RebindReturns | no use after free, no redirected reader, no ABA, and a rebinding under load returns | 1 reader that calls without end, 2 controllers, 1 address reused, 3 generations (bind, unbind, bind), one failing lock call |
| `file` | TypeOK, OneWriter, ConfirmedSurvives, ArchivesInOrder, SizeBounded, ArchivesAreSealed | one writer, no confirmed record lost, archives ordered, bounded and sealed | 2 loggers on one file, rotation by a tool, by size, or by size and day with retention; 2 to 4 writes, clock set back and forth, all archive names taken, one failing call, one kill or crash anywhere |
| `syslog` | OneDatagramPerRecord, NoReconnectStorm, DeliveryResumes | no record sent twice, no reconnect within the interval of true time, delivery in the end | both startup modes, interval 2, 4 send attempts, 4 failing calls or clock jumps, a daemon that restarts without bound |
| `process` | ChildIsClean, DomainIsSound, ForkReturns | a usable child holds nothing of its parent's, nobody works on a foreign domain, fork never deadlocks | 2 threads, 1 descriptor number that library and host share in turn, 1 mapping, 2 forks (a child of a child, or nested), one failing call |

Every property of a passing run has a mutant in `PROJECT.json`: an operator next
to the definition it replaces, with a plausible bug, under which TLC finds the
property violated.

### Bounds

`MaxPos`, `MaxCalls`, `StallWindow`, `MaxFaults`, `MaxGeneration`, `MaxClock`,
`MaxStamp`, `MaxInodes`, `MaxWrites`, `MaxControls`, `MaxCrashes`, `MaxForks` and
`MaxObjects` bound the runs and are named in the guards. The `file` run also has
a state constraint, `Explored`, which spends the bounds where each rotation
policy needs them: flushes and reopens with rotation by a tool, a fourth write
with rotation by size, where the archive names run out. `MaxGeneration`, `MaxStamp` and
`MaxObjects` are also real limits of the code (the bits of the ticket, the last
formattable archive name, `UINT_MAX` objects). `StallWindow` states what the code relies on: a
producer between its load and its compare-and-swap is overtaken by fewer than
`SIZE_MAX / 2` reservations.

### Fairness

* `MpscQueue`: weak fairness of every running push and of the consumer, strong
  fairness of the reservation of one producer. The code's loop is lock-free, not
  wait-free: the strong part says that no producer loses the race for ever.
* `QueueWakeup`: weak fairness of each thread's steps, strong fairness of taking
  `wait_mu`. No spurious wake-up is assumed.
* `AsyncLogger`: strong fairness per thread inside a call, since a mutex that is
  free again and again is granted in the end. Nobody is obliged to call or to
  destroy.
* `SyslogBackend`: weak fairness of the steps of a call, of the next write and of
  time. Nothing is assumed of the daemon: `DeliveryResumes` says what follows
  if it stays up.
* `ProcessDomain`: strong fairness per thread inside a call, as for AsyncLogger.
  Nobody is obliged to enter the library or to fork.
* `GlobalBinding`: weak fairness of each thread inside a call, and strong fairness
  of taking `g_control_mu`, a plain mutex that controllers release again and again.
  The lifetime lock gets weak fairness only, so it may prefer readers for ever;
  `RebindReturns` holds because a closed ticket keeps readers out. It excuses only a
  caller that lost its way out in a failed unlock.

## 4. Proofs

All theorems are about `Spec` and hold for every value of the constants that the
assumptions of the module allow: any number of producers, threads, instances,
descriptors, files and writes, any bound on calls, faults, forks and crashes. The
assumptions say what the constants are (natural numbers, a capacity of at least 2
that divides the even modulus of positions, names that differ from `None`) and, for
the queue, `WindowAssumption`, which section 3 explains. Each safety property is
proved from an inductive invariant that TLC checked first on the run's instance.

| Module | Theorems | Property |
|---|---|---|
| `MpscQueueProofs` (ring) | `TypeAndRing`, `SlotsAreExclusive`, `RefusalMeansFull` | `TypeOK` with `RingInv`, `SlotExclusive`, `RejectOnlyWhenFull` |
| `MpscQueueProofs` (contents) | `QueueInvariant`, `DeliveryIsInOrder`, `BlocksHaveOneOwner`, `QueueReportsAreHonest`, `QueueImplementsFifo` | `IndInv`, `DeliveredInOrder`, `SpillBlocksOwned`, `ReportsAreHonest`, `RefinesFifo` |
| `QueueWakeupProofs` | `WakeupInvariant`, `WakeupsAreNotLost`, `DestroyLosesNothing` | `WakeupInv`, `NoLostWakeup`, `NothingLeftBehind` |
| `AsyncLoggerProofs` | `TypeCorrect`, `ConfirmedWritesAreDurable`, `MutexesExclude` | `TypeOK`, `ConfirmedIsDurable`, `SectionsExclude` |
| `AsyncLoggerPromises` | `FlushesAreHonest`, `RecordsAreCounted`, `LifetimesAreNested`, `DestroyAnswersHonestly` | `FlushIsHonest`, `EveryRecordCounted`, `LifetimesNest`, `DestroyIsHonest` |
| `AsyncLoggerPromises` | `LifecycleOnlyAdvances` | the action property `Advance` |
| `GlobalBindingProofs` | `BindingInvariant`, `BindingTypes`, `BorrowsAreAlive`, `ReadersKeepGeneration`, `RebindsAreFresh` | `BindingInv`, `TypeOK`, `BorrowedIsAlive`, `ReaderKeepsGeneration`, `RebindIsFresh` |
| `FileBackendProofs` | `FileInvariant`, `FileTypesHold`, `OneWriterHolds`, `ConfirmedWritesSurvive`, `ArchivesStayInOrder`, `SizesAreBounded`, `ArchivesStaySealed` | `FileInv`, `TypeOK`, `OneWriter`, `ConfirmedSurvives`, `ArchivesInOrder`, `SizeBounded`, `ArchivesAreSealed` |
| `SyslogBackendProofs` | `SyslogInvariant`, `RecordsAreSentOnce`, `ReconnectsAreSpaced` | `SyslogInv`, `OneDatagramPerRecord`, `NoReconnectStorm` |
| `ProcessDomainProofs` | `DomainInvariant`, `ChildrenAreClean`, `DomainsAreSound` | `DomainInv`, `ChildIsClean`, `DomainIsSound` |

### The ring and its contents

`SlotExclusive` is not inductive: that a reserved slot is free follows from its
sequence number, which says the truth only together with the whole window.
`RingInv` has five parts. `Bounded`: between `Freed` (the first position not
given back) and `enqueue_pos` lie at most `Cap` positions. `HoldersApart`: those
between reservation and publication hold different ones of them. `LoopKnows`: a
producer in the loop is at most `StallWindow` behind, and before its swap its
slot is free unless somebody reserved it. `Stamped`: the sequence number of each
of the `Cap` positions from `Freed` on says whether its record is readable.
`ConsumerReads`: the consumer is at a published position.

The proof rests on arithmetic lemmas with a variable divisor (`DivMod` to
`ModMod`), which give `IndexInjective` (positions less than `Cap` apart are in
different slots), `IndexShift` (a lap later, the same slot), `IndexCovers` and
`CompareIs` (inside the window the wrapped comparison is the true one). From
them `FreeMeansFree` and `BehindMeansFull` say what the two outcomes of the
comparison mean.

`IndInv` adds what slots and blocks contain. `BlockInv` and `SpillBlocksOwned`
say at which steps a push holds a block and that no two hold one; `ContentInv`
that every reserved position has a message, that of its holder until it is
published, and that a packed or waiting slot is whole with its text; `HistoryInv`
that a message is logged once and exactly when its push holds a position or
returned 1. `QueueImplementsFifo` then takes each step to a step of `BoundedFifo`
or a stutter: `Reserve` is the enqueue, `Unpack` the dequeue.

### The wake-up

`NoLostWakeup` concerns a sleeping worker, so the invariant follows what each
store is tied to on the way there. `ProbesInv`: a stored record or stop has been
tied to `consumer_waiting` by a read-modify-write, or its storer is about to do
so, or is the thread of a silent stop. `TiedInv`: what was tied after the worker armed the flag was tied by a thread
that found it armed and will signal. `MissedInv`: the worker goes to sleep
knowing of no record and no stop. `StopInv` carries the release of a quiesced stop
to the worker's exit.

### The logger instance

The properties of AsyncLogger follow from invariants that build on each other,
each with one lemma per action. Steps that leave a part of the state alone go
through a frame lemma that says what such a step may touch.

* `Types` is `TypeOK` with what makes it inductive: the batch fits its workspace
  and consists of consumed positions, a publishing producer holds a reserved
  position, and a constructor has a prefix of the parts (`Building`), without
  which the next part it acquires would have no type.
* `RecordInv` says where each record is. A record that is neither queued nor
  counted belongs to a call still on its way (`FreshRecords`), no record is queued
  twice, and the counted ones among the queued are those of the first `Handled`
  positions (`CountedInOrder`). `WatermarkBehind` keeps `completed_pos` behind the
  batches that were counted: this is what lets a flush trust it.
* `SectionsOwned`: a thread at a label between lock and unlock owns the mutex.
  The theorem needs no assumption about failures, because a failed unlock either
  released the mutex or left it owned by a thread that has left the section.
* `FlushInv` follows one flush: what it must answer for was accepted, then lies
  in the queue below its target or is emitted, then is counted, and without a
  latched error emitted. That nothing failed follows from `FailureLatched`.
* `CountInv` states the sums with the two delays the code has: the batch that is
  counted but not yet added to `async_completed`, and the producers that have
  reserved but not yet raised `enqueued`.
* `LifeInv` has six parts. `LentOnly`: borrowers work only between publication
  and destroy. `PartsHeld`: which parts there are, by where host and worker are.
  `WorkerLife`: when there is a worker. `HostLife`: how far the host's call has
  come. `LocksHeld`: a mutex in doubt is on record in `synchronization_error` or
  `wait_mu_error`, or a thread is about to record it. `ErrorsNoted`: a logger that
  still looks usable although its worker leaves is about to be marked. The last
  two are needed because an error is recorded in three separate stores.
* `DestroyInv`: `PositionsOwned` (a reserved position is published or about to
  be), `StopCause` and `EndCause` (a worker leaves only after an error on record,
  or with an empty queue that nobody fills any more). An answer of 0 excludes the
  first, so that the queue was drained before the last sync.
* `StoppedQuiet`: a STOPPED logger has no worker and nobody is recording an error.
  It is needed for `LifecycleOnlyAdvances`, as the last store of a recording sets
  STOPPING without looking at the state.

* Lost pages: `WrittenFirst` says that what counts as emitted is still written only
  as long as no error is latched. `FlushInv` and `DestroyInv` use it exactly where
  the code has looked at `first_error`.

The proofs corrected two places. `Acquire` now latches the error of a deferred
Syslog start. And that a freed logger has no mutex in doubt was true with the one
failure of the run and is false with two. `LifetimesNest` says it of
`logger_destroy` and leaves it open only for a failed constructor whose worker left
the mutex in doubt; that case is stated by itself as `DoubtKeepsMemory`, and it is
finding 3.

### The default slot

`BindingInv`: `LocksInv` (who holds `g_control_mu` and the lifetime lock, also
when an unlock failed and the thread is lost with both), `TicketInv` (what a
controller past its checks knows of the binding it replaces), `MarkedIsAlive`, and
`LoansInv` (the slot's loan, those still to be given back and the one a
publication replaces are of different instances, all marked). Without the last
part a controller might give back a mark that another binding of the same
instance relies on.

### The file output

`FileInv` is one invariant for the disk and one per instance. As a lock holder
excludes all others (`LockInv`, `OneMoves`), only the holder's part and the disk's
have to be looked at in a step. `LinkedAt`: the open file has a name, and has one
in every directory a crash may leave once the directory is not dirty. `DurableAt`:
an accepted write is durable or still waits in the open file, and none waits from
the rename of a rotation to the installation of the new file. `OrderAt`: the write
in progress is newer than all contents, and archives precede the active file.
`SizeAt`: the cached size is right and what is about to be appended fits. `DiskInv`:
what is on disk was written and not lost by a failed sync. `ConfirmedSurvives`
follows as nothing that is durable stops to be (`DurableLasts`) except what
retention takes (`UnlinkKeeps`).

The proof attempt corrected `SizeBounded`: `prepare_write` takes a
`max_file_size` of 0 as no limit (logger_file.c:762) and the configuration is not
refused, so the bound is stated for limits other than 0.

### Syslog

`CooldownInv` relates the clock the code reads to the true time since the last
attempt and the last loss: the cool-down the clock shows is never longer than the
true one, unless the next look at the clock starts it anew. `CallInv` says what
the call has added to the metrics at each step.

### The process domain

`DomainInv` has parts for the ticket (`CasInv`, `StartingInv`, `TicketInv`,
`PublishedInv`, `InsideInv`), for the gate (`GateInv`, `ForkInv`) and for the
resources: what is on the table is open and what is open is on the table, but for
what one thread has in hand (`TableInv`, `OpenInv`, `HandInv`, `SoleInv`), a
snapshot taken without error is what the child inherits (`SnapshotInv`), and
inherited resources are left only in a child that may not go on (`CleanInv`).

### Only model-checked

Liveness: `ReservedIsConsumed`, `PushReturns`, `HeadIsConsumed`, `StopIsObeyed`,
`FlushReturns`, `LogReturns`, `DestroyReturns`, `RebindReturns`, `DeliveryResumes`
and `ForkReturns`. Fairness is out of the prover's reach. Every invariant and every
action property that a passing run checks is a theorem; `ExitWakesWaiters`,
`UnprovenLockUntouched` and `DoubtKeepsMemory` are the violated ones of section 5.

## 5. Findings

1. `async_lostwake`. `logger_note_synchronization_error` stores
   `synchronization_error` (logger.c:1152) before `lifecycle_error`
   (logger.c:1137). The worker leaves on the first (logger_worker.c:341) and
   broadcasts `progress_cv` only if it sees the second (logger_worker.c:445). If
   it runs between the two stores of a producer whose unlock of `emit_mu`
   failed, a flush sleeps for ever, contrary to `docs/v2/WORKER_FAILURE.md`.
2. `async_relock`. After a failed unlock of `progress_mu` the worker locks
   `progress_mu` again for its last broadcast (logger_worker.c:446), contrary to
   the comment at logger_internal.h:86.
3. `async_rollback`. `logger_ctor_rollback` looks at `synchronization_error` before
   it stops and joins the worker (logger.c:401) and not again afterwards, as
   `dispose_body` does (logger.c:798). If the worker of a logger that is being
   created cannot take `wait_mu`, so that it leaves and publication fails, and then
   cannot release `progress_mu` either, the roll-back destroys that mutex and frees
   the logger, although logger_internal.h:86 says that destruction must keep such an
   object.

All need a `pthread_mutex_unlock` that fails, which the code handles
explicitly. `async_live` leaves failing unlocks out for that reason: a mutex
that was not released blocks its next user for ever.

## 6. Not modelled

* Level changes and thread-local context of the instance: one atomic access, or a
  copy of the thread's own memory.
* Metrics snapshots. `logger_get_metrics` copies counters; `logger_get_file_metrics`
  and `logger_get_syslog_metrics` read under `emit_mu`, and a failed unlock there
  records a synchronization error. As users of `emit_mu` and sources of that error
  they add nothing to the flushes of AsyncLogger, which do both; what they copy is
  not stated.
* Console output: one lock around formatting and writing a line, no state kept
  between calls but its configuration word.
* Formatting and redaction: pure text; their failure is a fault of AsyncLogger.
* The SIGPIPE guard: the signal mask and the pending signals of one thread around
  one write.
* Lock order checker and fault injection: instrumentation. The faults injected
  are faults of the models.
* Two flushes asleep together, with failures, under fairness: the graph is too
  large for the temporal check, so the broadcast is checked with one sleeper.

## 7. Plan

Done: MpscQueue and its refinement, QueueWakeup, AsyncLogger with construction
and roll-back, GlobalBinding, FileBackend, SyslogBackend, ProcessDomain, and the
proofs of all their safety properties.

1. Pure algorithms: `queue_capacity`, spill capacity and `storage_size` against
   their definitions, with overflow.
2. The SIGPIPE guard and the console.
