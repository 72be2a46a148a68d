----------------------------- MODULE AsyncLogger -----------------------------
(***************************************************************************)
(* One logger instance from logger_create to logger_destroy: the host that *)
(* creates and destroys it, threads that log (logger_log and               *)
(* logger_log_sync_status), threads that call logger_flush, and the        *)
(* worker; with the backend and pthread failures that logger.c,            *)
(* logger_queue.c and logger_worker.c handle.                              *)
(*                                                                         *)
(* The queue is the FIFO that MpscQueue implements: positions are reserved *)
(* in order, published in any order and consumed in order.  Atomics are    *)
(* sequentially consistent here; QueueWakeup has the weak memory model.    *)
(* Outputs are abstract: a record is written, and a file sync makes what   *)
(* is written durable; a sync that fails may lose what no earlier one      *)
(* covered.  Records of logger_log are below flush_level.                  *)
(***************************************************************************)
EXTENDS Integers, Sequences, FiniteSets

CONSTANTS
    Producers,      \* threads that log
    Flushers,       \* threads that flush
    Worker,         \* logger_worker_main
    Host,           \* the thread that creates and destroys the logger
    None,           \* no owner
    AsyncModes,     \* the values l->async_mode may be configured with
    Caps,           \* the values q->cap may be configured with
    BatchMax,       \* BATCH_MAX
    Kinds,          \* the API calls producers make: "log", "sync"
    MaxCalls,       \* bound: API calls of a producer or flusher
    FaultKinds,     \* the failures that may be met
    MaxFaults       \* bound: failures met in all

Borrowers == Producers \cup Flushers
Threads == Borrowers \cup {Worker, Host}
Mutexes == {"emit_mu", "progress_mu", "wait_mu"}
\* What create_logger acquires: the count of live objects, the memory of the
\* logger, its mutexes and condition, the outputs, the queue, the workspace.
Parts == {"object", "memory", "emit_mu", "progress_mu", "progress_cv", "file", "syslog",
          "queue", "workspace"}
Faults == ({"lock", "unlock"} \X Mutexes) \cup
          ({"cond_wait"} \X {"wait_cv", "progress_cv"}) \cup
          {<<"cond_signal", "wait_cv">>, <<"format", "line">>, <<"io", "write">>,
           <<"io", "fsync">>, <<"io", "close">>, <<"io", "deferred">>, <<"thread", "create">>,
           <<"thread", "join">>} \cup
          ({"init"} \X Parts) \cup ({"destroy"} \X (Parts \ {"object", "file", "syslog"}))

ASSUME ThreadsAssumption ==
    /\ Producers \cap Flushers = {}
    /\ Worker \notin Borrowers /\ Host \notin Borrowers /\ Worker # Host
    /\ None \notin Threads
ASSUME SizesAssumption ==
    /\ Caps \subseteq Nat \ {0} /\ BatchMax \in Nat \ {0}
    /\ MaxCalls \in Nat /\ MaxFaults \in Nat
ASSUME ModeAssumption ==
    AsyncModes \subseteq BOOLEAN /\ Kinds \subseteq {"log", "sync"} /\ FaultKinds \subseteq Faults

VARIABLES
    l,          \* the fields of logger_t that threads share, and built, the
                \* parts it has (struct logger_ctor_state)
    q,          \* the fields of l->q
    owner,      \* owner[m]: the thread that holds mutex m
    unproven,   \* <<t, m>>: thread t could not release m
    asleep,     \* the threads blocked on a condition variable
    written,    \* records given to the outputs and not lost by a failed sync
    durable,    \* records a successful file sync covered
    emitted,    \* records counted by emitted_records
    failed,     \* records counted by failed_records
    accepted,   \* records whose logging call has returned 0
    due,        \* due[f]: the accepted records when f's flush began
    pc,         \* pc[t]: where t is
    noting,     \* noting[t]: the store t's error recording executes next
    calls,      \* calls[t]: API calls t has begun
    kind,       \* kind[p]: which call producer p is in
    slot,       \* slot[p]: the queue position p reserved
    target,     \* target[f]: the watermark f's flush waits for
    result,     \* result[t]: what t's call has come to, "ok" or "error"
    batch,      \* the number of records in the worker's batch
    faults      \* failures met so far

outputs == <<written, durable, emitted, failed>>
promises == <<accepted, due>>
locals == <<calls, kind, slot, target, result, batch>>
vars == <<l, q, owner, unproven, asleep, outputs, promises, pc, noting, locals, faults>>

\* A record is named by the call that made it.
Record(p) == <<p, calls[p]>>
Records == Producers \X (1..MaxCalls)

\* logger_queue_empty: the next slot to consume is not published.
QueueEmpty == q.dequeue_pos + 1 \notin q.published

\* workspace->capacity, as logger_worker_workspace_create computes it.
Capacity == IF q.cap < BatchMax THEN q.cap ELSE BatchMax

\* The records in the workspace.
Batch == {q.fifo[i] : i \in (q.dequeue_pos - batch + 1)..q.dequeue_pos}

\* logger_ctor_init_fields and logger_queue_init.
Init ==
    /\ \E mode \in AsyncModes : l =
           [state |-> "CREATED", async_mode |-> mode, built |-> {}, running |-> FALSE, first_error |-> FALSE,
            lifecycle_error |-> FALSE, synchronization_error |-> FALSE,
            completed_pos |-> 0, enqueued |-> 0, dropped |-> 0,
            sync_fallbacks |-> 0, async_completed |-> 0, sync_completed |-> 0]
    /\ \E cap \in (IF l.async_mode THEN Caps ELSE {0}) : q =
           [cap |-> cap, fifo |-> << >>, published |-> {}, dequeue_pos |-> 0,
            consumer_waiting |-> FALSE, wait_mu_error |-> FALSE]
    /\ owner = [m \in Mutexes |-> None]
    /\ unproven = {}
    /\ asleep = {}
    /\ written = {} /\ durable = {} /\ emitted = {} /\ failed = {} /\ accepted = {}
    /\ due = [f \in Flushers |-> {}]
    /\ pc = [t \in Threads |-> CASE t = Host -> "create"
                                 [] t = Worker -> "none"
                                 [] OTHER -> "idle"]
    /\ noting = [t \in Threads |-> "nothing"]
    /\ calls = [t \in Borrowers |-> 0]
    /\ kind = [p \in Producers |-> "log"]
    /\ slot = [p \in Producers |-> 0]
    /\ target = [f \in Flushers |-> 0]
    /\ result = [t \in Threads |-> "ok"]
    /\ batch = 0
    /\ faults = 0

-----------------------------------------------------------------------------
(* Failures, mutexes and error recording                                   *)

At(t, label) == pc[t] = label /\ noting[t] = "nothing"
Go(t, label) == pc' = [pc EXCEPT ![t] = label]
Answer(t, r) == result' = [result EXCEPT ![t] = r]

\* The logging call of p returns 0.
Accept(p) == Answer(p, "ok") /\ accepted' = accepted \cup {Record(p)}

\* The failures in hit are met by this step.
Meet(hit) ==
    /\ hit \subseteq FaultKinds
    /\ faults + Cardinality(hit) <= MaxFaults
    /\ faults' = faults + Cardinality(hit)

Lock(t, m) ==
    /\ owner[m] = None
    /\ owner' = [owner EXCEPT ![m] = t]

\* A failed pthread_mutex_unlock may or may not have released the mutex.
Unlock(t, m, hit) ==
    IF <<"unlock", m>> \in hit
    THEN /\ unproven' = unproven \cup {<<t, m>>}
         /\ \/ UNCHANGED owner
            \/ owner' = [owner EXCEPT ![m] = None]
    ELSE /\ owner' = [owner EXCEPT ![m] = None]
         /\ UNCHANGED unproven

\* The records given to the outputs that are still there: pages that a failed
\* fsync could not write may be dropped, and a later fsync does not tell.
StillWritten(given, hit) ==
    written' \in IF <<"io", "fsync">> \in hit
                 THEN {given \ lost : lost \in SUBSET (given \ durable)}
                 ELSE {given}

\* Start logger_note_synchronization_error ("sync") or
\* logger_note_lifecycle_error ("life") in t.
Note(t, what) == noting' = [noting EXCEPT ![t] = what]
NoteIf(t, bad, what) == IF bad THEN Note(t, what) ELSE UNCHANGED noting

\* The stores of those two functions, in their order.
NoteStep(t) ==
    /\ CASE noting[t] = "sync" ->
              l' = [l EXCEPT !.synchronization_error = TRUE] /\ Note(t, "life")
         [] noting[t] = "life" ->
              l' = [l EXCEPT !.lifecycle_error = TRUE] /\ Note(t, "stop")
         [] noting[t] = "stop" ->
              l' = [l EXCEPT !.state = "STOPPING", !.running = FALSE] /\ Note(t, "nothing")
         [] OTHER -> FALSE
    /\ UNCHANGED <<promises, q, owner, unproven, asleep, outputs, pc, locals, faults>>

-----------------------------------------------------------------------------
(* logger_log and logger_log_sync_status                                   *)

\* The public entry: admission is one look at l->state.  The host lends the
\* logger only while it neither creates nor destroys it.  Calls below the level,
\* and those whose clock or text cannot be had, return before any store and are
\* not steps.
EnterLog(p) ==
    /\ At(p, "idle") /\ pc[Host] = "using" /\ calls[p] < MaxCalls
    /\ calls' = [calls EXCEPT ![p] = @ + 1]
    /\ IF l.state = "RUNNING"
       THEN /\ \E k \in Kinds : /\ kind' = [kind EXCEPT ![p] = k]
                                /\ Go(p, IF k = "log" /\ l.async_mode THEN "push" ELSE "format")
            /\ UNCHANGED result
       ELSE Answer(p, "error") /\ UNCHANGED <<pc, kind>>
    /\ UNCHANGED <<promises, l, q, owner, unproven, asleep, outputs, noting, slot, target, batch, faults>>

\* Mutant: a position is reserved beyond the last free slot.
PushOverfills(p) ==
    /\ At(p, "push")
    /\ q' = [q EXCEPT !.fifo = Append(@, Record(p))]
    /\ slot' = [slot EXCEPT ![p] = Len(q.fifo) + 1]
    /\ Go(p, "publish")
    /\ UNCHANGED <<promises, l, owner, unproven, asleep, outputs, noting, calls, kind, target,
                   result, batch, faults>>

\* logger_queue_push reserves a position.
Push(p) ==
    /\ At(p, "push")
    /\ Len(q.fifo) - q.dequeue_pos < q.cap
    /\ q' = [q EXCEPT !.fifo = Append(@, Record(p))]
    /\ slot' = [slot EXCEPT ![p] = Len(q.fifo) + 1]
    /\ Go(p, "publish")
    /\ UNCHANGED <<promises, l, owner, unproven, asleep, outputs, noting, calls, kind, target, result,
                   batch, faults>>

\* logger_queue_push returns 0: the ring is full, or the record needs a spill
\* block and other records hold them all.  The overflow policy of the level
\* then writes the record synchronously or drops it.
Refused(p) ==
    /\ At(p, "push")
    /\ \/ Len(q.fifo) - q.dequeue_pos = q.cap
       \/ \E o \in Producers \ {p} : pc[o] \in {"push", "publish"}
       \/ ~QueueEmpty
    /\ \/ /\ l' = [l EXCEPT !.sync_fallbacks = @ + 1]
          /\ Go(p, "format")
          /\ UNCHANGED result
       \/ /\ l' = [l EXCEPT !.dropped = @ + 1]
          /\ Go(p, "idle")
          /\ Answer(p, "error")
    /\ UNCHANGED <<promises, q, owner, unproven, asleep, outputs, noting, calls, kind, slot, target,
                   batch, faults>>

Publish(p) ==
    /\ At(p, "publish")
    /\ q' = [q EXCEPT !.published = @ \cup {slot[p]}]
    /\ Go(p, "probe")
    /\ UNCHANGED <<promises, l, owner, unproven, asleep, outputs, noting, locals, faults>>

\* logger_queue_notify_if_waiting up to wait_mu, and vlog_body after it when
\* nobody waits or wait_mu cannot be had.
Probe(p) ==
    /\ At(p, "probe")
    /\ IF q.consumer_waiting
       THEN Go(p, "notify_lock") /\ UNCHANGED <<l, result, accepted>>
       ELSE /\ l' = [l EXCEPT !.enqueued = @ + 1]
            /\ Go(p, "idle") /\ Accept(p)
    /\ UNCHANGED <<due, q, owner, unproven, asleep, outputs, noting, calls, kind, slot, target,
                   batch, faults>>

NotifyLock(p) ==
    /\ At(p, "notify_lock")
    /\ \/ /\ Lock(p, "wait_mu")
          /\ Go(p, "notify")
          /\ UNCHANGED <<l, noting, faults>>
       \/ /\ Meet({<<"lock", "wait_mu">>})
          /\ l' = [l EXCEPT !.enqueued = @ + 1, !.first_error = TRUE]
          /\ Note(p, "life")
          /\ Go(p, "push_failed")
          /\ UNCHANGED owner
    /\ UNCHANGED <<promises, q, unproven, asleep, outputs, locals>>

\* Under wait_mu: claim the wake-up, signal, release; then vlog_body's
\* accounting of a push that was published whether or not this succeeded.
Notify(p) ==
    /\ At(p, "notify")
    /\ \E hit \in SUBSET {<<"cond_signal", "wait_cv">>, <<"unlock", "wait_mu">>} :
         /\ <<"cond_signal", "wait_cv">> \in hit => q.consumer_waiting
         /\ Meet(hit)
         /\ Unlock(p, "wait_mu", hit)
         /\ q' = [q EXCEPT !.consumer_waiting = FALSE,
                           !.wait_mu_error = @ \/ <<"unlock", "wait_mu">> \in hit]
         /\ asleep' = IF q.consumer_waiting /\ <<"cond_signal", "wait_cv">> \notin hit
                      THEN asleep \ {Worker} ELSE asleep
         /\ l' = [l EXCEPT !.enqueued = @ + 1, !.first_error = @ \/ hit # {}]
         /\ NoteIf(p, hit # {}, "life")
         /\ IF hit = {} THEN Go(p, "idle") /\ Accept(p)
                        ELSE Go(p, "push_failed") /\ UNCHANGED <<result, accepted>>
    /\ UNCHANGED <<due, outputs, calls, kind, slot, target, batch>>

\* vlog_body after a failed notification: force a wake-up unless wait_mu
\* itself is in doubt.
PushFailed(p) ==
    /\ At(p, "push_failed")
    /\ IF q.wait_mu_error
       THEN Note(p, "sync") /\ Go(p, "idle") /\ Answer(p, "error")
       ELSE Go(p, "force_lock") /\ UNCHANGED <<noting, result>>
    /\ UNCHANGED <<promises, l, q, owner, unproven, asleep, outputs, calls, kind, slot, target, batch,
                   faults>>

\* logger_queue_wake_force, in a producer after a failed notification and in
\* the host when it stops the worker.
ForceLock(t) ==
    /\ At(t, "force_lock")
    /\ \/ /\ Lock(t, "wait_mu")
          /\ Go(t, "force")
          /\ UNCHANGED <<noting, faults>>
       \/ /\ Meet({<<"lock", "wait_mu">>})
          /\ Note(t, "life")
          /\ Go(t, "force_failed")
          /\ UNCHANGED owner
    /\ UNCHANGED <<promises, l, q, unproven, asleep, outputs, locals>>

\* Mutant: the stopping thread wakes the worker only if it looks asleep.
WakeForceSkipsSignal(t) ==
    /\ At(t, "force")
    /\ owner' = [owner EXCEPT !["wait_mu"] = None]
    /\ q' = [q EXCEPT !.consumer_waiting = FALSE]
    /\ Go(t, IF t = Host THEN "join" ELSE "idle")
    /\ UNCHANGED <<promises, l, unproven, asleep, outputs, noting, locals, faults>>

WakeForce(t) ==
    /\ At(t, "force")
    /\ \E hit \in SUBSET {<<"cond_signal", "wait_cv">>, <<"unlock", "wait_mu">>} :
         /\ Meet(hit)
         /\ Unlock(t, "wait_mu", hit)
         /\ q' = [q EXCEPT !.consumer_waiting = FALSE,
                           !.wait_mu_error = @ \/ <<"unlock", "wait_mu">> \in hit]
         /\ asleep' = IF <<"cond_signal", "wait_cv">> \in hit THEN asleep
                                                              ELSE asleep \ {Worker}
         /\ NoteIf(t, hit # {}, "life")
         /\ Go(t, IF hit # {} THEN "force_failed" ELSE IF t = Host THEN "join" ELSE "idle")
         /\ result' = IF hit = {} /\ t # Host THEN [result EXCEPT ![t] = "error"] ELSE result
    /\ UNCHANGED <<promises, l, outputs, calls, kind, slot, target, batch>>

\* logger_ctor_rollback does not look at wait_mu_error again.
ForceFailed(t) ==
    /\ At(t, "force_failed")
    /\ NoteIf(t, q.wait_mu_error /\ result[t] # "uncreated", "sync")
    /\ Go(t, IF t = Host THEN "retained" ELSE "idle")
    /\ result' = IF result[t] = "uncreated" THEN result ELSE [result EXCEPT ![t] = "error"]
    /\ UNCHANGED <<promises, l, q, owner, unproven, asleep, outputs, calls, kind, slot, target, batch,
                   faults>>

-----------------------------------------------------------------------------
(* logger_emit_status: a synchronous write by the calling thread           *)

\* The record of p's call did not reach the outputs.
Unsent(p) ==
    /\ failed' = failed \cup {Record(p)}
    /\ l' = [l EXCEPT !.first_error = TRUE, !.sync_completed = @ + 1]
    /\ Go(p, "idle") /\ Answer(p, "error")
    /\ UNCHANGED <<written, durable, emitted>>

\* Formatting fails: a confirmed write returns before it is accounted for.
FormatStatus(p) ==
    /\ At(p, "format")
    /\ \/ /\ Go(p, "emit_check")
          /\ UNCHANGED <<l, outputs, result, faults>>
       \/ /\ Meet({<<"format", "line">>})
          /\ kind[p] = "sync"
          /\ Go(p, "idle") /\ Answer(p, "error")
          /\ UNCHANGED <<l, outputs>>
       \/ /\ Meet({<<"format", "line">>})
          /\ kind[p] = "log"
          /\ Unsent(p)
    /\ UNCHANGED <<promises, q, owner, unproven, asleep, noting, calls, kind, slot, target, batch>>

EmitCheck(p) ==
    /\ At(p, "emit_check")
    /\ IF l.synchronization_error
       THEN Unsent(p)
       ELSE Go(p, "emit_lock") /\ UNCHANGED <<l, outputs, result>>
    /\ UNCHANGED <<promises, q, owner, unproven, asleep, noting, calls, kind, slot, target, batch, faults>>

EmitLock(p) ==
    /\ At(p, "emit_lock")
    /\ \/ /\ Lock(p, "emit_mu")
          /\ Go(p, "emit")
          /\ UNCHANGED <<l, outputs, result, faults>>
       \/ /\ Meet({<<"lock", "emit_mu">>})
          /\ Unsent(p)
          /\ UNCHANGED owner
    /\ UNCHANGED <<promises, q, unproven, asleep, noting, calls, kind, slot, target, batch>>

\* Mutant: a confirmed write does not look at the result of its sync.
EmitStatusIgnoresSync(p) ==
    /\ At(p, "emit")
    /\ \E hit \in SUBSET {<<"io", "fsync">>} :
         /\ Meet(hit)
         /\ written' = written \cup {Record(p)}
         /\ durable' = IF kind[p] = "sync" /\ hit = {} THEN written' ELSE durable
    /\ emitted' = emitted \cup {Record(p)}
    /\ l' = [l EXCEPT !.sync_completed = @ + 1]
    /\ owner' = [owner EXCEPT !["emit_mu"] = None]
    /\ Accept(p) /\ Go(p, "idle")
    /\ UNCHANGED <<due, q, unproven, asleep, failed, noting, calls, kind, slot, target, batch>>

\* Under emit_mu: write, sync if the call confirms, release, account.
EmitStatus(p) ==
    /\ At(p, "emit")
    /\ \E hit \in SUBSET {<<"io", "write">>, <<"io", "fsync">>, <<"unlock", "emit_mu">>} :
         /\ <<"io", "fsync">> \in hit => kind[p] = "sync" /\ <<"io", "write">> \notin hit
         /\ Meet(hit)
         /\ Unlock(p, "emit_mu", hit)
         /\ NoteIf(p, <<"unlock", "emit_mu">> \in hit, "sync")
         /\ StillWritten(IF <<"io", "write">> \in hit THEN written ELSE written \cup {Record(p)},
                         hit)
         /\ durable' = IF kind[p] = "sync" /\ {<<"io", "write">>, <<"io", "fsync">>} \cap hit = {}
                       THEN written' ELSE durable
         /\ IF hit = {}
            THEN emitted' = emitted \cup {Record(p)} /\ UNCHANGED failed
            ELSE failed' = failed \cup {Record(p)} /\ UNCHANGED emitted
         /\ l' = [l EXCEPT !.first_error = @ \/ hit # {}, !.sync_completed = @ + 1]
         /\ IF hit = {} THEN Accept(p) ELSE Answer(p, "error") /\ UNCHANGED accepted
    /\ Go(p, "idle")
    /\ UNCHANGED <<due, q, asleep, calls, kind, slot, target, batch>>

-----------------------------------------------------------------------------
(* logger_worker_main                                                      *)

\* logger_queue_drain, one record per step.
Drain ==
    /\ At(Worker, "drain")
    /\ batch < Capacity /\ ~QueueEmpty
    /\ q' = [q EXCEPT !.dequeue_pos = @ + 1]
    /\ batch' = batch + 1
    /\ UNCHANGED <<promises, l, owner, unproven, asleep, outputs, pc, noting, calls, kind, slot, target,
                   result, faults>>

DrainEnd ==
    /\ At(Worker, "drain")
    /\ batch = Capacity \/ QueueEmpty
    /\ Go(Worker, IF batch = 0 THEN "wait_lock" ELSE "batch_format")
    /\ UNCHANGED <<promises, l, q, owner, unproven, asleep, outputs, noting, locals, faults>>

\* emit_batch until it has emit_mu: a formatting error or a failed lock fails
\* the whole batch.
BatchFormat ==
    /\ At(Worker, "batch_format")
    /\ \/ /\ Go(Worker, "batch_lock")
          /\ UNCHANGED <<l, failed, faults>>
       \/ /\ Meet({<<"format", "line">>})
          /\ failed' = failed \cup Batch
          /\ l' = [l EXCEPT !.first_error = TRUE]
          /\ Go(Worker, "batch_done")
    /\ UNCHANGED <<promises, q, owner, unproven, asleep, written, durable, emitted, noting, locals>>

\* Mutant: a batch that never got emit_mu is not counted as failed.
BatchLockForgets ==
    /\ At(Worker, "batch_lock")
    /\ \/ /\ Lock(Worker, "emit_mu")
          /\ Go(Worker, "batch_emit")
          /\ UNCHANGED <<l, noting, faults>>
       \/ /\ Meet({<<"lock", "emit_mu">>})
          /\ l' = [l EXCEPT !.first_error = TRUE]
          /\ Note(Worker, "life")
          /\ Go(Worker, "batch_done")
          /\ UNCHANGED owner
    /\ UNCHANGED <<promises, q, unproven, asleep, outputs, locals>>

BatchLock ==
    /\ At(Worker, "batch_lock")
    /\ \/ /\ Lock(Worker, "emit_mu")
          /\ Go(Worker, "batch_emit")
          /\ UNCHANGED <<l, failed, noting, faults>>
       \/ /\ Meet({<<"lock", "emit_mu">>})
          /\ failed' = failed \cup Batch
          /\ l' = [l EXCEPT !.first_error = TRUE]
          /\ Note(Worker, "life")
          /\ Go(Worker, "batch_done")
          /\ UNCHANGED owner
    /\ UNCHANGED <<promises, q, unproven, asleep, written, durable, emitted, locals>>

\* The rest of emit_batch.  A failed stream or file write fails the batch, a
\* failed syslog datagram its record, a failed unlock the batch.
EmitBatch ==
    /\ At(Worker, "batch_emit")
    /\ \E hit \in SUBSET {<<"io", "write">>, <<"unlock", "emit_mu">>},
          lost \in SUBSET Batch :
         /\ <<"io", "write">> \in hit <=> lost # {}
         /\ Meet(hit)
         /\ Unlock(Worker, "emit_mu", hit)
         /\ NoteIf(Worker, <<"unlock", "emit_mu">> \in hit, "sync")
         /\ written' = written \cup (Batch \ lost)
         /\ LET bad == IF <<"unlock", "emit_mu">> \in hit THEN Batch ELSE lost
            IN  failed' = failed \cup bad /\ emitted' = emitted \cup (Batch \ bad)
         /\ l' = [l EXCEPT !.first_error = @ \/ hit # {}]
    /\ Go(Worker, "batch_done")
    /\ UNCHANGED <<promises, q, asleep, durable, locals>>

\* Count the batch as completed; leave at once if a mutex is in doubt.
BatchDone ==
    /\ At(Worker, "batch_done")
    /\ l' = [l EXCEPT !.async_completed = @ + batch]
    /\ batch' = 0
    /\ Go(Worker, IF l.synchronization_error THEN "final" ELSE "progress_lock")
    /\ UNCHANGED <<promises, q, owner, unproven, asleep, outputs, noting, calls, kind, slot, target,
                   result, faults>>

ProgressLock ==
    /\ At(Worker, "progress_lock")
    /\ \/ /\ Lock(Worker, "progress_mu")
          /\ Go(Worker, "progress")
          /\ UNCHANGED <<noting, faults>>
       \/ /\ Meet({<<"lock", "progress_mu">>})
          /\ Note(Worker, "life")
          /\ Go(Worker, "drain")
          /\ UNCHANGED owner
    /\ UNCHANGED <<promises, l, q, unproven, asleep, outputs, locals>>

\* Advance the watermark, wake the flushers, release.
Progress ==
    /\ At(Worker, "progress")
    /\ l' = [l EXCEPT !.completed_pos = q.dequeue_pos]
    /\ asleep' = asleep \ Flushers
    /\ \E hit \in SUBSET {<<"unlock", "progress_mu">>} :
         /\ Meet(hit)
         /\ Unlock(Worker, "progress_mu", hit)
         /\ NoteIf(Worker, hit # {}, "sync")
         /\ Go(Worker, IF hit # {} THEN "final" ELSE "drain")
    /\ UNCHANGED <<promises, q, outputs, locals>>

WaitLock ==
    /\ At(Worker, "wait_lock")
    /\ \/ /\ Lock(Worker, "wait_mu")
          /\ Go(Worker, "wait_test")
          /\ UNCHANGED <<noting, faults>>
       \/ /\ Meet({<<"lock", "wait_mu">>})
          /\ Note(Worker, "life")
          /\ Go(Worker, "final")
          /\ UNCHANGED owner
    /\ UNCHANGED <<promises, l, q, unproven, asleep, outputs, locals>>

\* The loop under wait_mu: test, publish consumer_waiting, test again, sleep.
WaitTest ==
    /\ At(Worker, "wait_test")
    /\ IF QueueEmpty /\ l.running
       THEN q' = [q EXCEPT !.consumer_waiting = TRUE] /\ Go(Worker, "wait_retest")
       ELSE UNCHANGED q /\ Go(Worker, "wait_end")
    /\ UNCHANGED <<promises, l, owner, unproven, asleep, outputs, noting, locals, faults>>

WaitRetest ==
    /\ At(Worker, "wait_retest")
    /\ \/ /\ ~(QueueEmpty /\ l.running)
          /\ Go(Worker, "wait_end")
          /\ UNCHANGED <<owner, asleep, noting, faults>>
       \/ /\ QueueEmpty /\ l.running
          /\ owner' = [owner EXCEPT !["wait_mu"] = None]
          /\ asleep' = asleep \cup {Worker}
          /\ Go(Worker, "wait_asleep")
          /\ UNCHANGED <<noting, faults>>
       \/ /\ QueueEmpty /\ l.running
          /\ Meet({<<"cond_wait", "wait_cv">>})
          /\ Note(Worker, "life")
          /\ Go(Worker, "wait_end")
          /\ UNCHANGED <<owner, asleep>>
    /\ UNCHANGED <<promises, l, q, unproven, outputs, locals>>

WaitAwake ==
    /\ At(Worker, "wait_asleep") /\ Worker \notin asleep
    /\ Lock(Worker, "wait_mu")
    /\ Go(Worker, "wait_test")
    /\ UNCHANGED <<promises, l, q, unproven, asleep, outputs, noting, locals, faults>>

\* Mutant: the worker stops without emptying the queue.
WaitEndAbandons ==
    /\ At(Worker, "wait_end")
    /\ q' = [q EXCEPT !.consumer_waiting = FALSE]
    /\ owner' = [owner EXCEPT !["wait_mu"] = None]
    /\ Go(Worker, IF ~l.running THEN "final" ELSE "drain")
    /\ UNCHANGED <<promises, l, unproven, asleep, outputs, noting, locals, faults>>

\* Mutant: a stopping worker leaves with wait_mu.
WaitEndKeepsLock ==
    /\ At(Worker, "wait_end")
    /\ q' = [q EXCEPT !.consumer_waiting = FALSE]
    /\ owner' = IF l.running THEN [owner EXCEPT !["wait_mu"] = None] ELSE owner
    /\ Go(Worker, IF ~l.running /\ QueueEmpty THEN "final" ELSE "drain")
    /\ UNCHANGED <<promises, l, unproven, asleep, outputs, noting, locals, faults>>

\* Withdraw consumer_waiting, decide whether to stop, release.
WaitEnd ==
    /\ At(Worker, "wait_end")
    /\ q' = [q EXCEPT !.consumer_waiting = FALSE]
    /\ \E hit \in SUBSET {<<"unlock", "wait_mu">>} :
         /\ Meet(hit)
         /\ Unlock(Worker, "wait_mu", hit)
         /\ NoteIf(Worker, hit # {}, "sync")
         /\ Go(Worker, IF hit # {} \/ (~l.running /\ QueueEmpty) THEN "final" ELSE "drain")
    /\ UNCHANGED <<promises, l, asleep, outputs, locals>>

\* Mutant: the worker leaves without the last broadcast.
FinalSilent ==
    /\ At(Worker, "final")
    /\ Go(Worker, "exited")
    /\ UNCHANGED <<promises, l, q, owner, unproven, asleep, outputs, noting, locals, faults>>

\* After the loop: if the executor failed, let every waiter see it.
Final ==
    /\ At(Worker, "final")
    /\ Go(Worker, IF l.lifecycle_error THEN "final_lock" ELSE "exited")
    /\ UNCHANGED <<promises, l, q, owner, unproven, asleep, outputs, noting, locals, faults>>

FinalLock ==
    /\ At(Worker, "final_lock")
    /\ \/ /\ Lock(Worker, "progress_mu")
          /\ Go(Worker, "broadcast")
          /\ UNCHANGED <<noting, faults>>
       \/ /\ Meet({<<"lock", "progress_mu">>})
          /\ Note(Worker, "life")
          /\ Go(Worker, "exited")
          /\ UNCHANGED owner
    /\ UNCHANGED <<promises, l, q, unproven, asleep, outputs, locals>>

Broadcast ==
    /\ At(Worker, "broadcast")
    /\ asleep' = asleep \ Flushers
    /\ \E hit \in SUBSET {<<"unlock", "progress_mu">>} :
         /\ Meet(hit)
         /\ Unlock(Worker, "progress_mu", hit)
         /\ NoteIf(Worker, hit # {}, "sync")
    /\ Go(Worker, "exited")
    /\ UNCHANGED <<promises, l, q, outputs, locals>>

\* A condition variable may wake a thread nobody signalled.
Spurious(t) ==
    /\ t \in asleep
    /\ asleep' = asleep \ {t}
    /\ UNCHANGED <<promises, l, q, owner, unproven, outputs, pc, noting, locals, faults>>

-----------------------------------------------------------------------------
(* logger_flush                                                            *)

EnterFlush(f) ==
    /\ At(f, "idle") /\ pc[Host] = "using" /\ calls[f] < MaxCalls
    /\ calls' = [calls EXCEPT ![f] = @ + 1]
    /\ IF l.state = "RUNNING"
       THEN Go(f, "flush_check") /\ Answer(f, "ok")
       ELSE UNCHANGED pc /\ Answer(f, "error")
    /\ due' = [due EXCEPT ![f] = accepted]
    /\ UNCHANGED <<accepted, l, q, owner, unproven, asleep, outputs, noting, kind, slot, target, batch,
                   faults>>

\* logger_wait_for_output: give up if a mutex is in doubt.
FlushCheck(f) ==
    /\ At(f, "flush_check")
    /\ IF l.synchronization_error
       THEN Go(f, "sync_check") /\ Answer(f, "error")
       ELSE Go(f, IF l.async_mode THEN "flush_target" ELSE "flush_error") /\ UNCHANGED result
    /\ UNCHANGED <<promises, l, q, owner, unproven, asleep, outputs, noting, calls, kind, slot, target,
                   batch, faults>>

\* The target counts reserved positions, published or not.
FlushTarget(f) ==
    /\ At(f, "flush_target")
    /\ target' = [target EXCEPT ![f] = Len(q.fifo)]
    /\ Go(f, "flush_lock")
    /\ UNCHANGED <<promises, l, q, owner, unproven, asleep, outputs, noting, calls, kind, slot, result,
                   batch, faults>>

FlushLock(f) ==
    /\ At(f, "flush_lock")
    /\ \/ /\ Lock(f, "progress_mu")
          /\ Go(f, "flush_test")
          /\ UNCHANGED <<result, faults>>
       \/ /\ Meet({<<"lock", "progress_mu">>})
          /\ Go(f, "sync_check") /\ Answer(f, "error")
          /\ UNCHANGED owner
    /\ UNCHANGED <<promises, l, q, unproven, asleep, outputs, noting, calls, kind, slot, target, batch>>

\* Mutant: a single look instead of a loop around the wait.
FlushTestOnce(f) ==
    /\ At(f, "flush_test")
    /\ IF l.completed_pos < target[f] /\ ~l.lifecycle_error
       THEN asleep' = asleep \cup {f} /\ target' = [target EXCEPT ![f] = 0] /\ Go(f, "flush_asleep")
       ELSE UNCHANGED <<asleep, target>> /\ Go(f, "flush_error")
    /\ owner' = [owner EXCEPT !["progress_mu"] = None]
    /\ UNCHANGED <<promises, l, q, unproven, outputs, noting, calls, kind, slot, result, batch, faults>>

\* The loop under progress_mu: an executor failure comes before the
\* watermark; otherwise sleep.
FlushTest(f) ==
    /\ At(f, "flush_test")
    /\ LET reached == ~l.lifecycle_error /\ l.completed_pos >= target[f]
           sleeps  == ~l.lifecycle_error /\ l.completed_pos < target[f]
       IN  \/ /\ ~sleeps
              /\ \E hit \in SUBSET {<<"unlock", "progress_mu">>} :
                   /\ Meet(hit)
                   /\ Unlock(f, "progress_mu", hit)
                   /\ NoteIf(f, hit # {}, "sync")
                   /\ IF reached /\ hit = {}
                      THEN Go(f, "flush_error") /\ UNCHANGED result
                      ELSE Go(f, "sync_check") /\ Answer(f, "error")
              /\ UNCHANGED asleep
           \/ /\ sleeps
              /\ owner' = [owner EXCEPT !["progress_mu"] = None]
              /\ asleep' = asleep \cup {f}
              /\ Go(f, "flush_asleep")
              /\ UNCHANGED <<unproven, noting, result, faults>>
           \/ /\ sleeps
              /\ \E hit \in SUBSET {<<"unlock", "progress_mu">>} :
                   /\ Meet(hit \cup {<<"cond_wait", "progress_cv">>})
                   /\ Unlock(f, "progress_mu", hit)
                   /\ NoteIf(f, hit # {}, "sync")
              /\ Go(f, "sync_check") /\ Answer(f, "error")
              /\ UNCHANGED asleep
    /\ UNCHANGED <<promises, l, q, outputs, calls, kind, slot, target, batch>>

FlushAwake(f) ==
    /\ At(f, "flush_asleep") /\ f \notin asleep
    /\ Lock(f, "progress_mu")
    /\ Go(f, "flush_test")
    /\ UNCHANGED <<promises, l, q, unproven, asleep, outputs, noting, locals, faults>>

\* The end of logger_wait_for_output: a latched output error is the answer.
FlushError(f) ==
    /\ At(f, "flush_error")
    /\ Go(f, "sync_check")
    /\ Answer(f, IF l.first_error THEN "error" ELSE "ok")
    /\ UNCHANGED <<promises, l, q, owner, unproven, asleep, outputs, noting, calls, kind, slot, target,
                   batch, faults>>

\* Back in logger_flush: never take emit_mu again once it is in doubt.
SyncCheck(f) ==
    /\ At(f, "sync_check")
    /\ IF l.synchronization_error
       THEN Go(f, "idle") /\ Answer(f, "error")
       ELSE Go(f, "sync_lock") /\ UNCHANGED result
    /\ UNCHANGED <<promises, l, q, owner, unproven, asleep, outputs, noting, calls, kind, slot, target,
                   batch, faults>>

SyncLock(f) ==
    /\ At(f, "sync_lock")
    /\ \/ /\ Lock(f, "emit_mu")
          /\ Go(f, "sync")
          /\ UNCHANGED <<result, faults>>
       \/ /\ Meet({<<"lock", "emit_mu">>})
          /\ Go(f, "idle") /\ Answer(f, "error")
          /\ UNCHANGED owner
    /\ UNCHANGED <<promises, l, q, unproven, asleep, outputs, noting, calls, kind, slot, target, batch>>

\* logger_sync_outputs_locked by t, and the release of emit_mu: sync the
\* file, then answer with whatever output error is latched.
SyncOutputs(t, hit) ==
    /\ Meet(hit)
    /\ Unlock(t, "emit_mu", hit)
    /\ NoteIf(t, <<"unlock", "emit_mu">> \in hit, "sync")
    /\ StillWritten(written, hit)
    /\ durable' = IF <<"io", "fsync">> \in hit THEN durable ELSE written
    /\ l' = [l EXCEPT !.first_error = @ \/ <<"io", "fsync">> \in hit]
    /\ result' = IF l.first_error \/ hit # {} THEN [result EXCEPT ![t] = "error"] ELSE result

Sync(f) ==
    /\ At(f, "sync")
    /\ \E hit \in SUBSET {<<"io", "fsync">>, <<"unlock", "emit_mu">>} : SyncOutputs(f, hit)
    /\ Go(f, "idle")
    /\ UNCHANGED <<promises, q, asleep, emitted, failed, calls, kind, slot, target, batch>>

-----------------------------------------------------------------------------
(* The host: logger_create and logger_destroy                              *)

\* The parts in the order in which create_logger acquires them, and in which
\* logger_ctor_rollback and dispose_body give them back.
Construction ==
    <<"object", "memory", "emit_mu", "progress_mu", "progress_cv", "file", "syslog">> \o
    (IF l.async_mode THEN <<"queue", "workspace">> ELSE << >>)
Destruction == <<"workspace", "queue", "progress_cv", "progress_mu", "emit_mu", "file", "syslog",
                 "object", "memory">>

Complete == Cardinality(l.built) = Len(Construction)

\* The next part; a failure rolls back.  A Syslog output whose start is deferred
\* latches its error; a queue that fails may leave wait_mu in doubt.
Acquire ==
    /\ At(Host, "create") /\ ~Complete
    /\ LET part == Construction[Cardinality(l.built) + 1]
       IN  \/ /\ \E hit \in SUBSET {<<"io", "deferred">>} :
                   /\ part # "syslog" => hit = {}
                   /\ Meet(hit)
                   /\ l' = [l EXCEPT !.built = @ \cup {part}, !.first_error = @ \/ hit # {}]
              /\ UNCHANGED <<q, pc, noting, result>>
           \/ /\ Meet({<<"init", part>>})
              /\ Go(Host, "rollback") /\ Answer(Host, "uncreated")
              /\ \E doubt \in {FALSE, part = "queue"} :
                   /\ q' = [q EXCEPT !.wait_mu_error = doubt]
                   /\ NoteIf(Host, doubt, "sync")
              /\ UNCHANGED l
    /\ UNCHANGED <<promises, owner, unproven, asleep, outputs, calls, kind, slot, target, batch>>

\* logger_ctor_start_worker, after the queue and the workspace.
StartWorker ==
    /\ At(Host, "create") /\ Complete
    /\ \/ /\ l' = [l EXCEPT !.running = l.async_mode]
          /\ pc' = [pc EXCEPT ![Host] = "publish",
                              ![Worker] = IF l.async_mode THEN "drain" ELSE @]
          /\ UNCHANGED <<result, faults>>
       \/ /\ l.async_mode
          /\ Meet({<<"thread", "create">>})
          /\ Go(Host, "rollback") /\ Answer(Host, "uncreated")
          /\ UNCHANGED l
    /\ UNCHANGED <<promises, q, owner, unproven, asleep, outputs, noting, calls, kind, slot, target, batch>>

\* CREATED -> RUNNING by compare-and-swap: a worker that failed already has
\* said STOPPING, and the constructor rolls back.
PublishRunning ==
    /\ At(Host, "publish")
    /\ IF l.state = "CREATED"
       THEN /\ l' = [l EXCEPT !.state = "RUNNING"]
            /\ Go(Host, "using")
            /\ UNCHANGED result
       ELSE /\ Go(Host, "rollback") /\ Answer(Host, "uncreated")
            /\ UNCHANGED l
    /\ UNCHANGED <<promises, q, owner, unproven, asleep, outputs, noting, calls, kind, slot, target, batch,
                   faults>>

\* Mutant: a worker that was started is not stopped.
RollbackUnjoined ==
    /\ At(Host, "rollback")
    /\ IF "memory" \notin l.built
       THEN l' = [l EXCEPT !.built = {}] /\ Go(Host, "freed")
       ELSE l' = [l EXCEPT !.state = "STOPPING"] /\ Go(Host, "destroy")
    /\ UNCHANGED <<promises, q, owner, unproven, asleep, outputs, noting, locals, faults>>

\* logger_ctor_rollback, up to the stop of a worker that was started: keep
\* everything if a mutex is in doubt.
Rollback ==
    /\ At(Host, "rollback")
    /\ CASE "memory" \notin l.built ->
              l' = [l EXCEPT !.built = {}] /\ Go(Host, "freed")
         [] "memory" \in l.built /\ (l.synchronization_error \/ ("queue" \in l.built /\ q.wait_mu_error)) ->
              /\ l' = [l EXCEPT !.state = "STOPPING", !.lifecycle_error = TRUE]
              /\ Go(Host, "retained")
         [] OTHER ->
              /\ l' = [l EXCEPT !.state = "STOPPING", !.running = FALSE]
              /\ Go(Host, IF pc[Worker] = "none" THEN "destroy" ELSE "force_lock")
    /\ UNCHANGED <<promises, q, owner, unproven, asleep, outputs, noting, locals, faults>>

\* The host destroys the logger when all its borrowers have returned.
Destroy ==
    /\ At(Host, "using")
    /\ \A t \in Borrowers : At(t, "idle")
    /\ l' = [l EXCEPT !.state = "STOPPING"]
    /\ Go(Host, "stop_check")
    /\ UNCHANGED <<promises, q, owner, unproven, asleep, outputs, noting, locals, faults>>

\* Keep everything if a mutex is in doubt; otherwise stop the worker.
StopCheck ==
    /\ At(Host, "stop_check")
    /\ IF l.synchronization_error \/ q.wait_mu_error
       THEN /\ Note(Host, "life") /\ Go(Host, "retained") /\ Answer(Host, "error")
            /\ UNCHANGED l
       ELSE /\ l' = [l EXCEPT !.running = FALSE]
            /\ Go(Host, IF l.async_mode THEN "force_lock" ELSE "joined")
            /\ UNCHANGED <<noting, result>>
    /\ UNCHANGED <<promises, q, owner, unproven, asleep, outputs, calls, kind, slot, target, batch, faults>>

Join ==
    /\ At(Host, "join")
    /\ \/ /\ At(Worker, "exited")
          /\ Go(Host, IF result[Host] = "uncreated" THEN "destroy" ELSE "joined")
          /\ UNCHANGED <<l, result, faults>>
       \/ /\ Meet({<<"thread", "join">>})
          /\ l' = [l EXCEPT !.lifecycle_error = TRUE]
          /\ Go(Host, "retained")
          /\ result' = IF result[Host] = "ok" THEN [result EXCEPT ![Host] = "error"] ELSE result
    /\ UNCHANGED <<promises, q, owner, unproven, asleep, outputs, noting, calls, kind, slot, target, batch>>

Joined ==
    /\ At(Host, "joined")
    /\ \/ /\ l.synchronization_error
          /\ Go(Host, "retained") /\ Answer(Host, "error")
          /\ UNCHANGED <<l, owner, faults>>
       \/ /\ ~l.synchronization_error
          /\ Lock(Host, "emit_mu")
          /\ Go(Host, "final_sync")
          /\ UNCHANGED <<l, result, faults>>
       \/ /\ ~l.synchronization_error
          /\ Meet({<<"lock", "emit_mu">>})
          /\ l' = [l EXCEPT !.lifecycle_error = TRUE]
          /\ Go(Host, "retained") /\ Answer(Host, "error")
          /\ UNCHANGED owner
    /\ UNCHANGED <<promises, q, unproven, asleep, outputs, noting, calls, kind, slot, target, batch>>

\* The last sync, unless the executor failed.
FinalSync ==
    /\ At(Host, "final_sync")
    /\ \E hit \in SUBSET {<<"io", "fsync">>, <<"unlock", "emit_mu">>} :
         /\ IF l.lifecycle_error
            THEN /\ <<"io", "fsync">> \notin hit
                 /\ Meet(hit)
                 /\ Unlock(Host, "emit_mu", hit)
                 /\ NoteIf(Host, hit # {}, "sync")
                 /\ Answer(Host, "error")
                 /\ UNCHANGED <<l, written, durable>>
            ELSE SyncOutputs(Host, hit)
         /\ Go(Host, IF <<"unlock", "emit_mu">> \in hit THEN "retained" ELSE "destroy")
    /\ UNCHANGED <<promises, q, asleep, emitted, failed, calls, kind, slot, target, batch>>

\* The destruction of a mutex that is held or in doubt fails.
Held(part) ==
    \/ part = "queue" /\ (q.wait_mu_error \/ owner["wait_mu"] # None)
    \/ part \in {"emit_mu", "progress_mu"} /\ owner[part] # None

\* Give the next part back; one that cannot be destroyed or unmapped keeps the
\* rest.  A failed close is only reported.  A constructor that rolls back has
\* its own error to report and leaves the state as it is.
Release ==
    /\ At(Host, "destroy")
    /\ LET first == CHOOSE i \in 1..Len(Destruction) :
                       /\ Destruction[i] \in l.built
                       /\ \A j \in 1..(i - 1) : Destruction[j] \notin l.built
           part == Destruction[first]
           Report(bad) == result' = IF bad /\ result[Host] = "ok"
                                    THEN [result EXCEPT ![Host] = "error"] ELSE result
       IN  \/ /\ ~Held(part)
              /\ \E hit \in SUBSET {<<"io", "close">>} :
                   /\ part \notin {"file", "syslog"} => hit = {}
                   /\ Meet(hit)
                   /\ Report(hit # {})
              /\ l' = [l EXCEPT !.built = @ \ {part},
                                !.state = IF part = "object" /\ result[Host] # "uncreated"
                                          THEN "STOPPED" ELSE @]
              /\ Go(Host, IF part = "memory" THEN "freed" ELSE "destroy")
           \/ /\ Meet(IF Held(part) THEN {} ELSE {<<"destroy", part>>})
              /\ l' = [l EXCEPT !.lifecycle_error = @ \/ part # "memory"]
              /\ Go(Host, "retained")
              /\ Report(TRUE)
    /\ UNCHANGED <<promises, q, owner, unproven, asleep, outputs, noting, calls, kind, slot,
                   target, batch>>

-----------------------------------------------------------------------------
ProducerStep(p) ==
    \/ EnterLog(p) \/ Push(p) \/ Refused(p) \/ Publish(p) \/ Probe(p)
    \/ NotifyLock(p) \/ Notify(p) \/ PushFailed(p)
    \/ FormatStatus(p) \/ EmitCheck(p) \/ EmitLock(p) \/ EmitStatus(p)
FlusherStep(f) ==
    \/ EnterFlush(f) \/ FlushCheck(f) \/ FlushTarget(f) \/ FlushLock(f) \/ FlushTest(f)
    \/ FlushAwake(f) \/ FlushError(f) \/ SyncCheck(f) \/ SyncLock(f) \/ Sync(f)
WorkerStep ==
    \/ Drain \/ DrainEnd \/ BatchFormat \/ BatchLock \/ EmitBatch \/ BatchDone
    \/ ProgressLock \/ Progress \/ WaitLock \/ WaitTest \/ WaitRetest \/ WaitAwake
    \/ WaitEnd \/ Final \/ FinalLock \/ Broadcast
HostStep ==
    \/ Acquire \/ StartWorker \/ PublishRunning \/ Rollback
    \/ StopCheck \/ Join \/ Joined \/ FinalSync \/ Release
ForceStep(t) == ForceLock(t) \/ WakeForce(t) \/ ForceFailed(t)

Next ==
    \/ \E p \in Producers : ProducerStep(p) \/ ForceStep(p)
    \/ \E f \in Flushers : FlusherStep(f)
    \/ WorkerStep
    \/ HostStep \/ ForceStep(Host) \/ Destroy
    \/ \E t \in Threads : NoteStep(t) \/ Spurious(t)

Spec == Init /\ [][Next]_vars

\* Every thread that can run does, and the mutexes are granted eventually.
\* Nothing obliges a thread to call the API or the host to destroy.
Running(t) == pc[t] # "idle"
Fairness ==
    /\ \A p \in Producers : SF_vars(Running(p) /\ (ProducerStep(p) \/ ForceStep(p) \/ NoteStep(p)))
    /\ \A f \in Flushers : SF_vars(Running(f) /\ (FlusherStep(f) \/ NoteStep(f)))
    /\ SF_vars(WorkerStep \/ NoteStep(Worker))
    /\ SF_vars(HostStep \/ ForceStep(Host) \/ NoteStep(Host))
FairSpec == Spec /\ Fairness

-----------------------------------------------------------------------------
(* Properties                                                              *)

Labels ==
    [Producers |-> {"idle", "push", "publish", "probe", "notify_lock", "notify", "push_failed",
                    "force_lock", "force", "force_failed", "format", "emit_check", "emit_lock",
                    "emit"},
     Flushers  |-> {"idle", "flush_check", "flush_target", "flush_lock", "flush_test",
                    "flush_asleep", "flush_error", "sync_check", "sync_lock", "sync"},
     Worker    |-> {"none", "drain", "batch_format", "batch_lock", "batch_emit", "batch_done",
                    "progress_lock", "progress", "wait_lock", "wait_test", "wait_retest",
                    "wait_asleep", "wait_end", "final", "final_lock", "broadcast", "exited"},
     Host      |-> {"create", "publish", "rollback", "using", "stop_check", "force_lock", "force",
                    "force_failed", "join", "joined", "final_sync", "destroy", "freed",
                    "retained"}]

\* The variables keep to their types; the queue's positions are in order and
\* at most cap of them are in use.
TypeOK ==
    /\ l \in [state : {"CREATED", "RUNNING", "STOPPING", "STOPPED"}, async_mode : AsyncModes,
              built : SUBSET Parts, running : BOOLEAN,
              first_error : BOOLEAN, lifecycle_error : BOOLEAN,
              synchronization_error : BOOLEAN, completed_pos : Nat, enqueued : Nat,
              dropped : Nat, sync_fallbacks : Nat, async_completed : Nat, sync_completed : Nat]
    /\ q.cap \in Caps \cup {0} /\ q.fifo \in Seq(Records) /\ q.published \subseteq 1..Len(q.fifo)
    /\ q.dequeue_pos \in Nat /\ q.consumer_waiting \in BOOLEAN /\ q.wait_mu_error \in BOOLEAN
    /\ q.dequeue_pos <= Len(q.fifo) /\ Len(q.fifo) <= q.dequeue_pos + q.cap
    /\ owner \in [Mutexes -> Threads \cup {None}]
    /\ unproven \subseteq Threads \X Mutexes /\ asleep \subseteq Flushers \cup {Worker}
    /\ UNION {written, durable, emitted, failed, accepted} \subseteq Records
    /\ due \in [Flushers -> SUBSET Records]
    /\ \A t \in Threads : pc[t] \in CASE t \in Producers -> Labels.Producers
                                      [] t \in Flushers -> Labels.Flushers
                                      [] t = Worker -> Labels.Worker
                                      [] t = Host -> Labels.Host
    /\ noting \in [Threads -> {"nothing", "sync", "life", "stop"}]
    /\ calls \in [Borrowers -> 0..MaxCalls] /\ kind \in [Producers -> {"log", "sync"}]
    /\ slot \in [Producers -> Nat] /\ target \in [Flushers -> Nat]
    /\ result \in [Threads -> {"ok", "error", "uncreated"}]
    /\ batch \in 0..BatchMax /\ faults \in 0..MaxFaults

\* logger_flush returns 0 only if every record whose logging call had
\* returned 0 before the flush began, and every record reserved before its
\* snapshot, is durable: no failure of the worker, of an output or of a mutex
\* is mistaken for success.
FlushIsHonest ==
    \A f \in Flushers :
        At(f, "idle") /\ calls[f] > 0 /\ result[f] = "ok" =>
            due[f] \cup {q.fifo[i] : i \in 1..target[f]} \subseteq durable \ failed

\* logger_log_sync_status returns 0 only if its record is durable.
ConfirmedIsDurable ==
    \A p \in Producers :
        At(p, "idle") /\ calls[p] > 0 /\ kind[p] = "sync" /\ result[p] = "ok" =>
            Record(p) \in durable

\* emitted_records and failed_records count every record once, and add up to
\* async_completed and sync_completed; enqueued counts the reservations.
EveryRecordCounted ==
    /\ emitted \cap failed = {}
    /\ pc[Worker] # "batch_done" =>
         Cardinality(emitted) + Cardinality(failed) = l.async_completed + l.sync_completed
    /\ l.async_completed = q.dequeue_pos - batch
    /\ (\A p \in Producers : pc[p] = "idle") => l.enqueued = Len(q.fifo)

\* Lifetimes nest.  A thread that works on the logger finds every part of it; a
\* logger the host may use has a worker, or a thread is about to say that it
\* stops.  logger_destroy and a failed logger_create free the logger only when
\* the worker is gone, no thread is inside a call or recording an error and no
\* mutex is held, and then leave no part behind; otherwise its memory is kept.
\* logger_destroy never frees a mutex in doubt either; that a failed
\* logger_create does not is DoubtKeepsMemory, which the code breaks.
LifetimesNest ==
    /\ (\E t \in Borrowers \cup {Worker} : pc[t] \notin {"idle", "none", "exited"}) => Complete
    /\ l.async_mode /\ l.state = "RUNNING" /\ pc[Worker] = "exited" =>
         \E t \in Threads : noting[t] # "nothing"
    /\ pc[Host] = "freed" =>
         /\ l.built = {}
         /\ pc[Worker] \in {"none", "exited"}
         /\ \A t \in Threads : noting[t] = "nothing" /\ (t \in Borrowers => pc[t] = "idle")
         /\ \A m \in Mutexes : owner[m] = None
         /\ \A u \in unproven : result[Host] = "uncreated" /\ u[1] = Worker
    /\ pc[Host] = "retained" => "memory" \in l.built

\* A mutex whose release failed is never destroyed and its logger never freed, as
\* logger_internal.h asks.  logger_ctor_rollback reads synchronization_error
\* before it stops and joins the worker and not again after, as dispose_body
\* does: a doubt that the worker of a failed logger_create leaves is not seen.
DoubtKeepsMemory == pc[Host] = "freed" => unproven = {}

\* logger_destroy returns 0 only if every record whose call returned 0 is
\* durable and none failed.
DestroyIsHonest ==
    pc[Host] = "freed" /\ result[Host] = "ok" => accepted \subseteq durable /\ failed = {}

\* Once the worker has left because of a recorded failure and the failure is
\* fully recorded, no flush is left asleep on progress_cv.
ExitWakesWaiters ==
    At(Worker, "exited") /\ l.lifecycle_error /\ (\A t \in Threads : noting[t] = "nothing") =>
        asleep \cap Flushers = {}

\* The mutex a lock step of the model acquires.
Acquires ==
    [force_lock |-> "wait_mu", notify_lock |-> "wait_mu", emit_lock |-> "emit_mu",
     batch_lock |-> "emit_mu", progress_lock |-> "progress_mu", wait_lock |-> "wait_mu",
     final_lock |-> "progress_mu", flush_lock |-> "progress_mu", sync_lock |-> "emit_mu",
     joined |-> "emit_mu"]

\* A thread whose unlock failed does not operate on that mutex again.
UnprovenLockUntouched ==
    \A t \in Threads :
        pc[t] \in DOMAIN Acquires /\ noting[t] = "nothing" =>
            <<t, Acquires[pc[t]]>> \notin unproven

\* Every flush returns: the failures of the worker, of the outputs and of
\* lock, wait and signal calls leave nobody waiting for ever.
FlushReturns == \A f \in Flushers : Running(f) ~> ~Running(f)

\* Every logging call returns.
LogReturns == \A p \in Producers : Running(p) ~> ~Running(p)

\* A host that begins to destroy the logger, or to roll its creation back,
\* ends with the logger freed or deliberately retained.
DestroyReturns ==
    pc[Host] \in {"stop_check", "rollback"} ~> pc[Host] \in {"freed", "retained"}
==============================================================================
