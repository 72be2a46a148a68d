----------------------------- MODULE QueueWakeup -----------------------------
(***************************************************************************)
(* The sleep and wake-up handshake between the producers of a logger, its  *)
(* worker and the thread that stops it: logger_queue_notify_if_waiting,    *)
(* logger_queue_wake_force, the consumer_waiting helpers of logger_queue.h *)
(* and the waiting loop of logger_worker_main, under the release/acquire   *)
(* memory model of C11.                                                    *)
(*                                                                         *)
(* A one-shot store that others load is a fact: x for "slots[x].seq says   *)
(* position x is published", Stop for "running is 0".  stored is the set   *)
(* of facts in the modification orders; view[t] is what happens before     *)
(* thread t.  A load must return a store in the view, may return any       *)
(* other, and, being an acquire load, then learns what the storing thread  *)
(* knew.  A read-modify-write reads the last value of consumer_waiting     *)
(* and, being acq_rel, exchanges knowledge with it; wait_mu does the same. *)
(*                                                                         *)
(* Failures of the pthread calls belong to AsyncLogger.                    *)
(***************************************************************************)
EXTENDS Integers, FiniteSets

CONSTANTS
    Producers,
    MaxPos,     \* bound: number of records pushed in all
    Worker,     \* logger_worker_main
    Stopper,    \* the thread that clears running: logger_destroy, a log call
                \* whose notification failed, or a borrower that notes a
                \* synchronization error
    Stop,       \* the fact "running = 0"
    Free        \* no owner of wait_mu

Positions == 0..(MaxPos - 1)
Facts == Positions \cup {Stop}
Threads == Producers \cup {Worker, Stopper}

ASSUME BoundAssumption == MaxPos \in Nat
ASSUME ThreadsAssumption ==
    /\ Worker \notin Producers /\ Stopper \notin Producers /\ Worker # Stopper
    /\ Free \notin Threads /\ Stop \notin Nat

VARIABLES
    enqueue_pos,        \* the next position to reserve
    dequeue_pos,        \* the next position the worker consumes
    stored,             \* the facts whose store has been executed
    released,           \* released[f]: the view the store of f released
    view,               \* view[t]: the facts that happen before t
    consumer_waiting,   \* the last value in its modification order
    waitingView,        \* what its last modification released
    owner, muView,      \* wait_mu: who holds it, what its last unlock released
    pc,                 \* pc[t]
    held,               \* held[p]: the position producer p reserved
    got,                \* the worker's current drain returned records
    quiesced            \* the stopper had waited for all producers

memVars == <<stored, released, view, consumer_waiting, waitingView, owner, muView>>
vars == <<enqueue_pos, dequeue_pos, memVars, pc, held, got, quiesced>>

Init ==
    /\ enqueue_pos = 0
    /\ dequeue_pos = 0
    /\ stored = {}
    /\ released = [f \in Facts |-> {}]
    /\ view = [t \in Threads |-> {}]
    /\ consumer_waiting = 0
    /\ waitingView = {}
    /\ owner = Free
    /\ muView = {}
    /\ pc = [t \in Threads |-> IF t = Worker THEN "drain" ELSE "idle"]
    /\ held = [p \in Producers |-> 0]
    /\ got = FALSE
    /\ quiesced = FALSE

-----------------------------------------------------------------------------
(* Memory                                                                  *)

Goto(t, from, to) == pc[t] = from /\ pc' = [pc EXCEPT ![t] = to]

\* A release store of fact f by t.
Store(t, f) ==
    /\ stored' = stored \cup {f}
    /\ released' = [released EXCEPT ![f] = view[t] \cup {f}]
    /\ view' = [view EXCEPT ![t] = @ \cup {f}]

\* An acquire load by t that returns, or does not return, the store of f.
Sees(t, f) ==
    /\ f \in stored
    /\ view' = [view EXCEPT ![t] = @ \cup released[f]]
Misses(t, f) == f \notin view[t]

\* An acq_rel read-modify-write of consumer_waiting by t.
ModifyWaiting(t, value) ==
    /\ consumer_waiting' = value
    /\ waitingView' = waitingView \cup view[t]
    /\ view' = [view EXCEPT ![t] = @ \cup waitingView]

\* pthread_mutex_lock and pthread_mutex_unlock of wait_mu.
LockWaitMu(t) ==
    /\ owner = Free
    /\ owner' = t
    /\ view' = [view EXCEPT ![t] = @ \cup muView]
UnlockWaitMu(t) ==
    /\ owner' = Free
    /\ muView' = muView \cup view[t]

\* pthread_cond_signal(&q->wait_cv): only the worker ever waits on it.
Signal(t, from, to) ==
    /\ pc[t] = from
    /\ pc' = [pc EXCEPT ![t] = to,
                        ![Worker] = IF @ = "sleeping" THEN "woken" ELSE @]

-----------------------------------------------------------------------------
(* A producer: logger_queue_push from the reservation on                   *)

\* Pushes begin until the host has quiesced its producers and stops.
Reserve(p) ==
    /\ Goto(p, "idle", "publish")
    /\ enqueue_pos < MaxPos
    /\ ~quiesced
    /\ held' = [held EXCEPT ![p] = enqueue_pos]
    /\ enqueue_pos' = enqueue_pos + 1
    /\ UNCHANGED <<dequeue_pos, memVars, got, quiesced>>

Publish(p) ==
    /\ Goto(p, "publish", "probe")
    /\ Store(p, held[p])
    /\ UNCHANGED <<enqueue_pos, dequeue_pos, consumer_waiting, waitingView,
                   owner, muView, held, got, quiesced>>

\* Mutant: the probe is an acquire load instead of a read-modify-write.
ProbeLoads(p) ==
    /\ Goto(p, "probe", IF consumer_waiting = 0 THEN "idle" ELSE "lock")
    /\ view' = [view EXCEPT ![p] = @ \cup waitingView]
    /\ UNCHANGED <<enqueue_pos, dequeue_pos, stored, released,
                   consumer_waiting, waitingView, owner, muView, held, got,
                   quiesced>>

\* logger_queue_wait_probe_after_publish: fetch_or(0)
Probe(p) ==
    /\ Goto(p, "probe", IF consumer_waiting = 0 THEN "idle" ELSE "lock")
    /\ ModifyWaiting(p, consumer_waiting)
    /\ UNCHANGED <<enqueue_pos, dequeue_pos, stored, released, owner, muView,
                   held, got, quiesced>>

Lock(t) ==
    /\ Goto(t, "lock", "claim")
    /\ LockWaitMu(t)
    /\ UNCHANGED <<enqueue_pos, dequeue_pos, stored, released,
                   consumer_waiting, waitingView, muView, held, got, quiesced>>

\* logger_queue_wait_claim_signal: exchange(0)
ClaimSignal(p) ==
    /\ Goto(p, "claim", IF consumer_waiting = 0 THEN "unlock" ELSE "signal")
    /\ ModifyWaiting(p, 0)
    /\ UNCHANGED <<enqueue_pos, dequeue_pos, stored, released, owner, muView,
                   held, got, quiesced>>

CondSignal(t) ==
    /\ Signal(t, "signal", "unlock")
    /\ UNCHANGED <<enqueue_pos, dequeue_pos, memVars, held, got, quiesced>>

Unlock(t, to) ==
    /\ Goto(t, "unlock", to)
    /\ UnlockWaitMu(t)
    /\ UNCHANGED <<enqueue_pos, dequeue_pos, stored, released, view,
                   consumer_waiting, waitingView, held, got, quiesced>>

ProducerStep(p) ==
    \/ Reserve(p) \/ Publish(p) \/ Probe(p) \/ Lock(p) \/ ClaimSignal(p)
    \/ CondSignal(p) \/ Unlock(p, "idle")

-----------------------------------------------------------------------------
(* The stopper                                                             *)

\* logger_destroy: the caller has stopped its producers, so what they did
\* happens before the store to running.
StopQuiesced ==
    /\ Goto(Stopper, "idle", "lock")
    /\ \A p \in Producers : pc[p] = "idle"
    /\ LET known == UNION {view[p] : p \in Producers}
       IN  /\ stored' = stored \cup {Stop}
           /\ released' = [released EXCEPT ![Stop] = known \cup {Stop}]
           /\ view' = [view EXCEPT ![Stopper] = known \cup {Stop}]
    /\ quiesced' = TRUE
    /\ UNCHANGED <<enqueue_pos, dequeue_pos, consumer_waiting, waitingView,
                   owner, muView, held, got>>

\* Mutant: the log call forgets the forced wake-up.
StopAbruptNoWake ==
    /\ Goto(Stopper, "idle", "done")
    /\ Store(Stopper, Stop)
    /\ UNCHANGED <<enqueue_pos, dequeue_pos, consumer_waiting, waitingView,
                   owner, muView, held, got, quiesced>>

\* vlog_body after a failed notification: logger_note_lifecycle_error clears
\* running at any time, and the log call forces a wake-up.
StopAbrupt ==
    /\ Goto(Stopper, "idle", "lock")
    /\ Store(Stopper, Stop)
    /\ UNCHANGED <<enqueue_pos, dequeue_pos, consumer_waiting, waitingView,
                   owner, muView, held, got, quiesced>>

\* logger_note_synchronization_error by any borrower whose unlock failed
\* (emit_one, a flush, a reopen): running is cleared and nobody is woken.
\* logger_destroy then returns at the latched error, before its own forced
\* wake-up and before the join.
StopSilent ==
    /\ Goto(Stopper, "idle", "silent")
    /\ Store(Stopper, Stop)
    /\ UNCHANGED <<enqueue_pos, dequeue_pos, consumer_waiting, waitingView,
                   owner, muView, held, got, quiesced>>

\* logger_queue_wake_force: disarm and signal under wait_mu.
ForceDisarm ==
    /\ Goto(Stopper, "claim", "signal")
    /\ ModifyWaiting(Stopper, 0)
    /\ UNCHANGED <<enqueue_pos, dequeue_pos, stored, released, owner, muView,
                   held, got, quiesced>>

StopperStep ==
    \/ StopQuiesced \/ StopAbrupt \/ StopSilent \/ Lock(Stopper)
    \/ ForceDisarm \/ CondSignal(Stopper) \/ Unlock(Stopper, "done")

-----------------------------------------------------------------------------
(* The worker                                                              *)

\* logger_queue_try_pop finds the next position published.
Pop ==
    /\ pc[Worker] = "drain"
    /\ Sees(Worker, dequeue_pos)
    /\ dequeue_pos' = dequeue_pos + 1
    /\ got' = TRUE
    /\ UNCHANGED <<enqueue_pos, stored, released, consumer_waiting, waitingView,
                   owner, muView, pc, held, quiesced>>

\* It finds nothing: a batch is written and the queue drained again; an empty
\* drain leads to the wait.
DrainEnds ==
    /\ Goto(Worker, "drain", IF got THEN "drain" ELSE "acquire")
    /\ Misses(Worker, dequeue_pos)
    /\ got' = FALSE
    /\ UNCHANGED <<enqueue_pos, dequeue_pos, memVars, held, quiesced>>

\* Before the loop, and in pthread_cond_wait after a signal.
Acquire(from) ==
    /\ Goto(Worker, from, "check")
    /\ LockWaitMu(Worker)
    /\ UNCHANGED <<enqueue_pos, dequeue_pos, stored, released,
                   consumer_waiting, waitingView, muView, held, got, quiesced>>

\* !logger_queue_empty(&l->q) || !running: a record, or the stop, is seen.
LeaveLoop(from) ==
    /\ Goto(Worker, from, "disarm")
    /\ \/ Sees(Worker, dequeue_pos)
       \/ Misses(Worker, dequeue_pos) /\ Sees(Worker, Stop)
    /\ UNCHANGED <<enqueue_pos, dequeue_pos, stored, released,
                   consumer_waiting, waitingView, owner, muView, held, got,
                   quiesced>>

\* Neither is seen.
StayInLoop(from, to) ==
    /\ Goto(Worker, from, to)
    /\ Misses(Worker, dequeue_pos) /\ Misses(Worker, Stop)
    /\ UNCHANGED <<enqueue_pos, dequeue_pos, memVars, held, got, quiesced>>

\* Mutant: no second look after consumer_waiting is set.
ArmNoRecheck ==
    /\ Goto(Worker, "arm", "wait")
    /\ ModifyWaiting(Worker, 1)
    /\ UNCHANGED <<enqueue_pos, dequeue_pos, stored, released, owner, muView,
                   held, got, quiesced>>

\* logger_queue_wait_arm_recheck: exchange(1)
Arm ==
    /\ Goto(Worker, "arm", "recheck")
    /\ ModifyWaiting(Worker, 1)
    /\ UNCHANGED <<enqueue_pos, dequeue_pos, stored, released, owner, muView,
                   held, got, quiesced>>

\* pthread_cond_wait releases wait_mu and sleeps in one step.
CondWait ==
    /\ Goto(Worker, "wait", "sleeping")
    /\ UnlockWaitMu(Worker)
    /\ UNCHANGED <<enqueue_pos, dequeue_pos, stored, released, view,
                   consumer_waiting, waitingView, held, got, quiesced>>

SpuriousWakeup ==
    /\ Goto(Worker, "sleeping", "woken")
    /\ UNCHANGED <<enqueue_pos, dequeue_pos, memVars, held, got, quiesced>>

\* logger_queue_wait_disarm: exchange(0)
Disarm ==
    /\ Goto(Worker, "disarm", "stop")
    /\ ModifyWaiting(Worker, 0)
    /\ UNCHANGED <<enqueue_pos, dequeue_pos, stored, released, owner, muView,
                   held, got, quiesced>>

\* Mutant: a stopped worker leaves without looking at the queue again.
DecideOnStopAlone ==
    /\ \/ /\ Goto(Worker, "stop", "last")
          /\ Sees(Worker, Stop)
       \/ /\ Goto(Worker, "stop", "unlock")
          /\ Misses(Worker, Stop)
          /\ UNCHANGED view
    /\ UNCHANGED <<enqueue_pos, dequeue_pos, stored, released,
                   consumer_waiting, waitingView, owner, muView, held, got,
                   quiesced>>

\* stop = !running && logger_queue_empty(&l->q), in this order: the acquire
\* load of running brings the publications that happen before the stop.
Decide ==
    /\ \/ /\ Goto(Worker, "stop", "last")
          /\ Sees(Worker, Stop)
          /\ dequeue_pos \notin view'[Worker]
       \/ /\ Goto(Worker, "stop", "unlock")
          /\ {Stop, dequeue_pos} \subseteq stored
          /\ view' = [view EXCEPT ![Worker] =
                        @ \cup released[Stop] \cup released[dequeue_pos]]
       \/ /\ Goto(Worker, "stop", "unlock")
          /\ Misses(Worker, Stop)
          /\ UNCHANGED view
    /\ UNCHANGED <<enqueue_pos, dequeue_pos, stored, released,
                   consumer_waiting, waitingView, owner, muView, held, got,
                   quiesced>>

\* Unlock and leave: logger_worker_main returns.
Exit ==
    /\ Goto(Worker, "last", "exited")
    /\ UnlockWaitMu(Worker)
    /\ UNCHANGED <<enqueue_pos, dequeue_pos, stored, released, view,
                   consumer_waiting, waitingView, held, got, quiesced>>

WorkerStep ==
    \/ Pop \/ DrainEnds \/ Acquire("acquire") \/ Acquire("woken")
    \/ LeaveLoop("check") \/ StayInLoop("check", "arm") \/ Arm
    \/ LeaveLoop("recheck") \/ StayInLoop("recheck", "wait") \/ CondWait
    \/ Disarm \/ Decide \/ Unlock(Worker, "drain") \/ Exit

Next ==
    \/ \E p \in Producers : ProducerStep(p)
    \/ StopperStep
    \/ WorkerStep
    \/ SpuriousWakeup

Spec == Init /\ [][Next]_vars

\* The scheduler runs every thread that can move; wait_mu is handed out
\* without starvation.  No thread is obliged to push or to stop, and nothing
\* promises a spurious wake-up.
Fairness ==
    /\ \A p \in Producers :
        /\ WF_vars(Publish(p)) /\ WF_vars(Probe(p)) /\ SF_vars(Lock(p))
        /\ WF_vars(ClaimSignal(p)) /\ WF_vars(CondSignal(p))
        /\ WF_vars(Unlock(p, "idle"))
    /\ SF_vars(Lock(Stopper)) /\ WF_vars(ForceDisarm)
    /\ WF_vars(CondSignal(Stopper)) /\ WF_vars(Unlock(Stopper, "done"))
    /\ WF_vars(WorkerStep)
    /\ SF_vars(Acquire("acquire")) /\ SF_vars(Acquire("woken"))

FairSpec == Spec /\ Fairness

-----------------------------------------------------------------------------
(* Properties                                                              *)

\* Positions are reserved before they are consumed, facts are known only once
\* stored, and wait_mu has at most one owner.
TypeOK ==
    /\ enqueue_pos \in 0..MaxPos /\ dequeue_pos \in 0..enqueue_pos
    /\ stored \in SUBSET Facts
    /\ released \in [Facts -> SUBSET stored]
    /\ view \in [Threads -> SUBSET stored]
    /\ consumer_waiting \in {0, 1}
    /\ waitingView \in SUBSET stored /\ muView \in SUBSET stored
    /\ owner \in Threads \cup {Free}
    /\ held \in [Producers -> 0..MaxPos]
    /\ got \in BOOLEAN /\ quiesced \in BOOLEAN

\* Somebody is on the way to signal the worker.
SignalComing ==
    \E t \in Threads \ {Worker} :
        \/ pc[t] = "signal"
        \/ pc[t] \in {"probe", "lock", "claim"} /\ consumer_waiting = 1

\* running was cleared by a thread that forces a wake-up after it.
StopIsAnnounced == Stop \in stored /\ pc[Stopper] # "silent"

\* The dangerous outcome of docs/v2/QUEUE_WAKEUP_PROOF.md: the worker sleeps
\* on a published record, or on an announced stop, that nobody will tell it
\* about.  On a silent stop the worker may sleep: nothing in the code wakes it.
NoLostWakeup ==
    pc[Worker] = "sleeping" /\ (dequeue_pos \in stored \/ StopIsAnnounced)
        => SignalComing

\* logger_destroy loses nothing: when the worker has left after a quiesced
\* stop, every record that was pushed has been consumed.
NothingLeftBehind ==
    pc[Worker] = "exited" /\ quiesced => dequeue_pos = enqueue_pos

\* A published record at the head of the queue is consumed in the end unless
\* the worker has left: a stop alone, announced or silent, excuses nobody.
HeadIsConsumed ==
    \A x \in Positions :
        (x \in stored /\ dequeue_pos = x) ~> (dequeue_pos > x \/ pc[Worker] = "exited")

\* A worker whose stop is announced leaves, so that pthread_join in
\* logger_destroy returns.
StopIsObeyed == StopIsAnnounced ~> (pc[Worker] = "exited")
==============================================================================
