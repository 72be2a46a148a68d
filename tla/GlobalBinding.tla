---------------------------- MODULE GlobalBinding ----------------------------
(***************************************************************************)
(* The default slot of logger_global.c: threads that log, flush or read    *)
(* metrics through the default instance, threads that rebind it with       *)
(* logger_default_set, and the host that destroys instances with           *)
(* logger_destroy.  The slot borrows an instance and never owns one.       *)
(*                                                                         *)
(* As docs/v2/DEFAULT_BORROW.md asks of the host, no instance is destroyed *)
(* while a logger_default_set that names it is in progress.  A freed       *)
(* instance may come back as a new one at the same address.                *)
(***************************************************************************)
EXTENDS Integers, FiniteSets

CONSTANTS
    Readers,        \* threads that use the default instance
    Controllers,    \* threads that call logger_default_set
    Instances,      \* addresses of logger instances
    NULL,           \* no instance
    MaxGeneration,  \* UINT64_MAX >> PHASE_BITS
    MaxFaults       \* bound: lock and unlock calls that fail

Callers == Readers \cup Controllers
Slots == Instances \cup {NULL}
Phases == {"IDLE", "RUNNING", "STOPPING", "BROKEN"}
Tickets == [generation : 0..MaxGeneration, phase : Phases]

ASSUME CallersAssumption == Readers \cap Controllers = {} /\ NULL \notin Callers
ASSUME InstancesAssumption == NULL \notin Instances
ASSUME BoundsAssumption == MaxGeneration \in Nat /\ MaxFaults \in Nat

VARIABLES
    g_ticket,           \* phase and generation in one atomic word
    g_lock_error,       \* a release could not be proved
    g_logger,           \* the default instance
    control,            \* holder of g_control_mu
    reading, writing,   \* holders of g_lifetime_lock
    default_borrowed,   \* default_borrowed[i]
    state,              \* state[i]: "RUNNING", "STOPPING", "DYING" inside
                        \* logger_destroy, or "FREED"
    pc,                 \* pc[t]
    seen,               \* seen[t]: the ticket t observed when it began
    current,            \* current[c]: the ticket c found under g_control_mu
    expected, replacement,  \* the arguments of a controller
    used,               \* used[r]: the instance a reader works with
    release_borrow,     \* scope.release_borrow of a controller
    faults

locks == <<control, reading, writing>>
args == <<expected, replacement>>
locals == <<current, args>>
vars == <<g_ticket, g_lock_error, g_logger, locks, default_borrowed, state, pc, seen, locals, used,
          release_borrow, faults>>

Unset == [generation |-> 0, phase |-> "IDLE"]

\* The zeroed runtime domain, with the host's instances created.
Init ==
    /\ g_ticket = Unset
    /\ g_lock_error = FALSE
    /\ g_logger = NULL
    /\ control = NULL /\ reading = {} /\ writing = NULL
    /\ default_borrowed = [i \in Instances |-> FALSE]
    /\ state = [i \in Instances |-> "RUNNING"]
    /\ pc = [t \in Callers |-> "idle"]
    /\ seen = [t \in Callers |-> Unset]
    /\ current = [c \in Controllers |-> Unset]
    /\ expected = [c \in Controllers |-> NULL]
    /\ replacement = [c \in Controllers |-> NULL]
    /\ used = [r \in Readers |-> NULL]
    /\ release_borrow = [c \in Controllers |-> NULL]
    /\ faults = 0

Goto(t, from, to) == pc[t] = from /\ pc' = [pc EXCEPT ![t] = to]
Fault == faults < MaxFaults /\ faults' = faults + 1

\* The instances a logger_default_set in progress names.
Named(c) == IF pc[c] \in {"idle", "lost"} THEN {} ELSE {expected[c], replacement[c]}

-----------------------------------------------------------------------------
(* Entry and exit of every default API: begin and finish_result            *)

\* Release g_lifetime_lock, then g_control_mu, if t holds them.  A thread
\* whose release fails poisons the slot and keeps g_in_global: it can never
\* enter again.
UnlockLifetime(t) ==
    /\ pc[t] = "finish"
    /\ \/ /\ reading' = reading \ {t}
          /\ writing' = IF writing = t THEN NULL ELSE writing
          /\ pc' = [pc EXCEPT ![t] = IF control = t THEN "finish_control" ELSE "leave"]
          /\ UNCHANGED faults
       \/ /\ t \in reading \/ writing = t
          /\ Fault
          /\ \/ UNCHANGED <<reading, writing>>
             \/ reading' = reading \ {t} /\ writing' = IF writing = t THEN NULL ELSE writing
          /\ pc' = [pc EXCEPT ![t] = "poison"]
    /\ UNCHANGED <<g_ticket, g_lock_error, g_logger, control, default_borrowed, state, seen, locals,
                   used, release_borrow>>

UnlockControl(t) ==
    /\ pc[t] = "finish_control"
    /\ \/ /\ control' = IF control = t THEN NULL ELSE control
          /\ pc' = [pc EXCEPT ![t] = "leave"]
          /\ UNCHANGED faults
       \/ /\ control = t
          /\ Fault
          /\ control' \in {control, NULL}
          /\ pc' = [pc EXCEPT ![t] = "poison"]
    /\ UNCHANGED <<g_ticket, g_lock_error, g_logger, reading, writing, default_borrowed, state,
                   seen, locals, used, release_borrow>>

\* Mutant: the mark is cleared although an unlock failed.
PoisonErrorReturnsBorrow(t) ==
    /\ Goto(t, "poison", "poison_ticket")
    /\ g_lock_error' = TRUE
    /\ default_borrowed' = IF t \in Controllers /\ release_borrow[t] # NULL
                           THEN [default_borrowed EXCEPT ![release_borrow[t]] = FALSE]
                           ELSE default_borrowed
    /\ UNCHANGED <<g_ticket, g_logger, locks, state, seen, locals, used, release_borrow, faults>>

\* global_lock_poison: first the error, then BROKEN in whatever generation.
PoisonError(t) ==
    /\ Goto(t, "poison", "poison_ticket")
    /\ g_lock_error' = TRUE
    /\ UNCHANGED <<g_ticket, g_logger, locks, default_borrowed, state, seen, locals, used,
                   release_borrow, faults>>

\* The locals of the call go with it.
Forget(t) ==
    /\ seen' = [seen EXCEPT ![t] = Unset]
    /\ IF t \in Controllers
       THEN /\ current' = [current EXCEPT ![t] = Unset]
            /\ expected' = [expected EXCEPT ![t] = NULL]
            /\ replacement' = [replacement EXCEPT ![t] = NULL]
       ELSE UNCHANGED locals

PoisonTicket(t) ==
    /\ Goto(t, "poison_ticket", "lost")
    /\ g_ticket' = [g_ticket EXCEPT !.phase = "BROKEN"]
    /\ Forget(t)
    /\ UNCHANGED <<g_lock_error, g_logger, locks, default_borrowed, state, used, release_borrow,
                   faults>>

\* All locks are released: give the borrow back, clear g_in_global.
Leave(t) ==
    /\ Goto(t, "leave", "idle")
    /\ Forget(t)
    /\ IF t \in Controllers
       THEN /\ default_borrowed' = [i \in Instances |->
                                     default_borrowed[i] /\ i # release_borrow[t]]
            /\ release_borrow' = [release_borrow EXCEPT ![t] = NULL]
       ELSE UNCHANGED <<default_borrowed, release_borrow>>
    /\ UNCHANGED <<g_ticket, g_lock_error, g_logger, locks, state, used, faults>>

Finish(t) == UnlockLifetime(t) \/ UnlockControl(t) \/ PoisonError(t) \/ PoisonTicket(t) \/ Leave(t)

-----------------------------------------------------------------------------
(* A reader: begin, pin, the instance call, finish_result                  *)

\* Mutant: a reader joins whatever the phase.
PinLoadUngated(r) ==
    /\ Goto(r, "idle", "rdlock")
    /\ ~g_lock_error /\ g_ticket.phase \in {"RUNNING", "STOPPING"}
    /\ seen' = [seen EXCEPT ![r] = g_ticket]
    /\ UNCHANGED <<g_ticket, g_lock_error, g_logger, locks, default_borrowed, state, locals, used,
                   release_borrow, faults>>

\* begin, and pin up to the lock.  Only a RUNNING ticket admits; a refused
\* call returns without having touched anything.
PinLoad(r) ==
    /\ Goto(r, "idle", "rdlock")
    /\ ~g_lock_error /\ g_ticket.phase = "RUNNING"
    /\ seen' = [seen EXCEPT ![r] = g_ticket]
    /\ UNCHANGED <<g_ticket, g_lock_error, g_logger, locks, default_borrowed, state, locals, used,
                   release_borrow, faults>>

PinLock(r) ==
    /\ \/ /\ Goto(r, "rdlock", "pin")
          /\ writing = NULL
          /\ reading' = reading \cup {r}
          /\ UNCHANGED faults
       \/ /\ Goto(r, "rdlock", "finish")
          /\ Fault
          /\ UNCHANGED reading
    /\ UNCHANGED <<g_ticket, g_lock_error, g_logger, control, writing, default_borrowed, state,
                   seen, locals, used, release_borrow>>

\* Mutant: the ticket is not compared again under the lock.
PinCheckStale(r) ==
    /\ Goto(r, "pin", IF g_logger = NULL THEN "finish" ELSE "use")
    /\ used' = [used EXCEPT ![r] = g_logger]
    /\ UNCHANGED <<g_ticket, g_lock_error, g_logger, locks, default_borrowed, state, seen, locals,
                   release_borrow, faults>>

\* pin under the lock: no poison, and still the ticket that was observed.
PinCheck(r) ==
    /\ IF ~g_lock_error /\ g_ticket = seen[r] /\ g_logger # NULL
       THEN Goto(r, "pin", "use") /\ used' = [used EXCEPT ![r] = g_logger]
       ELSE Goto(r, "pin", "finish") /\ UNCHANGED used
    /\ UNCHANGED <<g_ticket, g_lock_error, g_logger, locks, default_borrowed, state, seen, locals,
                   release_borrow, faults>>

\* logger_vlog_internal, logger_flush, logger_reopen or a metrics snapshot on
\* g_logger returns.
UseEnd(r) ==
    /\ Goto(r, "use", "finish")
    /\ used' = [used EXCEPT ![r] = NULL]
    /\ UNCHANGED <<g_ticket, g_lock_error, g_logger, locks, default_borrowed, state, seen, locals,
                   release_borrow, faults>>

Reader(r) == PinLock(r) \/ PinCheck(r) \/ UseEnd(r) \/ Finish(r)

-----------------------------------------------------------------------------
(* A controller: logger_default_set(expected, replacement)                 *)

SetBegin(c) ==
    /\ Goto(c, "idle", "control")
    /\ ~g_lock_error /\ g_ticket.phase # "STOPPING"
    /\ \E e, r \in Slots :
         /\ \A i \in {e, r} \ {NULL} : state[i] \in {"RUNNING", "STOPPING"}
         /\ expected' = [expected EXCEPT ![c] = e]
         /\ replacement' = [replacement EXCEPT ![c] = r]
    /\ seen' = [seen EXCEPT ![c] = g_ticket]
    /\ UNCHANGED <<g_ticket, g_lock_error, g_logger, locks, default_borrowed, state, current, used,
                   release_borrow, faults>>

LockControl(c) ==
    /\ \/ /\ control = NULL
          /\ control' = c
          /\ Goto(c, "control", IF g_lock_error THEN "finish" ELSE "validate")
          /\ UNCHANGED faults
       \/ /\ Goto(c, "control", "finish")
          /\ Fault
          /\ UNCHANGED control
    /\ UNCHANGED <<g_ticket, g_lock_error, g_logger, reading, writing, default_borrowed, state,
                   seen, locals, used, release_borrow>>

\* The replacement can be lent: it runs and no earlier loan is open.
Lendable(i) == i # NULL => state[i] = "RUNNING" /\ ~default_borrowed[i]

\* Mutant: only the pointer is compared, not the generation.
ValidatePointerOnly(c) ==
    /\ Goto(c, "validate", IF /\ g_logger = expected[c] /\ expected[c] # replacement[c]
                              /\ Lendable(replacement[c])
                              /\ g_ticket.generation < MaxGeneration
                           THEN "close" ELSE "finish")
    /\ current' = [current EXCEPT ![c] = g_ticket]
    /\ UNCHANGED <<g_ticket, g_lock_error, g_logger, locks, default_borrowed, state, seen, args,
                   used, release_borrow, faults>>

\* Mutant: the last generation is not the last.
ValidateOverflows(c) ==
    /\ Goto(c, "validate", IF /\ g_ticket = seen[c] /\ g_logger = expected[c]
                              /\ expected[c] # replacement[c]
                              /\ Lendable(replacement[c])
                           THEN "close" ELSE "finish")
    /\ current' = [current EXCEPT ![c] = g_ticket]
    /\ UNCHANGED <<g_ticket, g_lock_error, g_logger, locks, default_borrowed, state, seen, args,
                   used, release_borrow, faults>>

\* The checks under g_control_mu: the ticket and pointer are still the ones
\* the caller spoke of, the replacement can be lent, a generation is left.
Validate(c) ==
    /\ Goto(c, "validate", IF /\ g_ticket = seen[c] /\ g_logger = expected[c]
                              /\ expected[c] # replacement[c]
                              /\ Lendable(replacement[c])
                              /\ g_ticket.generation < MaxGeneration
                           THEN "close" ELSE "finish")
    /\ current' = [current EXCEPT ![c] = g_ticket]
    /\ UNCHANGED <<g_ticket, g_lock_error, g_logger, locks, default_borrowed, state, seen, args,
                   used, release_borrow, faults>>

\* Close admission by compare-and-swap.
Close(c) ==
    /\ IF g_ticket = current[c]
       THEN Goto(c, "close", "wrlock") /\ g_ticket' = [g_ticket EXCEPT !.phase = "STOPPING"]
       ELSE Goto(c, "close", "finish") /\ UNCHANGED g_ticket
    /\ UNCHANGED <<g_lock_error, g_logger, locks, default_borrowed, state, seen, locals, used,
                   release_borrow, faults>>

Updating(c) == [current[c] EXCEPT !.phase = "STOPPING"]

\* Wait for the readers inside; if the lock fails, reopen admission unless
\* the slot was poisoned meanwhile.
Drain(c) ==
    /\ \/ /\ writing = NULL /\ reading = {}
          /\ writing' = c
          /\ Goto(c, "wrlock", IF g_lock_error THEN "finish" ELSE "install")
          /\ UNCHANGED <<g_ticket, faults>>
       \/ /\ Goto(c, "wrlock", "finish")
          /\ Fault
          /\ g_ticket' = IF g_ticket = Updating(c) THEN current[c] ELSE g_ticket
          /\ UNCHANGED writing
    /\ UNCHANGED <<g_lock_error, g_logger, control, reading, default_borrowed, state, seen, locals,
                   used, release_borrow>>

\* Under the write lock: mark the replacement, put it into the slot.
Install(c) ==
    /\ Goto(c, "install", "publish")
    /\ default_borrowed' = [i \in Instances |-> default_borrowed[i] \/ i = replacement[c]]
    /\ g_logger' = replacement[c]
    /\ UNCHANGED <<g_ticket, g_lock_error, locks, state, seen, locals, used, release_borrow, faults>>

\* Publish the next generation by compare-and-swap; a poisoned slot keeps its
\* old pointer.  Whichever instance left the slot is given back on the way out.
Publish(c) ==
    /\ Goto(c, "publish", "finish")
    /\ IF g_ticket = Updating(c)
       THEN /\ g_ticket' = [generation |-> current[c].generation + 1,
                            phase |-> IF replacement[c] = NULL THEN "IDLE" ELSE "RUNNING"]
            /\ release_borrow' = [release_borrow EXCEPT ![c] = expected[c]]
            /\ UNCHANGED g_logger
       ELSE /\ g_logger' = expected[c]
            /\ release_borrow' = [release_borrow EXCEPT ![c] = replacement[c]]
            /\ UNCHANGED g_ticket
    /\ UNCHANGED <<g_lock_error, locks, default_borrowed, state, seen, locals, used, faults>>

Controller(c) ==
    \/ LockControl(c) \/ Validate(c) \/ Close(c) \/ Drain(c) \/ Install(c) \/ Publish(c)
    \/ Finish(c)

-----------------------------------------------------------------------------
(* The host and its instances                                              *)

\* logger_destroy refuses an instance that is lent; otherwise it is consumed.
DestroyCheck(i) ==
    /\ state[i] \in {"RUNNING", "STOPPING"}
    /\ \A c \in Controllers : i \notin Named(c)
    /\ ~default_borrowed[i]
    /\ state' = [state EXCEPT ![i] = "DYING"]
    /\ UNCHANGED <<g_ticket, g_lock_error, g_logger, locks, default_borrowed, pc, seen, locals,
                   used, release_borrow, faults>>

DestroyFree(i) ==
    /\ state[i] = "DYING"
    /\ state' = [state EXCEPT ![i] = "FREED"]
    /\ UNCHANGED <<g_ticket, g_lock_error, g_logger, locks, default_borrowed, pc, seen, locals,
                   used, release_borrow, faults>>

\* A new instance at the address of a freed one.
CreateAgain(i) ==
    /\ state[i] = "FREED"
    /\ state' = [state EXCEPT ![i] = "RUNNING"]
    /\ default_borrowed' = [default_borrowed EXCEPT ![i] = FALSE]
    /\ UNCHANGED <<g_ticket, g_lock_error, g_logger, locks, pc, seen, locals, used, release_borrow,
                   faults>>

\* logger_note_lifecycle_error on an instance.
Fail(i) ==
    /\ state[i] = "RUNNING"
    /\ state' = [state EXCEPT ![i] = "STOPPING"]
    /\ UNCHANGED <<g_ticket, g_lock_error, g_logger, locks, default_borrowed, pc, seen, locals,
                   used, release_borrow, faults>>

-----------------------------------------------------------------------------
Next ==
    \/ \E r \in Readers : PinLoad(r) \/ Reader(r)
    \/ \E c \in Controllers : SetBegin(c) \/ Controller(c)
    \/ \E i \in Instances : DestroyCheck(i) \/ DestroyFree(i) \/ CreateAgain(i) \/ Fail(i)

Spec == Init /\ [][Next]_vars

\* A thread inside a call keeps running; g_control_mu is granted in the end,
\* the lock only when it stays free (readers are preferred over the writer).
Fairness ==
    /\ \A r \in Readers : WF_vars(Reader(r))
    /\ \A c \in Controllers : WF_vars(Controller(c)) /\ SF_vars(LockControl(c))
FairSpec == Spec /\ Fairness

-----------------------------------------------------------------------------
(* Properties                                                              *)

\* The variables keep to their types; a generation never passes the last one the
\* ticket has bits for.
TypeOK ==
    /\ g_ticket \in Tickets /\ g_lock_error \in BOOLEAN /\ g_logger \in Slots
    /\ control \in Controllers \cup {NULL} /\ reading \subseteq Readers
    /\ writing \in Controllers \cup {NULL}
    /\ default_borrowed \in [Instances -> BOOLEAN]
    /\ state \in [Instances -> {"RUNNING", "STOPPING", "DYING", "FREED"}]
    /\ pc \in [Callers -> {"idle", "rdlock", "pin", "use", "control", "validate", "close",
                           "wrlock", "install", "publish", "finish", "finish_control", "leave",
                           "poison", "poison_ticket", "lost"}]
    /\ seen \in [Callers -> Tickets] /\ current \in [Controllers -> Tickets] /\ used \in [Readers -> Slots]
    /\ expected \in [Controllers -> Slots] /\ replacement \in [Controllers -> Slots]
    /\ release_borrow \in [Controllers -> Slots] /\ faults \in 0..MaxFaults

\* An instance that the slot holds, a reader works with, or a controller has
\* still to give back is marked, not inside logger_destroy and not freed.
BorrowedIsAlive ==
    \A i \in Instances :
        \/ g_logger = i \/ \E r \in Readers : used[r] = i
        \/ \E c \in Controllers : release_borrow[c] = i
        => default_borrowed[i] /\ state[i] \in {"RUNNING", "STOPPING"}

\* A reader works with the instance of the generation it observed: a delayed
\* call is refused, never redirected to a later default instance.
ReaderKeepsGeneration ==
    \A r \in Readers :
        pc[r] = "use" => used[r] = g_logger /\ g_ticket.generation = seen[r].generation

\* A controller that changes the slot changes the very binding its caller
\* observed, even if the same pointer was unbound and bound again since.
RebindIsFresh ==
    \A c \in Controllers :
        pc[c] \in {"wrlock", "install", "publish"} =>
            /\ g_ticket.generation = seen[c].generation
            /\ pc[c] # "publish" => g_logger = expected[c]

\* Every logger_default_set returns although readers keep coming and are
\* preferred over the writer, and other controllers rebind meanwhile: a closed
\* ticket keeps them out.  A thread whose unlock failed never enters again and
\* may leave the slot locked for ever; only that excuses.  ([]<> of "outside a
\* call" says that no call goes on for ever.)
RebindReturns ==
    \A c \in Controllers :
        []<>(pc[c] = "idle" \/ \E t \in Callers : pc[t] = "lost")
==============================================================================
