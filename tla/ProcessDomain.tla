---------------------------- MODULE ProcessDomain ----------------------------
(***************************************************************************)
(* logger_process.c, logger_runtime.c, logger_fork_fd.c, logger_libc.c and *)
(* logger_scope.c: the process domain.  Threads initialise it, enter and   *)
(* leave the library, acquire and release descriptors and mappings under   *)
(* resource_mu, format under format_mu, and fork at any moment.            *)
(*                                                                         *)
(* Parent and child share no memory, so a behaviour follows one process:   *)
(* at a fork it goes on as the parent or, with the forking thread alone,   *)
(* as the child.  Children follow the contract of logger.h: they call      *)
(* logger_process_init before they create threads, and a child forked from *)
(* inside the library does not return into it.  The host does not close    *)
(* the library's descriptors.                                              *)
(***************************************************************************)
EXTENDS Integers, FiniteSets

CONSTANTS
    Threads,
    Fds,            \* descriptor numbers
    Maps,           \* mappings for instances, queues and work spaces
    None, Lost,     \* a mutex that is free, or in an unknown state
    MaxObjects,     \* the limit of live_objects
    MaxForks,       \* bound: calls of fork
    MaxFaults       \* bound: calls that fail

ASSUME NamesAssumption ==
    /\ {None, Lost} \cap Threads = {} /\ None # Lost
    /\ Fds \cap Maps = {} /\ None \notin Fds \cup Maps
ASSUME BoundsAssumption == {MaxObjects, MaxForks, MaxFaults} \subseteq Nat

VARIABLES
    pid,        \* getpid(), a number per process
    alive,      \* the threads of the process
    proc,       \* the statics of logger_process.c, logger_fork_fd.c and
                \* logger_runtime.c; current is 0 or the number of a domain
    dom,        \* the mapped struct logger_runtime (id 0: none is mapped)
    tls,        \* tls[t]: the thread-local variables
    pc,         \* pc[t]: the next step of t
    loc,        \* loc[t]: the locals of its calls: seen and child of
                \* initialize_process, op and res the resource call, handled and
                \* back of fork, domain (auxiliary) the domain it entered
    kernel,     \* kernel[r]: who holds a descriptor or mapping
    counts,     \* forks, faults; auxiliary: handlers registered with
                \* pthread_atfork, domains published
    host_open   \* auxiliary: the descriptors the host opened and not closed

vars == <<pid, alive, proc, dom, tls, pc, loc, kernel, counts, host_open>>

-----------------------------------------------------------------------------
Res == Fds \cup Maps

NoDomain ==
    [id |-> 0, resource_mu |-> None, format_mu |-> None, resource_error |-> FALSE,
     owned |-> {}, allocations |-> {}, live_objects |-> 0]
OutsideTls ==
    [in_runtime |-> FALSE, initializing |-> FALSE, in_gate |-> FALSE, entered |-> FALSE,
     libc_prepared |-> FALSE, prepared |-> FALSE, prepare_error |-> FALSE, snapshot |-> {},
     fork_depth |-> 0]
NoLocals ==
    [seen |-> "IDLE", child |-> FALSE, op |-> "none", res |-> None, handled |-> FALSE,
     back |-> "idle", domain |-> 0]

Init ==
    /\ pid = 1 /\ alive = Threads
    /\ proc = [owner_pid |-> 0, forked_child |-> FALSE, ticket |-> "IDLE", registered |-> FALSE,
               child_valid |-> FALSE, child_error |-> FALSE, child_bitmap |-> FALSE,
               retained |-> FALSE, current |-> 0]
    /\ dom = NoDomain
    /\ tls = [t \in Threads |-> OutsideTls]
    /\ pc = [t \in Threads |-> "idle"]
    /\ loc = [t \in Threads |-> NoLocals]
    /\ kernel = [r \in Res |-> "free"]
    /\ counts = [forks |-> 0, faults |-> 0, handlers |-> 0, domains |-> 0]
    /\ host_open = {}

Goto(t, from, to) == t \in alive /\ pc[t] = from /\ pc' = [pc EXCEPT ![t] = to]
Fault == counts.faults < MaxFaults /\ counts' = [counts EXCEPT !.faults = @ + 1]

\* n of the calls of a step fail; a failed unlock leaves the mutex in doubt.
Faulty(n) ==
    /\ counts.faults + n <= MaxFaults
    /\ counts' = [counts EXCEPT !.faults = @ + n]
Unlocked(n) == IF n = 0 THEN None ELSE Lost

-----------------------------------------------------------------------------
(* Admission                                                               *)

logger_process_is_child == proc.forked_child \/ (proc.owner_pid # 0 /\ proc.owner_pid # pid)

logger_process_ready == proc.ticket = "READY"

logger_process_require(t) ==
    ~logger_process_is_child /\ ~tls[t].initializing /\ logger_process_ready

logger_scope_busy(t) == tls[t].in_runtime \/ tls[t].fork_depth > 0

logger_scope_begin(t) ==
    /\ Goto(t, "idle", "scope")
    /\ logger_process_require(t) /\ ~logger_scope_busy(t)
    /\ tls' = [tls EXCEPT ![t].in_runtime = TRUE]
    /\ loc' = [loc EXCEPT ![t].domain = proc.current]
    /\ UNCHANGED <<pid, alive, proc, dom, kernel, counts, host_open>>

logger_scope_end(t) ==
    /\ Goto(t, "scope", "idle")
    /\ tls' = [tls EXCEPT ![t].in_runtime = FALSE]
    /\ loc' = [loc EXCEPT ![t] = NoLocals]
    /\ UNCHANGED <<pid, alive, proc, dom, kernel, counts, host_open>>

logger_process_object_acquire(t) ==
    /\ Goto(t, "scope", "scope")
    /\ dom.live_objects < MaxObjects
    /\ dom' = [dom EXCEPT !.live_objects = @ + 1]
    /\ UNCHANGED <<pid, alive, proc, tls, loc, kernel, counts, host_open>>

logger_process_object_release(t) ==
    /\ Goto(t, "scope", "scope")
    /\ dom.live_objects > 0
    /\ dom' = [dom EXCEPT !.live_objects = @ - 1]
    /\ UNCHANGED <<pid, alive, proc, tls, loc, kernel, counts, host_open>>

-----------------------------------------------------------------------------
(* logger_process_init                                                     *)

\* A child may go on only with a snapshot its fork handler vouched for.
MayInitialise ==
    /\ logger_process_is_child => proc.forked_child /\ proc.child_valid
    /\ ~logger_process_is_child => proc.ticket # "READY"
    /\ proc.ticket # "STARTING"

\* Mutant: the process is claimed only when the domain is published.
InitBeginUnclaimed(t) ==
    /\ Goto(t, "idle", "cas")
    /\ MayInitialise
    /\ loc' = [loc EXCEPT ![t].seen = proc.ticket, ![t].child = logger_process_is_child]
    /\ UNCHANGED <<pid, alive, proc, dom, tls, kernel, counts, host_open>>

\* The checks of initialize_process, claim_process and the load of the ticket.
InitBegin(t) ==
    /\ Goto(t, "idle", "cas")
    /\ MayInitialise
    /\ proc' = [proc EXCEPT !.owner_pid = IF @ = 0 THEN pid ELSE @]
    /\ loc' = [loc EXCEPT ![t].seen = proc.ticket, ![t].child = logger_process_is_child]
    /\ UNCHANGED <<pid, alive, dom, tls, kernel, counts, host_open>>

InitCas(t) ==
    /\ IF proc.ticket = loc[t].seen
       THEN /\ Goto(t, "cas", "create")
            /\ proc' = [proc EXCEPT !.ticket = "STARTING"]
            /\ tls' = [tls EXCEPT ![t].initializing = TRUE]
            /\ UNCHANGED loc
       ELSE /\ Goto(t, "cas", "idle")
            /\ loc' = [loc EXCEPT ![t] = NoLocals]
            /\ UNCHANGED <<proc, tls>>
    /\ UNCHANGED <<pid, alive, dom, kernel, counts, host_open>>

\* logger_runtime_discard of a candidate: one that cannot be destroyed is kept.
Discarded(p) == {p, [p EXCEPT !.retained = TRUE]}

\* logger_fork_fd_child_reinit, then logger_runtime_create.
InitCreate(t) ==
    LET child_ok == loc[t].child => ~proc.child_error
        unmapped == [proc EXCEPT !.child_bitmap = @ /\ ~loc[t].child]
    IN  /\ \/ /\ child_ok /\ ~proc.retained
              /\ Goto(t, "create", "register")
              /\ proc' = unmapped
              /\ UNCHANGED counts
           \/ /\ Fault /\ child_ok
              /\ Goto(t, "create", "failed")
              /\ proc' \in {proc} \cup Discarded(unmapped)
           \/ /\ ~child_ok \/ proc.retained
              /\ Goto(t, "create", "failed")
              /\ proc' = IF child_ok THEN unmapped ELSE proc
              /\ UNCHANGED counts
        /\ UNCHANGED <<pid, alive, dom, tls, loc, kernel, host_open>>

\* pthread_atfork, once for the process and its descendants.
InitRegister(t) ==
    /\ \/ /\ Goto(t, "register", "publish")
          /\ counts' = [counts EXCEPT !.handlers = @ + (IF proc.registered THEN 0 ELSE 1)]
          /\ proc' = [proc EXCEPT !.registered = TRUE]
       \/ /\ ~proc.registered /\ Fault
          /\ Goto(t, "register", "failed")
          /\ proc' \in Discarded(proc)
    /\ UNCHANGED <<pid, alive, dom, tls, loc, kernel, host_open>>

\* The resets of a child, logger_runtime_publish, owner_pid and forked_child.
InitPublish(t) ==
    /\ Goto(t, "publish", "ready")
    /\ counts' = [counts EXCEPT !.domains = @ + 1]
    /\ dom' = [NoDomain EXCEPT !.id = counts'.domains]
    /\ proc' = [proc EXCEPT !.current = dom'.id, !.owner_pid = pid, !.forked_child = FALSE]
    /\ tls' = [tls EXCEPT ![t].in_runtime = @ /\ ~loc[t].child]
    /\ UNCHANGED <<pid, alive, loc, kernel, host_open>>

\* The ticket is stored last: READY, or the error for a later call to retry.
InitEnd(t) ==
    /\ \/ Goto(t, "ready", "idle") /\ proc' = [proc EXCEPT !.ticket = "READY"]
       \/ Goto(t, "failed", "idle") /\ proc' = [proc EXCEPT !.ticket = "error"]
    /\ tls' = [tls EXCEPT ![t].initializing = FALSE]
    /\ loc' = [loc EXCEPT ![t] = NoLocals]
    /\ UNCHANGED <<pid, alive, dom, kernel, counts, host_open>>

Initialise(t) ==
    InitCas(t) \/ InitCreate(t) \/ InitRegister(t) \/ InitPublish(t) \/ InitEnd(t)

\* logger_runtime_unload: the host has stopped every caller; only an empty and
\* healthy domain is given back.
logger_runtime_unload ==
    /\ alive # {} /\ \A t \in alive : pc[t] = "idle"
    /\ ~logger_process_is_child /\ logger_process_ready
    /\ dom.live_objects = 0 /\ ~dom.resource_error /\ dom.allocations = {} /\ dom.owned = {}
    /\ dom' = NoDomain
    /\ proc' = [proc EXCEPT !.current = 0]
    /\ alive' = {}
    /\ UNCHANGED <<pid, tls, pc, loc, kernel, counts, host_open>>

-----------------------------------------------------------------------------
(* Resources under resource_mu                                             *)

Poisoned == [dom EXCEPT !.resource_error = TRUE]

\* No other thread uses r: every resource has one owner.
Mine(r) == \A u \in alive : loc[u].res # r

\* logger_fork_resource_enter up to the lock, for each of its callers.
ResourceEnter(t) ==
    /\ logger_process_require(t) /\ ~tls[t].in_gate /\ ~dom.resource_error
    /\ Goto(t, "scope", "gate_lock")
    /\ \E op \in {"open", "mmap", "close", "fdopendir", "free"}, r \in Res \cup {None} :
         /\ CASE op \in {"close", "fdopendir"} -> r \in dom.owned /\ Mine(r)
              [] op = "free" -> r \in dom.allocations /\ Mine(r)
              [] OTHER -> r = None
         /\ loc' = [loc EXCEPT ![t].op = op, ![t].res = r]
    /\ UNCHANGED <<pid, alive, proc, dom, tls, kernel, counts, host_open>>

\* The lock; a gate poisoned meanwhile is left at once, a failed lock poisons.
ResourceLock(t) ==
    /\ \/ /\ dom.resource_mu = None /\ ~dom.resource_error
          /\ Goto(t, "gate_lock", "gate")
          /\ dom' = [dom EXCEPT !.resource_mu = t]
          /\ tls' = [tls EXCEPT ![t].in_gate = TRUE]
          /\ UNCHANGED <<loc, counts>>
       \/ /\ dom.resource_mu = None /\ dom.resource_error
          /\ Goto(t, "gate_lock", "scope")
          /\ loc' = [loc EXCEPT ![t].op = "none", ![t].res = None]
          /\ \E n \in {0, 1} : Faulty(n) /\ dom' = [dom EXCEPT !.resource_mu = Unlocked(n)]
          /\ UNCHANGED tls
       \/ /\ Fault
          /\ Goto(t, "gate_lock", "scope")
          /\ dom' = Poisoned
          /\ loc' = [loc EXCEPT ![t].op = "none", ![t].res = None]
          /\ UNCHANGED tls
    /\ UNCHANGED <<pid, alive, proc, kernel, host_open>>

\* logger_fork_resource_leave.
ResourceLeave(t) ==
    /\ Goto(t, "leave", "scope")
    /\ \E n \in {0, 1} :
         /\ Faulty(n)
         /\ dom' = [dom EXCEPT !.resource_mu = Unlocked(n), !.resource_error = @ \/ n = 1]
    /\ tls' = [tls EXCEPT ![t].in_gate = FALSE]
    /\ loc' = [loc EXCEPT ![t].op = "none", ![t].res = None]
    /\ UNCHANGED <<pid, alive, proc, kernel, host_open>>

\* The body of a resource call, under the lock.
Within(t, op, to) == loc[t].op = op /\ Goto(t, "gate", to)

\* open, openat or socket: the kernel hands out a number, or fails.
Open(t) ==
    /\ \/ \E r \in Fds :
            /\ kernel[r] = "free"
            /\ Within(t, "open", "acquired")
            /\ kernel' = [kernel EXCEPT ![r] = "logger"]
            /\ loc' = [loc EXCEPT ![t].res = r]
       \/ Within(t, "open", "leave") /\ UNCHANGED <<kernel, loc>>
    /\ UNCHANGED <<pid, alive, proc, dom, tls, counts, host_open>>

\* acquired: the number is registered, or closed when the table cannot grow.
Acquired(t) ==
    LET r == loc[t].res
    IN  /\ Goto(t, "acquired", "leave")
        /\ \/ /\ dom' = [dom EXCEPT !.owned = @ \cup {r}]
              /\ UNCHANGED <<kernel, counts>>
           \/ /\ Fault
              /\ kernel' = [kernel EXCEPT ![r] = "free"]
              /\ UNCHANGED dom
        /\ UNCHANGED <<pid, alive, proc, tls, loc, host_open>>

\* logger_fork_fdopendir keeps the lock for the whole traversal.
Fdopendir(t) ==
    /\ \/ Within(t, "fdopendir", "lease")
       \/ Within(t, "fdopendir", "leave")
    /\ UNCHANGED <<pid, alive, proc, dom, tls, loc, kernel, counts, host_open>>

\* logger_fork_close and logger_fork_closedir take the number off the table
\* before they close it.
Unregister(t) ==
    /\ Within(t, "close", "closing") \/ Goto(t, "lease", "closing")
    /\ dom' = [dom EXCEPT !.owned = @ \ {loc[t].res}]
    /\ UNCHANGED <<pid, alive, proc, tls, loc, kernel, counts, host_open>>

\* close or closedir consumes the number even if it reports an error;
\* release_empty gives the table back.
CloseFd(t) ==
    /\ Goto(t, "closing", "leave")
    /\ kernel' = [kernel EXCEPT ![loc[t].res] = "free"]
    /\ \/ UNCHANGED <<dom, counts>>
       \/ dom.owned = {} /\ Fault /\ dom' = Poisoned
    /\ UNCHANGED <<pid, alive, proc, tls, loc, host_open>>

\* logger_runtime_calloc: a mapping that a fork would still copy.
Mmap(t) ==
    /\ \/ \E r \in Maps :
            /\ kernel[r] = "free"
            /\ Within(t, "mmap", "madvise")
            /\ kernel' = [kernel EXCEPT ![r] = "forkable"]
            /\ loc' = [loc EXCEPT ![t].res = r]
       \/ Within(t, "mmap", "leave") /\ UNCHANGED <<kernel, loc>>
    /\ UNCHANGED <<pid, alive, proc, dom, tls, counts, host_open>>

\* MADV_DONTFORK and link_allocation; a mapping that can be neither protected
\* nor given back stays with the domain and poisons it.
Madvise(t) ==
    LET r == loc[t].res
        linked == dom.allocations \cup {r}
    IN  /\ Goto(t, "madvise", "leave")
        /\ \/ /\ kernel' = [kernel EXCEPT ![r] = "logger"]
              /\ dom' = [dom EXCEPT !.allocations = linked]
              /\ UNCHANGED counts
           \/ /\ Fault
              /\ kernel' = [kernel EXCEPT ![r] = "free"]
              /\ UNCHANGED dom
           \/ /\ Fault
              /\ dom' = [Poisoned EXCEPT !.allocations = linked]
              /\ UNCHANGED kernel
        /\ UNCHANGED <<pid, alive, proc, tls, loc, host_open>>

\* logger_runtime_free.
Free(t) ==
    LET r == loc[t].res
    IN  /\ Within(t, "free", "leave")
        /\ \/ /\ kernel' = [kernel EXCEPT ![r] = "free"]
              /\ dom' = [dom EXCEPT !.allocations = @ \ {r}]
              /\ UNCHANGED counts
           \/ Fault /\ dom' = Poisoned /\ UNCHANGED kernel
        /\ UNCHANGED <<pid, alive, proc, tls, loc, host_open>>

Resource(t) ==
    \/ ResourceLock(t) \/ ResourceLeave(t) \/ Open(t) \/ Acquired(t) \/ Fdopendir(t)
    \/ Unregister(t) \/ CloseFd(t) \/ Mmap(t) \/ Madvise(t) \/ Free(t)

-----------------------------------------------------------------------------
(* Calls of libc under format_mu                                           *)

\* begin, up to the lock.
FormatEnter(t) ==
    /\ Goto(t, "scope", "format_lock")
    /\ logger_process_require(t) /\ ~tls[t].entered /\ ~dom.resource_error
    /\ UNCHANGED <<pid, alive, proc, dom, tls, loc, kernel, counts, host_open>>

\* The lock of begin, from one step to another; a gate poisoned meanwhile, or
\* a failed lock, refuses.
FormatAcquire(t, from, to, refused) ==
    \/ /\ dom.format_mu = None /\ ~dom.resource_error
       /\ Goto(t, from, to)
       /\ dom' = [dom EXCEPT !.format_mu = t]
       /\ UNCHANGED counts
    \/ /\ dom.format_mu = None /\ dom.resource_error
       /\ Goto(t, from, refused)
       /\ \E n \in {0, 1} : Faulty(n) /\ dom' = [dom EXCEPT !.format_mu = Unlocked(n)]
    \/ /\ Fault
       /\ Goto(t, from, refused) /\ UNCHANGED dom

FormatLock(t) ==
    /\ FormatAcquire(t, "format_lock", "format", "scope")
    /\ tls' = [tls EXCEPT ![t].entered = (pc'[t] = "format")]
    /\ UNCHANGED <<pid, alive, proc, loc, kernel, host_open>>

\* end, after vsnprintf, strftime, fflush and the like.
FormatEnd(t) ==
    /\ Goto(t, "format", "scope")
    /\ \E n \in {0, 1} :
         /\ Faulty(n)
         /\ dom' = [dom EXCEPT !.format_mu = Unlocked(n), !.resource_error = @ \/ n = 1]
    /\ tls' = [tls EXCEPT ![t].entered = FALSE]
    /\ UNCHANGED <<pid, alive, proc, loc, kernel, host_open>>

-----------------------------------------------------------------------------
(* fork                                                                    *)

\* Mutant: a fork from inside the library is not refused a snapshot.
PrepareBusyIgnored(t) == FALSE

\* prepare refuses a snapshot to a thread that is inside the library; the mark of
\* the default slot's calls is part of in_runtime.
PrepareBusy(t) == tls[t].in_gate \/ logger_scope_busy(t) \/ tls[t].entered

\* A thread calls fork; from inside the library it is the host's code that
\* libc calls back.  Without handlers, or by a raw system call, nothing runs.
\* logger_fork_fd_prepare, up to its first lock.
ForkBegin(t) ==
    /\ counts.forks < MaxForks
    /\ counts' = [counts EXCEPT !.forks = @ + 1]
    /\ \E from \in {"idle", "scope", "format", "lease"}, handled \in {FALSE, counts.handlers > 0} :
         LET unusable == logger_process_is_child \/ ~logger_process_ready
             refused == unusable \/ PrepareBusy(t) \/ dom.resource_error
         IN  /\ Goto(t, from, IF handled /\ ~refused THEN "fork_format" ELSE "forking")
             /\ loc' = [loc EXCEPT ![t].back = from, ![t].handled = handled,
                                   ![t].domain = IF refused THEN @ ELSE proc.current]
             /\ tls' = IF handled
                       THEN [tls EXCEPT ![t].fork_depth = 1, ![t].prepared = FALSE,
                                        ![t].prepare_error = refused, ![t].snapshot = {}]
                       ELSE tls
    /\ UNCHANGED <<pid, alive, proc, dom, kernel, host_open>>

\* logger_libc_fork_prepare.
ForkFormat(t) ==
    /\ FormatAcquire(t, "fork_format", "fork_fd", "forking")
    /\ LET got == pc'[t] = "fork_fd"
       IN  tls' = [tls EXCEPT ![t].entered = got, ![t].libc_prepared = got, ![t].prepare_error = ~got]
    /\ UNCHANGED <<pid, alive, proc, loc, kernel, host_open>>

Prepared(t) ==
    [tls EXCEPT ![t].prepared = TRUE, ![t].in_gate = TRUE,
                ![t].prepare_error = dom.resource_error, ![t].snapshot = dom.owned]

\* Mutant: the snapshot does not wait for resource_mu.
ForkFdUnlocked(t) ==
    /\ Goto(t, "fork_fd", "forking")
    /\ tls' = Prepared(t)
    /\ UNCHANGED <<pid, alive, proc, dom, loc, kernel, counts, host_open>>

\* The snapshot of the table under resource_mu.
ForkFd(t) ==
    /\ Goto(t, "fork_fd", "forking")
    /\ \/ /\ dom.resource_mu = None
          /\ dom' = [dom EXCEPT !.resource_mu = t]
          /\ tls' = Prepared(t)
          /\ UNCHANGED counts
       \/ /\ Fault
          /\ tls' = [tls EXCEPT ![t].prepare_error = TRUE]
          /\ UNCHANGED dom
    /\ UNCHANGED <<pid, alive, proc, loc, kernel, host_open>>

\* A handler of the host that runs after prepare forks itself.
ForkNested(t) ==
    /\ Goto(t, "forking", "forking")
    /\ loc[t].handled /\ tls[t].fork_depth = 1
    /\ counts.forks < MaxForks
    /\ counts' = [counts EXCEPT !.forks = @ + 1]
    /\ tls' = [tls EXCEPT ![t].fork_depth = 2]
    /\ UNCHANGED <<pid, alive, proc, dom, loc, kernel, host_open>>

\* fork returns in the parent, or fails: logger_fork_fd_parent and
\* logger_libc_fork_parent release what prepare took.
ForkParent(t) ==
    /\ IF loc[t].handled /\ tls[t].fork_depth > 1
       THEN /\ Goto(t, "forking", "forking")
            /\ tls' = [tls EXCEPT ![t].fork_depth = @ - 1]
            /\ UNCHANGED <<dom, loc, counts>>
       ELSE /\ Goto(t, "forking", loc[t].back)
            /\ loc' = [loc EXCEPT ![t].back = "idle", ![t].handled = FALSE,
                                  ![t].domain = IF loc[t].back = "idle" THEN 0 ELSE @]
            /\ IF loc[t].handled
               THEN /\ tls' = [tls EXCEPT ![t].in_gate = @ /\ ~tls[t].prepared,
                                          ![t].entered = @ /\ ~tls[t].libc_prepared,
                                          ![t].prepared = FALSE, ![t].libc_prepared = FALSE,
                                          ![t].fork_depth = 0]
                    /\ \E n \in {0, IF tls[t].prepared THEN 1 ELSE 0},
                          k \in {0, IF tls[t].libc_prepared THEN 1 ELSE 0} :
                         /\ Faulty(n + k)
                         /\ dom' = [dom EXCEPT
                              !.resource_mu = IF tls[t].prepared THEN Unlocked(n) ELSE @,
                              !.format_mu = IF tls[t].libc_prepared THEN Unlocked(k) ELSE @,
                              !.resource_error = @ \/ n + k > 0]
               ELSE UNCHANGED <<tls, dom, counts>>
    /\ UNCHANGED <<pid, alive, proc, kernel, host_open>>

\* fork returns in the child: one thread, copied descriptors, no mapping that
\* was excluded from fork.  The handler has not run yet.
ForkChild(t) ==
    /\ Goto(t, "forking", IF loc[t].handled THEN "child_handler" ELSE "idle")
    /\ pid' = pid + 1 /\ alive' = {t}
    /\ dom' = NoDomain
    /\ kernel' = [r \in Res |->
                    CASE kernel[r] = "logger" -> IF r \in Maps THEN "free" ELSE "inherited"
                      [] kernel[r] = "forkable" -> "inherited"
                      [] OTHER -> kernel[r]]
    /\ loc' = [u \in Threads |-> [NoLocals EXCEPT !.handled = u = t /\ loc[t].handled]]
    /\ tls' = [u \in Threads |-> IF u = t THEN tls[t] ELSE OutsideTls]
    /\ UNCHANGED <<proc, counts, host_open>>

\* logger_process_invalidate_child: close admission, close the snapshot,
\* forget the thread's marks and the domain.  A nested child is still inside
\* the fork it was nested in.
ChildHandler(t) ==
    LET valid == tls[t].prepared /\ ~tls[t].prepare_error /\ tls[t].fork_depth = 1
        closed == IF valid THEN tls[t].snapshot ELSE {}
        invalid == [proc EXCEPT !.forked_child = TRUE, !.child_valid = valid,
                                !.child_error = ~valid, !.current = 0,
                                !.child_bitmap = IF valid THEN closed # {} ELSE @]
    IN  /\ Goto(t, "child_handler", IF tls[t].fork_depth > 1 THEN "forking" ELSE "idle")
        /\ kernel' = [r \in Res |-> IF r \in closed THEN "free" ELSE kernel[r]]
        /\ \/ proc' = invalid /\ UNCHANGED counts
           \/ closed # {} /\ Fault /\ proc' = [invalid EXCEPT !.child_error = TRUE]
        /\ tls' = [tls EXCEPT ![t] = [OutsideTls EXCEPT !.in_runtime = tls[t].in_runtime,
                                                        !.initializing = tls[t].initializing]]
        /\ UNCHANGED <<pid, alive, dom, loc, host_open>>

ForkStep(t) == ForkFormat(t) \/ ForkFd(t) \/ ForkParent(t) \/ ForkChild(t) \/ ChildHandler(t)

-----------------------------------------------------------------------------
(* The host's own descriptors                                              *)

HostOpen(r) ==
    /\ alive # {} /\ kernel[r] = "free"
    /\ kernel' = [kernel EXCEPT ![r] = "host"]
    /\ host_open' = host_open \cup {r}
    /\ UNCHANGED <<pid, alive, proc, dom, tls, pc, loc, counts>>

HostClose(r) ==
    /\ alive # {} /\ r \in host_open
    /\ kernel' = [kernel EXCEPT ![r] = "free"]
    /\ host_open' = host_open \ {r}
    /\ UNCHANGED <<pid, alive, proc, dom, tls, pc, loc, counts>>

-----------------------------------------------------------------------------
\* What a thread inside a call does next.
InCall(t) == Initialise(t) \/ Resource(t) \/ FormatLock(t) \/ FormatEnd(t) \/ ForkStep(t)

Next ==
    \/ \E t \in Threads :
         \/ InitBegin(t) \/ logger_scope_begin(t) \/ logger_scope_end(t)
         \/ logger_process_object_acquire(t) \/ logger_process_object_release(t)
         \/ ResourceEnter(t) \/ FormatEnter(t) \/ ForkBegin(t) \/ ForkNested(t)
         \/ InCall(t)
    \/ \E r \in Fds : HostOpen(r) \/ HostClose(r)
    \/ logger_runtime_unload

Spec == Init /\ [][Next]_vars

\* A call goes on; a mutex that is free again and again is obtained; a directory
\* traversal and a call of libc end.
Fairness == \A t \in Threads : SF_vars(InCall(t))
FairSpec == Spec /\ Fairness

-----------------------------------------------------------------------------
(* Properties                                                              *)

\* A child that may use the library, now or after logger_process_init, has none
\* of the parent's descriptors and mappings, and a fork never closed one of the
\* host's: the snapshot is exactly what the parent's library held.
ChildIsClean ==
    /\ host_open = {r \in Fds : kernel[r] = "host"}
    /\ \/ proc.forked_child /\ proc.child_valid /\ \A t \in alive : pc[t] # "child_handler"
       \/ ~logger_process_is_child /\ logger_process_ready
       => \A r \in Res : kernel[r] # "inherited"

Starting == {"create", "register", "publish", "ready", "failed"}
Outside == {"idle", "cas", "forking", "child_handler"} \cup Starting

\* Who is inside the library works on the one published domain of its own
\* process, the same from entry to exit; initialisation is exclusive, never left
\* unfinished in a process that could wait for it, and registers its fork
\* handlers once for all descendants.
DomainIsSound ==
    /\ \A t \in alive :
         pc[t] \notin Outside \/ (pc[t] = "forking" /\ tls[t].prepared) =>
             proc.current = loc[t].domain /\ dom.id = loc[t].domain
    /\ alive # {} /\ ~logger_process_is_child /\ logger_process_ready =>
         proc.current # 0 /\ dom.id = proc.current
    /\ Cardinality({t \in alive : pc[t] \in Starting}) <= 1
    /\ ~logger_process_is_child /\ proc.ticket = "STARTING" => \E t \in alive : pc[t] \in Starting
    /\ counts.handlers <= 1

Forking == {"fork_format", "fork_fd", "forking", "child_handler"}

\* Every fork returns, whatever the other threads hold: prepare takes format_mu
\* before resource_mu, and nobody waits for them the other way round.
ForkReturns ==
    \A t \in Threads :
        pc[t] \in Forking ~>
            t \notin alive \/ pc[t] \notin Forking \/ Lost \in {dom.resource_mu, dom.format_mu}
==============================================================================
