------------------------- MODULE ProcessDomainProofs -------------------------
(***************************************************************************)
(* Proofs about ProcessDomain, for any number of threads, descriptors,     *)
(* mappings, forks and faults: a child that may use the library is clean,  *)
(* and whoever is inside the library works on the one published domain of  *)
(* its own process.                                                        *)
(***************************************************************************)
EXTENDS ProcessDomain, FiniteSetTheorems, TLAPS

Steps ==
    Outside \cup {"scope", "gate_lock", "gate", "acquired", "lease", "closing", "madvise", "leave",
                  "format_lock", "format", "fork_format", "fork_fd"}
Tickets == {"IDLE", "STARTING", "READY", "error"}
Owners == Threads \cup {None, Lost}

\* The records of the process, of the domain, of a thread and of its calls.
Processes ==
    [owner_pid : Nat, forked_child : BOOLEAN, ticket : Tickets, registered : BOOLEAN,
     child_valid : BOOLEAN, child_error : BOOLEAN, child_bitmap : BOOLEAN, retained : BOOLEAN,
     current : Nat]
Domains ==
    [id : Nat, resource_mu : Owners, format_mu : Owners, resource_error : BOOLEAN,
     owned : SUBSET Fds, allocations : SUBSET Maps, live_objects : Nat]
ThreadLocals ==
    [in_runtime : BOOLEAN, initializing : BOOLEAN, in_gate : BOOLEAN, entered : BOOLEAN,
     libc_prepared : BOOLEAN, prepared : BOOLEAN, prepare_error : BOOLEAN,
     snapshot : SUBSET Fds, fork_depth : Nat]
Locals ==
    [seen : Tickets, child : BOOLEAN,
     op : {"none", "open", "mmap", "close", "fdopendir", "free"}, res : Res \cup {None},
     handled : BOOLEAN, back : {"idle", "scope", "format", "lease"}, domain : Nat]
Counts == [forks : Nat, faults : Nat, handlers : Nat, domains : Nat]

DomainTypes ==
    /\ pid \in Nat \ {0} /\ alive \in SUBSET Threads
    /\ proc \in Processes /\ dom \in Domains /\ counts \in Counts
    /\ tls \in [Threads -> ThreadLocals] /\ loc \in [Threads -> Locals]
    /\ pc \in [Threads -> Steps]
    /\ kernel \in [Res -> {"free", "logger", "forkable", "inherited", "host"}]

\* owner_pid is claimed before anything else is, and names no later process;
\* the handlers are registered at most once.
OwnerInv ==
    /\ proc.owner_pid <= pid
    /\ proc.ticket # "IDLE" => proc.owner_pid # 0
    /\ \A t \in alive : pc[t] = "cas" => proc.owner_pid # 0
    /\ proc.registered => counts.handlers = 1
    /\ ~proc.registered => counts.handlers = 0

\* A child has one thread.
AloneInv ==
    \A t \in alive : logger_process_is_child \/ pc[t] = "child_handler" => alive = {t}

\* A thread about to change the ticket saw it idle, in error or, in a child
\* only, ready.
CasInv ==
    \A t \in alive : pc[t] = "cas" =>
        /\ loc[t].seen # "STARTING"
        /\ loc[t].seen = "READY" => logger_process_is_child

\* The ticket is STARTING while a thread initialises, and there is one at most.
StartingInv ==
    /\ \A t \in alive : pc[t] \in Starting => proc.ticket = "STARTING"
    /\ \A t, u \in alive : pc[t] \in Starting /\ pc[u] \in Starting => t = u

\* It is STARTING only while a thread that could be waited for initialises.
TicketInv ==
    ~logger_process_is_child /\ proc.ticket = "STARTING" => \E t \in alive : pc[t] \in Starting

\* A child initialises only with a snapshot that was vouched for.
VouchedInv ==
    \A t \in alive : pc[t] \in {"cas"} \cup Starting /\ logger_process_is_child =>
        proc.forked_child /\ proc.child_valid

\* A domain is published before the ticket says READY.
PublishedInv ==
    /\ \A t \in alive : pc[t] = "ready" =>
         ~logger_process_is_child /\ proc.current # 0 /\ dom.id = proc.current
    /\ alive # {} /\ ~logger_process_is_child /\ logger_process_ready =>
         proc.current # 0 /\ dom.id = proc.current

\* t works on the domain; a fork from inside returns into it.
Inside(t) ==
    pc[t] \notin Outside \/ (pc[t] = "forking" /\ (tls[t].prepared \/ loc[t].back # "idle"))

InsideInv ==
    \A t \in alive : Inside(t) =>
        /\ logger_process_ready /\ ~logger_process_is_child
        /\ proc.current = loc[t].domain /\ dom.id = loc[t].domain

\* t holds resource_mu.
InGate(t) ==
    \/ pc[t] \in {"gate", "acquired", "lease", "closing", "madvise", "leave"}
    \/ pc[t] = "forking" /\ (tls[t].prepared \/ loc[t].back = "lease")

GateInv == \A t \in alive : InGate(t) => dom.resource_mu = t

\* Only a fork from outside the library, with handlers, is prepared.
ForkInv ==
    \A t \in alive :
        /\ tls[t].prepared => pc[t] \in {"forking", "child_handler"} /\ loc[t].handled
        /\ pc[t] = "forking" /\ tls[t].prepared => loc[t].back = "idle"
        /\ pc[t] \in {"fork_format", "fork_fd"} => loc[t].back = "idle" /\ loc[t].handled
        /\ pc[t] = "child_handler" => loc[t].back = "idle"
        /\ \/ pc[t] \notin Outside \cup {"fork_format", "fork_fd"}
           \/ pc[t] = "forking" /\ loc[t].back # "idle"
           => tls[t].in_runtime

\* t is going to use a registered descriptor.
Uses(t) ==
    \/ pc[t] \in {"gate_lock", "gate"} /\ loc[t].op \in {"close", "fdopendir"}
    \/ pc[t] = "lease"
    \/ pc[t] = "forking" /\ loc[t].back = "lease"

UsesInv ==
    \A t \in alive :
        /\ Uses(t) => loc[t].res \in dom.owned
        /\ pc[t] \in {"gate_lock", "gate"} /\ loc[t].op = "free" => loc[t].res \in dom.allocations

\* Between a system call and the table, t has in hand what only it knows of.
HandInv ==
    \A t \in alive :
        /\ pc[t] \in {"acquired", "closing"} =>
             loc[t].res \in Fds \ dom.owned /\ kernel[loc[t].res] = "logger"
        /\ pc[t] = "madvise" =>
             loc[t].res \in Maps \ dom.allocations /\ kernel[loc[t].res] = "forkable"

\* A resource call that acquires starts with nothing.
CallInv ==
    \A t \in alive :
        /\ pc[t] \in {"gate_lock", "gate"} => loc[t].op # "none"
        /\ pc[t] \in {"gate_lock", "gate"} /\ loc[t].op \in {"open", "mmap"} => loc[t].res = None
        /\ loc[t].res # None => pc[t] = "gate_lock" \/ (InGate(t) /\ ~tls[t].prepared)

\* No two threads use the same resource.
SoleInv == \A t, u \in alive : t # u /\ loc[t].res # None => loc[t].res # loc[u].res

\* What is on the table or on the list of mappings is open.
TableInv ==
    /\ \A r \in dom.owned : kernel[r] = "logger"
    /\ \A r \in dom.allocations : kernel[r] \in {"logger", "forkable"}
    /\ \A r \in Maps : kernel[r] # "host"

\* What is open is on the table, but for what a thread has in hand.
OpenInv ==
    \A r \in Fds : kernel[r] = "logger" =>
        r \in dom.owned \/ \E t \in alive : pc[t] \in {"acquired", "closing"} /\ loc[t].res = r

\* Only a poisoned domain keeps a mapping that a fork would copy.
ForkableInv ==
    \A r \in Res : kernel[r] = "forkable" =>
        /\ r \in Maps
        /\ dom.resource_error \/ \E t \in alive : pc[t] = "madvise" /\ loc[t].res = r

\* Only a process that may use the library has resources of it.
HeldInv ==
    \A r \in Res : kernel[r] \in {"logger", "forkable"} =>
        /\ logger_process_ready /\ ~logger_process_is_child
        /\ \A t \in alive : pc[t] # "child_handler"

\* A snapshot taken without error is what the kernel will hand to the child.
SnapshotInv ==
    \A t \in alive : tls[t].prepared /\ ~tls[t].prepare_error =>
        /\ pc[t] = "forking" =>
             tls[t].snapshot = dom.owned /\ \A r \in Res : kernel[r] # "forkable"
        /\ pc[t] = "child_handler" =>
             \A r \in Res : kernel[r] = "inherited" <=> r \in tls[t].snapshot

\* Inherited resources are left only in a child that may not go on.
CleanInv ==
    \/ ~logger_process_is_child
    \/ proc.forked_child /\ proc.child_valid /\ \A t \in alive : pc[t] # "child_handler"
    => \A r \in Res : kernel[r] # "inherited"

\* host_open is what the kernel says the host has open.
HostInv == host_open = {r \in Fds : kernel[r] = "host"}

DomainInv ==
    /\ DomainTypes /\ OwnerInv /\ AloneInv
    /\ CasInv /\ StartingInv /\ TicketInv /\ VouchedInv /\ PublishedInv
    /\ InsideInv /\ GateInv /\ ForkInv
    /\ UsesInv /\ HandInv /\ CallInv /\ SoleInv /\ TableInv /\ OpenInv /\ ForkableInv
    /\ HeldInv /\ SnapshotInv /\ CleanInv /\ HostInv

-----------------------------------------------------------------------------
(* Types                                                                   *)

\* Claiming the process and reading the ticket keeps the types.
LEMMA InitBeginTypes ==
    ASSUME DomainInv, NEW t \in Threads, InitBegin(t)
    PROVE  DomainTypes'
  <1>0. DomainTypes
    BY DEF DomainInv
  <1>a. tls[t] \in ThreadLocals /\ loc[t] \in Locals /\ dom \in Domains /\ proc \in Processes
    BY <1>0 DEF DomainTypes
  <1>1. [loc[t] EXCEPT !.seen = proc.ticket, !.child = logger_process_is_child] \in Locals
    BY <1>a DEF Locals, Processes, Tickets, logger_process_is_child
  <1>2. proc' \in Processes
    BY <1>0, NamesAssumption
    DEF DomainTypes, InitBegin, MayInitialise, Goto, Processes, Tickets
  <1>3. loc' \in [Threads -> Locals]
    BY <1>0, <1>1, NamesAssumption DEF DomainTypes, InitBegin, MayInitialise, Goto
  <1> QED
    BY <1>0, <1>2, <1>3
    DEF DomainTypes, InitBegin, MayInitialise, Goto, Steps, Outside, Starting

\* Entering the library keeps the types.
LEMMA logger_scope_beginTypes ==
    ASSUME DomainInv, NEW t \in Threads, logger_scope_begin(t)
    PROVE  DomainTypes'
  <1>0. DomainTypes
    BY DEF DomainInv
  <1>a. tls[t] \in ThreadLocals /\ loc[t] \in Locals /\ dom \in Domains /\ proc \in Processes
    BY <1>0 DEF DomainTypes
  <1>1. [tls[t] EXCEPT !.in_runtime = TRUE] \in ThreadLocals
    BY <1>a DEF ThreadLocals
  <1>2. [loc[t] EXCEPT !.domain = proc.current] \in Locals
    BY <1>a DEF Locals, Processes
  <1>3. tls' \in [Threads -> ThreadLocals]
    BY <1>0, <1>1, NamesAssumption
    DEF DomainTypes, logger_scope_begin, logger_process_require, logger_scope_busy, Goto
  <1>4. loc' \in [Threads -> Locals]
    BY <1>0, <1>2, NamesAssumption
    DEF DomainTypes, logger_scope_begin, logger_process_require, logger_scope_busy, Goto
  <1> QED
    BY <1>0, <1>3, <1>4
    DEF DomainTypes, logger_scope_begin, logger_process_require, logger_scope_busy, Goto,
        Steps, Outside, Starting

\* Leaving the library keeps the types.
LEMMA logger_scope_endTypes ==
    ASSUME DomainInv, NEW t \in Threads, logger_scope_end(t)
    PROVE  DomainTypes'
  <1>0. DomainTypes
    BY DEF DomainInv
  <1>a. tls[t] \in ThreadLocals /\ loc[t] \in Locals /\ dom \in Domains /\ proc \in Processes
    BY <1>0 DEF DomainTypes
  <1>1. [tls[t] EXCEPT !.in_runtime = FALSE] \in ThreadLocals
    BY <1>a DEF ThreadLocals
  <1>2. NoLocals \in Locals
    BY <1>a DEF Locals, NoLocals, Tickets
  <1>3. tls' \in [Threads -> ThreadLocals]
    BY <1>0, <1>1, NamesAssumption DEF DomainTypes, logger_scope_end, Goto
  <1>4. loc' \in [Threads -> Locals]
    BY <1>0, <1>2, NamesAssumption DEF DomainTypes, logger_scope_end, Goto
  <1> QED
    BY <1>0, <1>3, <1>4 DEF DomainTypes, logger_scope_end, Goto, Steps, Outside, Starting

\* Counting a new object keeps the types.
LEMMA logger_process_object_acquireTypes ==
    ASSUME DomainInv, NEW t \in Threads, logger_process_object_acquire(t)
    PROVE  DomainTypes'
  <1>0. DomainTypes
    BY DEF DomainInv
  <1>1. dom' \in Domains
    BY <1>0, NamesAssumption
    DEF DomainTypes, logger_process_object_acquire, Goto, Domains, Owners
  <1> QED
    BY <1>0, <1>1
    DEF DomainTypes, logger_process_object_acquire, Goto, Steps, Outside, Starting

\* Counting an object out keeps the types.
LEMMA logger_process_object_releaseTypes ==
    ASSUME DomainInv, NEW t \in Threads, logger_process_object_release(t)
    PROVE  DomainTypes'
  <1>0. DomainTypes
    BY DEF DomainInv
  <1>1. dom' \in Domains
    BY <1>0, NamesAssumption
    DEF DomainTypes, logger_process_object_release, Goto, Domains, Owners
  <1> QED
    BY <1>0, <1>1
    DEF DomainTypes, logger_process_object_release, Goto, Steps, Outside, Starting

\* Entering a resource call, up to its lock keeps the types.
LEMMA ResourceEnterTypes ==
    ASSUME DomainInv, NEW t \in Threads, ResourceEnter(t)
    PROVE  DomainTypes'
  <1>0. DomainTypes
    BY DEF DomainInv
  <1>a. tls[t] \in ThreadLocals /\ loc[t] \in Locals /\ dom \in Domains /\ proc \in Processes
    BY <1>0 DEF DomainTypes
  <1>1. PICK op \in {"open", "mmap", "close", "fdopendir", "free"}, r \in Res \cup {None} :
           loc' = [loc EXCEPT ![t].op = op, ![t].res = r]
    BY DEF ResourceEnter
  <1>2. [loc[t] EXCEPT !.op = op, !.res = r] \in Locals
    BY <1>a DEF Locals
  <1>3. loc' \in [Threads -> Locals]
    BY <1>0, <1>1, <1>2 DEF DomainTypes
  <1> QED
    BY <1>0, <1>3 DEF DomainTypes, ResourceEnter, Goto, Steps, Outside, Starting

\* Entering a call of libc, up to its lock keeps the types.
LEMMA FormatEnterTypes ==
    ASSUME DomainInv, NEW t \in Threads, FormatEnter(t)
    PROVE  DomainTypes'
  <1>0. DomainTypes
    BY DEF DomainInv
  <1> QED
    BY <1>0
    DEF DomainTypes, FormatEnter, logger_process_require, Goto, Steps, Outside, Starting

\* The first part of the prepare handler keeps the types.
LEMMA ForkBeginTypes ==
    ASSUME DomainInv, NEW t \in Threads, ForkBegin(t)
    PROVE  DomainTypes'
  <1>0. DomainTypes
    BY DEF DomainInv
  <1>a. tls[t] \in ThreadLocals /\ loc[t] \in Locals /\ dom \in Domains /\ proc \in Processes
    BY <1>0 DEF DomainTypes
  <1> DEFINE refused == \/ logger_process_is_child \/ ~logger_process_ready
                        \/ PrepareBusy(t) \/ dom.resource_error
             d == IF refused THEN loc[t].domain ELSE proc.current
  <1>1. PICK from \in {"idle", "scope", "format", "lease"}, handled \in {FALSE, counts.handlers > 0} :
           /\ Goto(t, from, IF handled /\ ~refused THEN "fork_format" ELSE "forking")
           /\ loc' = [loc EXCEPT ![t].back = from, ![t].handled = handled, ![t].domain = d]
           /\ tls' = IF handled
                     THEN [tls EXCEPT ![t].fork_depth = 1, ![t].prepared = FALSE,
                                      ![t].prepare_error = refused, ![t].snapshot = {}]
                     ELSE tls
    BY Zenon DEF ForkBegin
  <1>2. refused \in BOOLEAN /\ handled \in BOOLEAN
    <2>1. refused \in BOOLEAN
      OBVIOUS
    <2>2. handled \in BOOLEAN
      <3>1. (counts.handlers > 0) \in BOOLEAN
        OBVIOUS
      <3> QED
        BY <1>1, <3>1, Zenon
    <2> QED
      BY <2>1, <2>2
  <1>3. d \in Nat
    BY <1>a DEF Processes, Locals
  <1>4. pc' \in [Threads -> Steps]
    BY <1>0, <1>1 DEF DomainTypes, Goto, Steps, Outside
  <1> HIDE DEF refused, d
  <1>5. [tls[t] EXCEPT !.fork_depth = 1, !.prepared = FALSE, !.prepare_error = refused,
                       !.snapshot = {}] \in ThreadLocals
    BY <1>a, <1>2 DEF ThreadLocals
  <1>6. tls' \in [Threads -> ThreadLocals]
    BY <1>0, <1>1, <1>5 DEF DomainTypes
  <1>7. [loc[t] EXCEPT !.back = from, !.handled = handled, !.domain = d] \in Locals
    BY <1>a, <1>2, <1>3 DEF Locals
  <1>8. loc' \in [Threads -> Locals]
    BY <1>0, <1>1, <1>7 DEF DomainTypes
  <1>9. counts' \in Counts
    BY <1>0 DEF DomainTypes, ForkBegin, Counts
  <1> QED
    BY <1>0, <1>4, <1>6, <1>8, <1>9 DEF DomainTypes, ForkBegin

\* A fork inside a fork keeps the types.
LEMMA ForkNestedTypes ==
    ASSUME DomainInv, NEW t \in Threads, ForkNested(t)
    PROVE  DomainTypes'
  <1>0. DomainTypes
    BY DEF DomainInv
  <1>a. tls[t] \in ThreadLocals /\ loc[t] \in Locals /\ dom \in Domains /\ proc \in Processes
    BY <1>0 DEF DomainTypes
  <1>1. [tls[t] EXCEPT !.fork_depth = 2] \in ThreadLocals
    BY <1>a DEF ThreadLocals
  <1>2. tls' \in [Threads -> ThreadLocals]
    BY <1>0, <1>1, NamesAssumption DEF DomainTypes, ForkNested, Goto
  <1>3. counts' \in Counts
    BY <1>0, BoundsAssumption DEF DomainTypes, ForkNested, Goto, Counts
  <1> QED
    BY <1>0, <1>2, <1>3 DEF DomainTypes, ForkNested, Goto, Steps, Outside, Starting

\* The exchange of the ticket keeps the types.
LEMMA InitCasTypes ==
    ASSUME DomainInv, NEW t \in Threads, InitCas(t)
    PROVE  DomainTypes'
  <1>0. DomainTypes
    BY DEF DomainInv
  <1>a. tls[t] \in ThreadLocals /\ loc[t] \in Locals /\ dom \in Domains /\ proc \in Processes
    BY <1>0 DEF DomainTypes
  <1>1. [tls[t] EXCEPT !.initializing = TRUE] \in ThreadLocals
    BY <1>a DEF ThreadLocals
  <1>2. NoLocals \in Locals
    BY <1>a DEF Locals, NoLocals, Tickets
  <1>3. proc' \in Processes
    BY <1>0, NamesAssumption DEF DomainTypes, InitCas, Goto, Processes, Tickets
  <1>4. tls' \in [Threads -> ThreadLocals]
    BY <1>0, <1>1, NamesAssumption DEF DomainTypes, InitCas, Goto
  <1>5. loc' \in [Threads -> Locals]
    BY <1>0, <1>2, NamesAssumption DEF DomainTypes, InitCas, Goto
  <1> QED
    BY <1>0, <1>3, <1>4, <1>5 DEF DomainTypes, InitCas, Goto, Steps, Outside, Starting

\* Creating a candidate domain keeps the types.
LEMMA InitCreateTypes ==
    ASSUME DomainInv, NEW t \in Threads, InitCreate(t)
    PROVE  DomainTypes'
  <1>0. DomainTypes
    BY DEF DomainInv
  <1>1. proc' \in Processes
    BY <1>0, NamesAssumption
    DEF DomainTypes, InitCreate, Fault, Discarded, Goto, Processes, Tickets
  <1>2. counts' \in Counts
    BY <1>0, BoundsAssumption DEF DomainTypes, InitCreate, Fault, Discarded, Goto, Counts
  <1> QED
    BY <1>0, <1>1, <1>2
    DEF DomainTypes, InitCreate, Fault, Discarded, Goto, Steps, Outside, Starting

\* Registering the fork handlers keeps the types.
LEMMA InitRegisterTypes ==
    ASSUME DomainInv, NEW t \in Threads, InitRegister(t)
    PROVE  DomainTypes'
  <1>0. DomainTypes
    BY DEF DomainInv
  <1>1. proc' \in Processes
    BY <1>0, NamesAssumption
    DEF DomainTypes, InitRegister, Fault, Discarded, Goto, Processes, Tickets
  <1>2. counts' \in Counts
    BY <1>0, BoundsAssumption DEF DomainTypes, InitRegister, Fault, Discarded, Goto, Counts
  <1> QED
    BY <1>0, <1>1, <1>2
    DEF DomainTypes, InitRegister, Fault, Discarded, Goto, Steps, Outside, Starting

\* Publishing the domain keeps the types.
LEMMA InitPublishTypes ==
    ASSUME DomainInv, NEW t \in Threads, InitPublish(t)
    PROVE  DomainTypes'
  <1>0. DomainTypes
    BY DEF DomainInv
  <1>a. tls[t] \in ThreadLocals /\ loc[t] \in Locals /\ dom \in Domains /\ proc \in Processes
    BY <1>0 DEF DomainTypes
  <1> DEFINE n == counts.domains + 1
             b == tls[t].in_runtime /\ ~loc[t].child
  <1>1. counts' \in Counts /\ counts'.domains = n /\ n \in Nat
    BY <1>0 DEF DomainTypes, InitPublish, Counts
  <1>2. b \in BOOLEAN
    OBVIOUS
  <1>3. dom' = [NoDomain EXCEPT !.id = n]
    BY <1>1 DEF InitPublish
  <1>4. tls' = [tls EXCEPT ![t].in_runtime = b]
    BY DEF InitPublish
  <1> HIDE DEF n, b
  <1>5. dom' \in Domains /\ dom'.id = n
    BY <1>1, <1>3 DEF NoDomain, Domains, Owners
  <1>6. proc' = [proc EXCEPT !.current = n, !.owner_pid = pid, !.forked_child = FALSE]
    BY <1>5 DEF InitPublish
  <1>7. proc' \in Processes
    BY <1>0, <1>a, <1>1, <1>6 DEF DomainTypes, Processes
  <1>8. [tls[t] EXCEPT !.in_runtime = b] \in ThreadLocals
    BY <1>a, <1>2 DEF ThreadLocals
  <1>9. tls' \in [Threads -> ThreadLocals]
    BY <1>0, <1>4, <1>8 DEF DomainTypes
  <1> QED
    BY <1>0, <1>1, <1>5, <1>7, <1>9
    DEF DomainTypes, InitPublish, Goto, Steps, Outside, Starting

\* Storing the final ticket keeps the types.
LEMMA InitEndTypes ==
    ASSUME DomainInv, NEW t \in Threads, InitEnd(t)
    PROVE  DomainTypes'
  <1>0. DomainTypes
    BY DEF DomainInv
  <1>a. tls[t] \in ThreadLocals /\ loc[t] \in Locals /\ dom \in Domains /\ proc \in Processes
    BY <1>0 DEF DomainTypes
  <1>1. [tls[t] EXCEPT !.initializing = FALSE] \in ThreadLocals
    BY <1>a DEF ThreadLocals
  <1>2. NoLocals \in Locals
    BY <1>a DEF Locals, NoLocals, Tickets
  <1>3. proc' \in Processes
    BY <1>0, NamesAssumption DEF DomainTypes, InitEnd, Goto, Processes, Tickets
  <1>4. tls' \in [Threads -> ThreadLocals]
    BY <1>0, <1>1, NamesAssumption DEF DomainTypes, InitEnd, Goto
  <1>5. loc' \in [Threads -> Locals]
    BY <1>0, <1>2, NamesAssumption DEF DomainTypes, InitEnd, Goto
  <1> QED
    BY <1>0, <1>3, <1>4, <1>5 DEF DomainTypes, InitEnd, Goto, Steps, Outside, Starting

\* Obtaining resource_mu, or failing to keeps the types.
LEMMA ResourceLockTypes ==
    ASSUME DomainInv, NEW t \in Threads, ResourceLock(t)
    PROVE  DomainTypes'
  <1>0. DomainTypes
    BY DEF DomainInv
  <1>a. tls[t] \in ThreadLocals /\ loc[t] \in Locals /\ dom \in Domains /\ proc \in Processes
    BY <1>0 DEF DomainTypes
  <1>1. [tls[t] EXCEPT !.in_gate = TRUE] \in ThreadLocals
    BY <1>a DEF ThreadLocals
  <1>2. [loc[t] EXCEPT !.op = "none", !.res = None] \in Locals
    BY <1>a DEF Locals
  <1>3. [dom EXCEPT !.resource_mu = t] \in Domains
    BY <1>a DEF Domains, Owners
  <1>4. [dom EXCEPT !.resource_mu = None] \in Domains
    BY <1>a DEF Domains, Owners
  <1>5. [dom EXCEPT !.resource_mu = Lost] \in Domains
    BY <1>a DEF Domains, Owners
  <1>6. [dom EXCEPT !.resource_error = TRUE] \in Domains
    BY <1>a DEF Domains, Owners
  <1>7. dom' \in Domains
    BY <1>0, <1>3, <1>4, <1>5, <1>6, NamesAssumption
    DEF DomainTypes, ResourceLock, Fault, Faulty, Unlocked, Poisoned, Goto
  <1>8. tls' \in [Threads -> ThreadLocals]
    BY <1>0, <1>1, NamesAssumption
    DEF DomainTypes, ResourceLock, Fault, Faulty, Unlocked, Poisoned, Goto
  <1>9. loc' \in [Threads -> Locals]
    BY <1>0, <1>2, NamesAssumption
    DEF DomainTypes, ResourceLock, Fault, Faulty, Unlocked, Poisoned, Goto
  <1>10. counts' \in Counts
    BY <1>0, BoundsAssumption
    DEF DomainTypes, ResourceLock, Fault, Faulty, Unlocked, Poisoned, Goto, Counts
  <1> QED
    BY <1>0, <1>7, <1>8, <1>9, <1>10
    DEF DomainTypes, ResourceLock, Fault, Faulty, Unlocked, Poisoned, Goto, Steps, Outside,
        Starting

\* Releasing resource_mu keeps the types.
LEMMA ResourceLeaveTypes ==
    ASSUME DomainInv, NEW t \in Threads, ResourceLeave(t)
    PROVE  DomainTypes'
  <1>0. DomainTypes
    BY DEF DomainInv
  <1>a. tls[t] \in ThreadLocals /\ loc[t] \in Locals /\ dom \in Domains /\ proc \in Processes
    BY <1>0 DEF DomainTypes
  <1>1. [tls[t] EXCEPT !.in_gate = FALSE] \in ThreadLocals
    BY <1>a DEF ThreadLocals
  <1>2. [loc[t] EXCEPT !.op = "none", !.res = None] \in Locals
    BY <1>a DEF Locals
  <1>3. dom' \in Domains
    BY <1>0, NamesAssumption
    DEF DomainTypes, ResourceLeave, Faulty, Unlocked, Goto, Domains, Owners
  <1>4. tls' \in [Threads -> ThreadLocals]
    BY <1>0, <1>1, NamesAssumption DEF DomainTypes, ResourceLeave, Faulty, Unlocked, Goto
  <1>5. loc' \in [Threads -> Locals]
    BY <1>0, <1>2, NamesAssumption DEF DomainTypes, ResourceLeave, Faulty, Unlocked, Goto
  <1>6. counts' \in Counts
    BY <1>0, BoundsAssumption DEF DomainTypes, ResourceLeave, Faulty, Unlocked, Goto, Counts
  <1> QED
    BY <1>0, <1>3, <1>4, <1>5, <1>6
    DEF DomainTypes, ResourceLeave, Faulty, Unlocked, Goto, Steps, Outside, Starting

\* The system call that opens a descriptor keeps the types.
LEMMA OpenTypes ==
    ASSUME DomainInv, NEW t \in Threads, Open(t)
    PROVE  DomainTypes'
  <1>0. DomainTypes
    BY DEF DomainInv
  <1>a. tls[t] \in ThreadLocals /\ loc[t] \in Locals /\ dom \in Domains /\ proc \in Processes
    BY <1>0 DEF DomainTypes
  <1>1. ASSUME NEW r \in Fds, loc' = [loc EXCEPT ![t].res = r]
        PROVE  loc' \in [Threads -> Locals]
    <2>1. [loc[t] EXCEPT !.res = r] \in Locals
      BY <1>a DEF Locals, Res
    <2> QED
      BY <1>0, <1>1, <2>1 DEF DomainTypes
  <1>2. loc' \in [Threads -> Locals]
    BY <1>0, <1>1 DEF DomainTypes, Open
  <1>3. kernel' \in [Res -> {"free", "logger", "forkable", "inherited", "host"}]
    BY <1>0 DEF DomainTypes, Open, Res
  <1> QED
    BY <1>0, <1>2, <1>3 DEF DomainTypes, Open, Within, Goto, Steps, Outside, Starting

\* Registering a descriptor, or closing it keeps the types.
LEMMA AcquiredTypes ==
    ASSUME DomainInv, NEW t \in Threads, Acquired(t)
    PROVE  DomainTypes'
  <1>0. DomainTypes
    BY DEF DomainInv
  <1>a. tls[t] \in ThreadLocals /\ loc[t] \in Locals /\ dom \in Domains /\ proc \in Processes
    BY <1>0 DEF DomainTypes
  <1>1. counts' \in Counts
    BY <1>0, BoundsAssumption DEF DomainTypes, Acquired, Fault, Counts
  <1>2. dom' \in Domains
    <2>1. t \in alive /\ loc[t].res \in Fds
      BY DEF DomainInv, HandInv, Acquired, Goto
    <2>2. [dom EXCEPT !.owned = @ \cup {loc[t].res}] \in Domains
      BY <1>a, <2>1 DEF Domains
    <2> QED
      BY <1>a, <2>2 DEF Acquired
  <1>3. kernel' \in [Res -> {"free", "logger", "forkable", "inherited", "host"}]
    BY <1>0 DEF DomainTypes, Acquired
  <1> QED
    BY <1>0, <1>1, <1>2, <1>3 DEF DomainTypes, Acquired, Within, Goto, Steps, Outside, Starting

\* Turning a descriptor into a directory lease keeps the types.
LEMMA FdopendirTypes ==
    ASSUME DomainInv, NEW t \in Threads, Fdopendir(t)
    PROVE  DomainTypes'
  <1>0. DomainTypes
    BY DEF DomainInv
  <1> QED
    BY <1>0 DEF DomainTypes, Fdopendir, Within, Goto, Steps, Outside, Starting

\* Taking a descriptor off the table keeps the types.
LEMMA UnregisterTypes ==
    ASSUME DomainInv, NEW t \in Threads, Unregister(t)
    PROVE  DomainTypes'
  <1>0. DomainTypes
    BY DEF DomainInv
  <1>1. dom' \in Domains
    BY <1>0, NamesAssumption DEF DomainTypes, Unregister, Within, Goto, Domains, Owners
  <1> QED
    BY <1>0, <1>1 DEF DomainTypes, Unregister, Within, Goto, Steps, Outside, Starting

\* Closing a descriptor keeps the types.
LEMMA CloseFdTypes ==
    ASSUME DomainInv, NEW t \in Threads, CloseFd(t)
    PROVE  DomainTypes'
  <1>0. DomainTypes
    BY DEF DomainInv
  <1>1. dom' \in Domains
    BY <1>0, NamesAssumption DEF DomainTypes, CloseFd, Fault, Poisoned, Goto, Domains, Owners
  <1>2. kernel' \in [Res -> {"free", "logger", "forkable", "inherited", "host"}]
    BY <1>0, NamesAssumption DEF DomainTypes, CloseFd, Fault, Poisoned, Goto, Res
  <1>3. counts' \in Counts
    BY <1>0, BoundsAssumption DEF DomainTypes, CloseFd, Fault, Poisoned, Goto, Counts
  <1> QED
    BY <1>0, <1>1, <1>2, <1>3
    DEF DomainTypes, CloseFd, Fault, Poisoned, Goto, Steps, Outside, Starting

\* Mapping memory keeps the types.
LEMMA MmapTypes ==
    ASSUME DomainInv, NEW t \in Threads, Mmap(t)
    PROVE  DomainTypes'
  <1>0. DomainTypes
    BY DEF DomainInv
  <1>a. tls[t] \in ThreadLocals /\ loc[t] \in Locals /\ dom \in Domains /\ proc \in Processes
    BY <1>0 DEF DomainTypes
  <1>1. ASSUME NEW r \in Maps, loc' = [loc EXCEPT ![t].res = r]
        PROVE  loc' \in [Threads -> Locals]
    <2>1. [loc[t] EXCEPT !.res = r] \in Locals
      BY <1>a DEF Locals, Res
    <2> QED
      BY <1>0, <1>1, <2>1 DEF DomainTypes
  <1>2. loc' \in [Threads -> Locals]
    BY <1>0, <1>1 DEF DomainTypes, Mmap
  <1>3. kernel' \in [Res -> {"free", "logger", "forkable", "inherited", "host"}]
    BY <1>0 DEF DomainTypes, Mmap, Res
  <1> QED
    BY <1>0, <1>2, <1>3 DEF DomainTypes, Mmap, Within, Goto, Steps, Outside, Starting

\* Excluding a mapping from fork and linking it keeps the types.
LEMMA MadviseTypes ==
    ASSUME DomainInv, NEW t \in Threads, Madvise(t)
    PROVE  DomainTypes'
  <1>0. DomainTypes
    BY DEF DomainInv
  <1>a. tls[t] \in ThreadLocals /\ loc[t] \in Locals /\ dom \in Domains /\ proc \in Processes
    BY <1>0 DEF DomainTypes
  <1>1. counts' \in Counts
    BY <1>0, BoundsAssumption DEF DomainTypes, Madvise, Fault, Counts
  <1>2. dom' \in Domains
    <2> DEFINE linked == dom.allocations \cup {loc[t].res}
    <2>1. linked \in SUBSET Maps
      BY <1>a DEF DomainInv, HandInv, Madvise, Goto, Domains
    <2>2. dom' \in {dom, [dom EXCEPT !.allocations = linked], [Poisoned EXCEPT !.allocations = linked]}
      BY DEF Madvise
    <2> HIDE DEF linked
    <2>3. Poisoned \in Domains
      BY <1>a DEF Poisoned, Domains
    <2>4. [dom EXCEPT !.allocations = linked] \in Domains
      BY <1>a, <2>1 DEF Domains
    <2>5. [Poisoned EXCEPT !.allocations = linked] \in Domains
      BY <2>3, <2>1 DEF Domains
    <2> QED
      BY <1>a, <2>2, <2>4, <2>5
  <1>3. kernel' \in [Res -> {"free", "logger", "forkable", "inherited", "host"}]
    BY <1>0 DEF DomainTypes, Madvise
  <1> QED
    BY <1>0, <1>1, <1>2, <1>3 DEF DomainTypes, Madvise, Within, Goto, Steps, Outside, Starting

\* Giving a mapping back keeps the types.
LEMMA FreeTypes ==
    ASSUME DomainInv, NEW t \in Threads, Free(t)
    PROVE  DomainTypes'
  <1>0. DomainTypes
    BY DEF DomainInv
  <1>a. tls[t] \in ThreadLocals /\ loc[t] \in Locals /\ dom \in Domains /\ proc \in Processes
    BY <1>0 DEF DomainTypes
  <1>1. counts' \in Counts
    BY <1>0, BoundsAssumption DEF DomainTypes, Free, Fault, Counts
  <1>2. dom' \in Domains
    <2>1. Poisoned \in Domains
      BY <1>a DEF Poisoned, Domains
    <2>2. [dom EXCEPT !.allocations = @ \ {loc[t].res}] \in Domains
      BY <1>a DEF Domains
    <2> QED
      BY <1>a, <2>1, <2>2 DEF Free
  <1>3. kernel' \in [Res -> {"free", "logger", "forkable", "inherited", "host"}]
    BY <1>0 DEF DomainTypes, Free
  <1> QED
    BY <1>0, <1>1, <1>2, <1>3 DEF DomainTypes, Free, Within, Goto, Steps, Outside, Starting

\* Obtaining format_mu, or failing to keeps the types.
LEMMA FormatLockTypes ==
    ASSUME DomainInv, NEW t \in Threads, FormatLock(t)
    PROVE  DomainTypes'
  <1>0. DomainTypes
    BY DEF DomainInv
  <1>a. tls[t] \in ThreadLocals /\ loc[t] \in Locals /\ dom \in Domains /\ proc \in Processes
    BY <1>0 DEF DomainTypes
  <1>1. counts' \in Counts
    BY <1>0, BoundsAssumption DEF DomainTypes, FormatLock, FormatAcquire, Fault, Faulty, Counts
  <1>2. dom' \in Domains
    <2>1. /\ [dom EXCEPT !.format_mu = t] \in Domains
          /\ [dom EXCEPT !.format_mu = None] \in Domains
          /\ [dom EXCEPT !.format_mu = Lost] \in Domains
      BY <1>a DEF Domains, Owners
    <2> QED
      BY <1>a, <2>1 DEF FormatLock, FormatAcquire, Unlocked
  <1>3. pc' \in [Threads -> Steps]
    BY <1>0 DEF DomainTypes, FormatLock, FormatAcquire, Goto, Steps, Outside
  <1> DEFINE b == (pc'[t] = "format")
  <1>4. b \in BOOLEAN /\ tls' = [tls EXCEPT ![t].entered = b]
    BY DEF FormatLock
  <1> HIDE DEF b
  <1>5. [tls[t] EXCEPT !.entered = b] \in ThreadLocals
    BY <1>a, <1>4 DEF ThreadLocals
  <1>6. tls' \in [Threads -> ThreadLocals]
    BY <1>0, <1>4, <1>5 DEF DomainTypes
  <1> QED
    BY <1>0, <1>1, <1>2, <1>3, <1>6 DEF DomainTypes, FormatLock

\* Releasing format_mu keeps the types.
LEMMA FormatEndTypes ==
    ASSUME DomainInv, NEW t \in Threads, FormatEnd(t)
    PROVE  DomainTypes'
  <1>0. DomainTypes
    BY DEF DomainInv
  <1>a. tls[t] \in ThreadLocals /\ loc[t] \in Locals /\ dom \in Domains /\ proc \in Processes
    BY <1>0 DEF DomainTypes
  <1>1. [tls[t] EXCEPT !.entered = FALSE] \in ThreadLocals
    BY <1>a DEF ThreadLocals
  <1>2. dom' \in Domains
    BY <1>0, NamesAssumption
    DEF DomainTypes, FormatEnd, Faulty, Unlocked, Goto, Domains, Owners
  <1>3. tls' \in [Threads -> ThreadLocals]
    BY <1>0, <1>1, NamesAssumption DEF DomainTypes, FormatEnd, Faulty, Unlocked, Goto
  <1>4. counts' \in Counts
    BY <1>0, BoundsAssumption DEF DomainTypes, FormatEnd, Faulty, Unlocked, Goto, Counts
  <1> QED
    BY <1>0, <1>2, <1>3, <1>4
    DEF DomainTypes, FormatEnd, Faulty, Unlocked, Goto, Steps, Outside, Starting

\* Taking format_mu for a fork keeps the types.
LEMMA ForkFormatTypes ==
    ASSUME DomainInv, NEW t \in Threads, ForkFormat(t)
    PROVE  DomainTypes'
  <1>0. DomainTypes
    BY DEF DomainInv
  <1>a. tls[t] \in ThreadLocals /\ loc[t] \in Locals /\ dom \in Domains /\ proc \in Processes
    BY <1>0 DEF DomainTypes
  <1>1. counts' \in Counts
    BY <1>0, BoundsAssumption DEF DomainTypes, ForkFormat, FormatAcquire, Fault, Faulty, Counts
  <1>2. dom' \in Domains
    <2>1. /\ [dom EXCEPT !.format_mu = t] \in Domains
          /\ [dom EXCEPT !.format_mu = None] \in Domains
          /\ [dom EXCEPT !.format_mu = Lost] \in Domains
      BY <1>a DEF Domains, Owners
    <2> QED
      BY <1>a, <2>1 DEF ForkFormat, FormatAcquire, Unlocked
  <1>3. pc' \in [Threads -> Steps]
    BY <1>0 DEF DomainTypes, ForkFormat, FormatAcquire, Goto, Steps, Outside
  <1> DEFINE b == (pc'[t] = "fork_fd")
             c == ~b
  <1>4. /\ b \in BOOLEAN /\ c \in BOOLEAN
        /\ tls' = [tls EXCEPT ![t].entered = b, ![t].libc_prepared = b, ![t].prepare_error = c]
    BY DEF ForkFormat
  <1> HIDE DEF b, c
  <1>5. [tls[t] EXCEPT !.entered = b, !.libc_prepared = b, !.prepare_error = c] \in ThreadLocals
    BY <1>a, <1>4 DEF ThreadLocals
  <1>6. tls' \in [Threads -> ThreadLocals]
    BY <1>0, <1>4, <1>5 DEF DomainTypes
  <1> QED
    BY <1>0, <1>1, <1>2, <1>3, <1>6 DEF DomainTypes, ForkFormat

\* The snapshot of the table keeps the types.
LEMMA ForkFdTypes ==
    ASSUME DomainInv, NEW t \in Threads, ForkFd(t)
    PROVE  DomainTypes'
  <1>0. DomainTypes
    BY DEF DomainInv
  <1>a. tls[t] \in ThreadLocals /\ loc[t] \in Locals /\ dom \in Domains /\ proc \in Processes
    BY <1>0 DEF DomainTypes
  <1>1. counts' \in Counts
    BY <1>0, BoundsAssumption DEF DomainTypes, ForkFd, Fault, Counts
  <1>2. dom' \in Domains
    BY <1>a DEF ForkFd, Domains, Owners
  <1>3. tls' \in [Threads -> ThreadLocals]
    <2>1. [tls[t] EXCEPT !.prepare_error = TRUE] \in ThreadLocals
      BY <1>a DEF ThreadLocals
    <2>2. dom.resource_error \in BOOLEAN /\ dom.owned \in SUBSET Fds
      BY <1>a DEF Domains
    <2>3. [tls[t] EXCEPT !.prepared = TRUE, !.in_gate = TRUE,
                         !.prepare_error = dom.resource_error,
                         !.snapshot = dom.owned] \in ThreadLocals
      BY <1>a, <2>2 DEF ThreadLocals
    <2> QED
      BY <1>0, <2>1, <2>3 DEF DomainTypes, ForkFd, Prepared
  <1> QED
    BY <1>0, <1>1, <1>2, <1>3 DEF DomainTypes, ForkFd, Goto, Steps, Outside

\* The parent handler keeps the types.
LEMMA ForkParentTypes ==
    ASSUME DomainInv, NEW t \in Threads, ForkParent(t)
    PROVE  DomainTypes'
  <1>0. DomainTypes
    BY DEF DomainInv
  <1>a. tls[t] \in ThreadLocals /\ loc[t] \in Locals /\ dom \in Domains /\ proc \in Processes
    BY <1>0 DEF DomainTypes
  <1>1. counts' \in Counts
    BY <1>0, BoundsAssumption DEF DomainTypes, ForkParent, Faulty, Counts
  <1>2. dom' \in Domains
    <2> DEFINE Release(n, k) ==
          [dom EXCEPT !.resource_mu = IF tls[t].prepared THEN Unlocked(n) ELSE @,
                      !.format_mu = IF tls[t].libc_prepared THEN Unlocked(k) ELSE @,
                      !.resource_error = @ \/ n + k > 0]
    <2>1. dom' = dom \/ \E n, k \in {0, 1} : dom' = Release(n, k)
      BY DEF ForkParent
    <2>2. ASSUME NEW n \in {0, 1}, NEW k \in {0, 1}
          PROVE  Release(n, k) \in Domains
      <3> DEFINE a == IF tls[t].prepared THEN Unlocked(n) ELSE dom.resource_mu
                 b == IF tls[t].libc_prepared THEN Unlocked(k) ELSE dom.format_mu
                 c == dom.resource_error \/ n + k > 0
      <3>1. a \in Owners /\ b \in Owners /\ c \in BOOLEAN
        BY <1>a DEF Domains, Owners, Unlocked
      <3>2. Release(n, k) = [dom EXCEPT !.resource_mu = a, !.format_mu = b, !.resource_error = c]
        BY <1>a DEF Domains
      <3> HIDE DEF a, b, c, Release
      <3> QED
        BY <1>a, <3>1, <3>2 DEF Domains
    <2> QED
      BY <1>a, <2>1, <2>2
  <1>3. tls' \in [Threads -> ThreadLocals]
    <2> DEFINE b == tls[t].in_gate /\ ~tls[t].prepared
               c == tls[t].entered /\ ~tls[t].libc_prepared
               k == tls[t].fork_depth - 1
    <2>1. b \in BOOLEAN /\ c \in BOOLEAN /\ (tls[t].fork_depth > 1 => k \in Nat)
      BY <1>a DEF ThreadLocals
    <2>2. \/ tls' = tls
          \/ tls[t].fork_depth > 1 /\ tls' = [tls EXCEPT ![t].fork_depth = k]
          \/ tls' = [tls EXCEPT ![t].in_gate = b, ![t].entered = c, ![t].prepared = FALSE,
                                ![t].libc_prepared = FALSE, ![t].fork_depth = 0]
      BY DEF ForkParent
    <2> HIDE DEF b, c, k
    <2>3. tls[t].fork_depth > 1 => [tls[t] EXCEPT !.fork_depth = k] \in ThreadLocals
      BY <1>a, <2>1 DEF ThreadLocals
    <2>4. [tls[t] EXCEPT !.in_gate = b, !.entered = c, !.prepared = FALSE,
                         !.libc_prepared = FALSE, !.fork_depth = 0] \in ThreadLocals
      BY <1>a, <2>1 DEF ThreadLocals
    <2> QED
      BY <1>0, <2>2, <2>3, <2>4 DEF DomainTypes
  <1>4. loc' \in [Threads -> Locals]
    <2> DEFINE d == IF loc[t].back = "idle" THEN 0 ELSE loc[t].domain
    <2>1. d \in Nat
      BY <1>a DEF Locals
    <2>2. loc' = loc \/ loc' = [loc EXCEPT ![t].back = "idle", ![t].handled = FALSE, ![t].domain = d]
      BY DEF ForkParent
    <2> HIDE DEF d
    <2>3. [loc[t] EXCEPT !.back = "idle", !.handled = FALSE, !.domain = d] \in Locals
      BY <1>a, <2>1 DEF Locals
    <2> QED
      BY <1>0, <2>2, <2>3 DEF DomainTypes
  <1>5. pc' \in [Threads -> Steps]
    BY <1>0, <1>a DEF DomainTypes, ForkParent, Goto, Steps, Outside, Locals
  <1> QED
    BY <1>0, <1>1, <1>2, <1>3, <1>4, <1>5 DEF DomainTypes, ForkParent

\* Fork returning in the child keeps the types.
LEMMA ForkChildTypes ==
    ASSUME DomainInv, NEW t \in Threads, ForkChild(t)
    PROVE  DomainTypes'
  <1>0. DomainTypes
    BY DEF DomainInv
  <1>a. tls[t] \in ThreadLocals /\ loc[t] \in Locals /\ dom \in Domains /\ proc \in Processes
    BY <1>0 DEF DomainTypes
  <1>1. NoDomain \in Domains
    BY DEF NoDomain, Domains, Owners
  <1>2. \A u \in Threads : [NoLocals EXCEPT !.handled = u = t /\ loc[t].handled] \in Locals
    <2>1. NoLocals \in Locals
      BY DEF NoLocals, Locals, Tickets
    <2>2. \A b \in BOOLEAN : [NoLocals EXCEPT !.handled = b] \in Locals
      BY <2>1 DEF Locals
    <2> QED
      BY <2>2
  <1>3. OutsideTls \in ThreadLocals
    BY DEF OutsideTls, ThreadLocals
  <1>4. loc' \in [Threads -> Locals] /\ tls' \in [Threads -> ThreadLocals]
    BY <1>0, <1>2, <1>3 DEF DomainTypes, ForkChild
  <1>5. kernel' \in [Res -> {"free", "logger", "forkable", "inherited", "host"}]
    BY <1>0 DEF DomainTypes, ForkChild
  <1>6. pc' \in [Threads -> Steps] /\ pid' \in Nat \ {0} /\ alive' \in SUBSET Threads
    BY <1>0 DEF DomainTypes, ForkChild, Goto, Steps, Outside
  <1> QED
    BY <1>0, <1>1, <1>4, <1>5, <1>6 DEF DomainTypes, ForkChild

\* The child handler keeps the types.
LEMMA ChildHandlerTypes ==
    ASSUME DomainInv, NEW t \in Threads, ChildHandler(t)
    PROVE  DomainTypes'
  <1>0. DomainTypes
    BY DEF DomainInv
  <1>a. tls[t] \in ThreadLocals /\ loc[t] \in Locals /\ dom \in Domains /\ proc \in Processes
    BY <1>0 DEF DomainTypes
  <1>1. counts' \in Counts
    BY <1>0, BoundsAssumption DEF DomainTypes, ChildHandler, Fault, Counts
  <1>2. proc' \in Processes
    <2> DEFINE v == tls[t].prepared /\ ~tls[t].prepare_error /\ tls[t].fork_depth = 1
               w == ~v
               b == IF v THEN (IF v THEN tls[t].snapshot ELSE {}) # {} ELSE proc.child_bitmap
               q == [proc EXCEPT !.forked_child = TRUE, !.child_valid = v, !.child_error = w,
                                 !.current = 0, !.child_bitmap = b]
    <2>1. v \in BOOLEAN /\ w \in BOOLEAN /\ b \in BOOLEAN
      BY <1>a DEF Processes
    <2>2. proc' = q \/ proc' = [q EXCEPT !.child_error = TRUE]
      BY DEF ChildHandler
    <2> HIDE DEF v, w, b
    <2>3. q \in Processes
      BY <1>a, <2>1 DEF Processes
    <2> HIDE DEF q
    <2>4. [q EXCEPT !.child_error = TRUE] \in Processes
      BY <2>3 DEF Processes
    <2> QED
      BY <2>2, <2>3, <2>4
  <1>3. tls' \in [Threads -> ThreadLocals]
    <2>1. tls[t].in_runtime \in BOOLEAN /\ tls[t].initializing \in BOOLEAN
          /\ OutsideTls \in ThreadLocals
      BY <1>a DEF ThreadLocals, OutsideTls
    <2>2. [OutsideTls EXCEPT !.in_runtime = tls[t].in_runtime,
                             !.initializing = tls[t].initializing] \in ThreadLocals
      BY <2>1 DEF ThreadLocals
    <2> QED
      BY <1>0, <2>2 DEF DomainTypes, ChildHandler
  <1>4. kernel' \in [Res -> {"free", "logger", "forkable", "inherited", "host"}]
    BY <1>0 DEF DomainTypes, ChildHandler
  <1> QED
    BY <1>0, <1>1, <1>2, <1>3, <1>4 DEF DomainTypes, ChildHandler, Goto, Steps, Outside

\* The host opening a descriptor keeps the types.
LEMMA HostOpenTypes ==
    ASSUME DomainInv, NEW r \in Fds, HostOpen(r)
    PROVE  DomainTypes'
  <1>0. DomainTypes
    BY DEF DomainInv
  <1>1. kernel' \in [Res -> {"free", "logger", "forkable", "inherited", "host"}]
    BY <1>0, NamesAssumption DEF DomainTypes, HostOpen, Res
  <1> QED
    BY <1>0, <1>1 DEF DomainTypes, HostOpen, Steps, Outside, Starting

\* The host closing a descriptor keeps the types.
LEMMA HostCloseTypes ==
    ASSUME DomainInv, NEW r \in Fds, HostClose(r)
    PROVE  DomainTypes'
  <1>0. DomainTypes
    BY DEF DomainInv
  <1>1. kernel' \in [Res -> {"free", "logger", "forkable", "inherited", "host"}]
    BY <1>0, NamesAssumption DEF DomainTypes, HostClose, Res
  <1> QED
    BY <1>0, <1>1 DEF DomainTypes, HostClose, Steps, Outside, Starting

\* Unloading the library keeps the types.
LEMMA logger_runtime_unloadTypes ==
    ASSUME DomainInv, logger_runtime_unload
    PROVE  DomainTypes'
  <1>0. DomainTypes
    BY DEF DomainInv
  <1>1. NoDomain \in Domains
    BY DEF NoDomain, Domains, Owners
  <1>2. proc' \in Processes
    BY <1>0 DEF DomainTypes, logger_runtime_unload, Processes
  <1> QED
    BY <1>0, <1>1, <1>2 DEF DomainTypes, logger_runtime_unload

-----------------------------------------------------------------------------
(* Steps of one thread                                                     *)

\* The other threads do nothing.
Others(t) == \A u \in alive \ {t} : pc'[u] = pc[u] /\ loc'[u] = loc[u] /\ tls'[u] = tls[u]

\* What the steps below need of the types.
Shapes ==
    /\ pid \in Nat /\ proc.owner_pid \in Nat /\ counts.handlers \in Nat
    /\ alive \subseteq Threads /\ dom.owned \subseteq Fds /\ dom.allocations \subseteq Maps
    /\ \A t \in alive :
         /\ loc[t].op \in {"none", "open", "mmap", "close", "fdopendir", "free"}
         /\ loc[t].res \in Res \cup {None} /\ tls[t].snapshot \subseteq Fds

\* They follow from the types, before and after a step.
LEMMA ShapesHold == (DomainTypes => Shapes) /\ (DomainTypes' => Shapes')
  BY DEF DomainTypes, Shapes, Processes, Domains, Locals, ThreadLocals, Counts

\* What initialisation reads of the process is unchanged.
SameProcess ==
    /\ pid' = pid /\ alive' = alive
    /\ proc'.owner_pid = proc.owner_pid /\ proc'.forked_child = proc.forked_child
    /\ proc'.ticket = proc.ticket /\ proc'.child_valid = proc.child_valid
    /\ proc'.current = proc.current

\* The marks of t that its fork depends on, and the call it is in.
SameMarks(t) ==
    /\ tls'[t].in_runtime = tls[t].in_runtime /\ tls'[t].prepared = tls[t].prepared
    /\ tls'[t].prepare_error = tls[t].prepare_error /\ tls'[t].snapshot = tls[t].snapshot
SameCall(t) ==
    /\ loc'[t].domain = loc[t].domain /\ loc'[t].back = loc[t].back
    /\ loc'[t].handled = loc[t].handled

NotWorking == {"cas", "child_handler"} \cup Starting

\* t takes a step that neither initialises the process nor ends a fork in the
\* child, acquires only while inside the library, and enters it only by the
\* published domain.
Work(t) ==
    /\ t \in alive /\ UNCHANGED <<pid, alive, proc>> /\ Others(t)
    /\ dom'.id = dom.id /\ counts'.handlers = counts.handlers
    /\ pc[t] \notin NotWorking /\ pc'[t] \notin NotWorking
    /\ \A r \in Res :
         /\ kernel'[r] = "inherited" => kernel[r] = "inherited"
         /\ kernel'[r] \in {"logger", "forkable"} => kernel[r] \in {"logger", "forkable"} \/ Inside(t)
    /\ Inside(t)' => /\ logger_process_ready /\ ~logger_process_is_child
                     /\ proc.current = loc'[t].domain

\* Such a step keeps the process, its domain and what it inherited.
LEMMA WorkKeeps ==
    ASSUME DomainInv, DomainTypes', NEW t \in Threads, Work(t)
    PROVE  /\ OwnerInv' /\ AloneInv' /\ CasInv' /\ StartingInv' /\ TicketInv' /\ VouchedInv'
           /\ PublishedInv' /\ InsideInv' /\ HeldInv' /\ CleanInv'
  <1> USE DEF DomainInv, Work, Others, NotWorking, Starting, logger_process_is_child,
              logger_process_ready
  <1>1. OwnerInv' /\ AloneInv'
    BY DEF OwnerInv, AloneInv
  <1>2. CasInv' /\ StartingInv' /\ VouchedInv'
    BY DEF CasInv, StartingInv, VouchedInv
  <1>3. TicketInv'
    BY DEF TicketInv
  <1>4. PublishedInv'
    BY DEF PublishedInv
  <1>5. InsideInv'
    BY <1>4 DEF PublishedInv, InsideInv, Inside
  <1>6. HeldInv'
    BY DEF HeldInv, InsideInv, AloneInv
  <1>7. CleanInv'
    BY DEF CleanInv
  <1> QED
    BY <1>1, <1>2, <1>3, <1>4, <1>5, <1>6, <1>7

\* t takes a step outside the resource calls that touches no resource.
Quiet(t) ==
    /\ t \in alive /\ alive' = alive /\ Others(t) /\ UNCHANGED <<kernel, host_open>>
    /\ dom'.owned = dom.owned /\ dom'.allocations = dom.allocations
    /\ dom'.resource_mu = dom.resource_mu /\ (dom.resource_error => dom'.resource_error)
    /\ pc[t] # "gate_lock" /\ ~InGate(t)
    /\ pc'[t] \notin {"gate_lock", "child_handler"} /\ ~InGate(t)'
    /\ loc'[t].res \in {loc[t].res, None}

\* Such a step keeps the table, the mappings and the snapshots.
LEMMA QuietKeeps ==
    ASSUME DomainInv, DomainTypes', NEW t \in Threads, Quiet(t)
    PROVE  /\ GateInv' /\ UsesInv' /\ HandInv' /\ CallInv' /\ SoleInv' /\ TableInv' /\ OpenInv'
           /\ ForkableInv' /\ SnapshotInv' /\ HostInv'
  <1> USE DEF DomainInv, Quiet, Others
  <1>1. GateInv'
    BY DEF GateInv, InGate
  <1>2. UsesInv'
    BY DEF UsesInv, Uses, InGate
  <1>3. HandInv'
    BY DEF HandInv, InGate
  <1>4. CallInv'
    BY DEF CallInv, InGate
  <1>5. SoleInv'
    BY DEF SoleInv, CallInv
  <1>6. TableInv' /\ HostInv'
    BY DEF TableInv, HostInv
  <1>7. OpenInv'
    BY DEF OpenInv, InGate
  <1>8. ForkableInv'
    BY DEF ForkableInv, InGate
  <1>9. SnapshotInv'
    BY DEF SnapshotInv, InGate
  <1> QED
    BY <1>1, <1>2, <1>3, <1>4, <1>5, <1>6, <1>7, <1>8, <1>9

-----------------------------------------------------------------------------
(* One lemma per action                                                    *)

\* Claiming the process and reading the ticket keeps the invariant.
LEMMA InitBeginKeeps ==
    ASSUME DomainInv, NEW t \in Threads, InitBegin(t)
    PROVE  DomainInv'
  <1>0. DomainTypes'
    BY InitBeginTypes
  <1> USE NamesAssumption
    DEF DomainInv, DomainTypes, Processes, Domains, ThreadLocals, Locals, Counts,
        InitBegin, MayInitialise, Goto, logger_process_is_child, logger_process_ready
  <1>1. Quiet(t)
    BY <1>0 DEF Quiet, Others, InGate, ForkInv, Starting, NoLocals, Unlocked
  <1>2. OwnerInv'
    BY <1>0 DEF OwnerInv, StartingInv, Outside, Starting, NoLocals, Res, OutsideTls, NoDomain
  <1>3. AloneInv'
    BY <1>0 DEF OwnerInv, AloneInv, Outside, Starting, NoLocals, Res, OutsideTls, NoDomain
  <1>4. CasInv'
    BY <1>0
    DEF CasInv, AloneInv, OwnerInv, Outside, Starting, NoLocals, Res, OutsideTls, NoDomain
  <1>5. StartingInv'
    BY <1>0 DEF StartingInv, CasInv, Outside, Starting, NoLocals, Res, OutsideTls, NoDomain
  <1>6. TicketInv'
    BY <1>0
    DEF TicketInv, StartingInv, OwnerInv, AloneInv, Outside, Starting, NoLocals, Res,
        OutsideTls, NoDomain
  <1>7. VouchedInv'
    BY <1>0
    DEF VouchedInv, AloneInv, StartingInv, Outside, Starting, NoLocals, Res, OutsideTls,
        NoDomain
  <1>8. PublishedInv'
    BY <1>0
    DEF PublishedInv, StartingInv, AloneInv, OwnerInv, CasInv, Outside, Starting, NoLocals,
        Res, OutsideTls, NoDomain
  <1>9. InsideInv'
    BY <1>0
    DEF AloneInv, OwnerInv, StartingInv, CasInv, PublishedInv, InsideInv, Inside, ForkInv,
        Outside, Starting, NoLocals, Res, OutsideTls, NoDomain
  <1>10. HeldInv'
    BY <1>0
    DEF OwnerInv, StartingInv, CasInv, InsideInv, Inside, HeldInv, AloneInv, Outside,
        Starting, NoLocals, Res, OutsideTls, NoDomain
  <1>11. CleanInv'
    BY <1>0
    DEF OwnerInv, AloneInv, VouchedInv, CleanInv, HeldInv, SnapshotInv, Outside, Starting,
        NoLocals, Res, OutsideTls, NoDomain
  <1>12. ForkInv'
    BY <1>0 DEF ForkInv, Outside, Starting, NoLocals, Res, OutsideTls, NoDomain
  <1> HIDE DEF InitBegin, MayInitialise, Goto
  <1> QED
    BY <1>0, <1>2, <1>3, <1>4, <1>5, <1>6, <1>7, <1>8, <1>9, <1>10, <1>11, <1>12, <1>1,
       QuietKeeps

\* Entering the library keeps the invariant.
LEMMA logger_scope_beginKeeps ==
    ASSUME DomainInv, NEW t \in Threads, logger_scope_begin(t)
    PROVE  DomainInv'
  <1>0. DomainTypes'
    BY logger_scope_beginTypes
  <1> USE NamesAssumption
    DEF DomainInv, DomainTypes, Processes, Domains, ThreadLocals, Locals, Counts,
        logger_scope_begin, logger_process_require, logger_scope_busy, Goto,
        logger_process_is_child, logger_process_ready
  <1>1. Work(t)
    BY <1>0
    DEF Work, Others, NotWorking, Starting, Outside, Inside, InsideInv, PublishedInv,
        ForkInv, NoLocals, Res
  <1>2. Quiet(t)
    BY <1>0 DEF Quiet, Others, InGate, ForkInv, Starting, NoLocals, Unlocked
  <1>3. ForkInv'
    BY <1>0 DEF ForkInv, Outside, Starting, NoLocals, Res, OutsideTls, NoDomain
  <1> HIDE DEF logger_scope_begin, logger_process_require, logger_scope_busy, Goto
  <1> QED
    BY <1>0, <1>3, <1>1, WorkKeeps, <1>2, QuietKeeps

\* Leaving the library keeps the invariant.
LEMMA logger_scope_endKeeps ==
    ASSUME DomainInv, NEW t \in Threads, logger_scope_end(t)
    PROVE  DomainInv'
  <1>0. DomainTypes'
    BY logger_scope_endTypes
  <1> USE NamesAssumption
    DEF DomainInv, DomainTypes, Processes, Domains, ThreadLocals, Locals, Counts,
        logger_scope_end, Goto, logger_process_is_child, logger_process_ready
  <1>1. Work(t)
    BY <1>0
    DEF Work, Others, NotWorking, Starting, Outside, Inside, InsideInv, PublishedInv,
        ForkInv, NoLocals, Res
  <1>2. Quiet(t)
    BY <1>0 DEF Quiet, Others, InGate, ForkInv, Starting, NoLocals, Unlocked
  <1>3. ForkInv'
    BY <1>0 DEF ForkInv, Outside, Starting, NoLocals, Res, OutsideTls, NoDomain
  <1> HIDE DEF logger_scope_end, Goto
  <1> QED
    BY <1>0, <1>3, <1>1, WorkKeeps, <1>2, QuietKeeps

\* Counting a new object keeps the invariant.
LEMMA logger_process_object_acquireKeeps ==
    ASSUME DomainInv, NEW t \in Threads, logger_process_object_acquire(t)
    PROVE  DomainInv'
  <1>0. DomainTypes'
    BY logger_process_object_acquireTypes
  <1> USE NamesAssumption
    DEF DomainInv, DomainTypes, Processes, Domains, ThreadLocals, Locals, Counts,
        logger_process_object_acquire, Goto, logger_process_is_child, logger_process_ready
  <1>1. Work(t)
    BY <1>0
    DEF Work, Others, NotWorking, Starting, Outside, Inside, InsideInv, PublishedInv,
        ForkInv, NoLocals, Res
  <1>2. Quiet(t)
    BY <1>0 DEF Quiet, Others, InGate, ForkInv, Starting, NoLocals, Unlocked
  <1>3. ForkInv'
    BY <1>0 DEF ForkInv, Outside, Starting, NoLocals, Res, OutsideTls, NoDomain
  <1> HIDE DEF logger_process_object_acquire, Goto
  <1> QED
    BY <1>0, <1>3, <1>1, WorkKeeps, <1>2, QuietKeeps

\* Counting an object out keeps the invariant.
LEMMA logger_process_object_releaseKeeps ==
    ASSUME DomainInv, NEW t \in Threads, logger_process_object_release(t)
    PROVE  DomainInv'
  <1>0. DomainTypes'
    BY logger_process_object_releaseTypes
  <1> USE NamesAssumption
    DEF DomainInv, DomainTypes, Processes, Domains, ThreadLocals, Locals, Counts,
        logger_process_object_release, Goto, logger_process_is_child, logger_process_ready
  <1>1. Work(t)
    BY <1>0
    DEF Work, Others, NotWorking, Starting, Outside, Inside, InsideInv, PublishedInv,
        ForkInv, NoLocals, Res
  <1>2. Quiet(t)
    BY <1>0 DEF Quiet, Others, InGate, ForkInv, Starting, NoLocals, Unlocked
  <1>3. ForkInv'
    BY <1>0 DEF ForkInv, Outside, Starting, NoLocals, Res, OutsideTls, NoDomain
  <1> HIDE DEF logger_process_object_release, Goto
  <1> QED
    BY <1>0, <1>3, <1>1, WorkKeeps, <1>2, QuietKeeps

\* Entering a resource call, up to its lock keeps the invariant.
LEMMA ResourceEnterKeeps ==
    ASSUME DomainInv, NEW t \in Threads, ResourceEnter(t)
    PROVE  DomainInv'
  <1>0. DomainTypes'
    BY ResourceEnterTypes
  <1>d. DomainTypes
    BY DEF DomainInv
  <1>s. Shapes /\ Shapes'
    BY <1>0, <1>d, ShapesHold
  <1>p. PICK op \in {"open", "mmap", "close", "fdopendir", "free"}, r \in Res \cup {None} :
           /\ op \in {"close", "fdopendir"} => r \in dom.owned /\ Mine(r)
           /\ op = "free" => r \in dom.allocations /\ Mine(r)
           /\ op \in {"open", "mmap"} => r = None
           /\ loc' = [loc EXCEPT ![t].op = op, ![t].res = r]
    BY DEF ResourceEnter
  <1>q. /\ op \in {"open", "mmap", "close", "fdopendir", "free"} /\ r \in Res \cup {None}
        /\ op \in {"close", "fdopendir"} => r \in dom.owned
        /\ op = "free" => r \in dom.allocations
        /\ op \in {"open", "mmap"} => r = None
        /\ r # None => \A u \in alive : loc[u].res # r
    BY <1>p DEF Mine
  <1>e. /\ t \in alive /\ Others(t) /\ pc[t] = "scope" /\ pc'[t] = "gate_lock"
        /\ loc'[t].op = op /\ loc'[t].res = r /\ SameCall(t)
        /\ UNCHANGED <<pid, alive, proc, dom, tls, kernel, counts, host_open>>
    BY <1>d, <1>p DEF DomainTypes, Locals, ResourceEnter, Goto, Others, SameCall
  <1> USE NamesAssumption DEF DomainInv, logger_process_is_child, logger_process_ready
  <1>1. Work(t)
    BY <1>s, <1>q, <1>e
    DEF Work, NotWorking, Inside, InsideInv, PublishedInv, ForkInv, Shapes, SameProcess,
        SameMarks, SameCall, Others, Outside, Starting, Res
  <1>2. ForkInv'
    BY <1>s, <1>q, <1>e
    DEF ForkInv, Shapes, SameProcess, SameMarks, SameCall, Others, Outside, Starting, Res
  <1>3. GateInv'
    BY <1>s, <1>q, <1>e
    DEF GateInv, InGate, ForkInv, Shapes, SameProcess, SameMarks, SameCall, Others,
        Outside, Starting, Res
  <1>4. UsesInv'
    BY <1>s, <1>q, <1>e
    DEF UsesInv, Uses, SoleInv, GateInv, InGate, ForkInv, Shapes, SameProcess, SameMarks,
        SameCall, Others, Outside, Starting, Res
  <1>5. HandInv'
    BY <1>s, <1>q, <1>e
    DEF GateInv, InGate, HandInv, SoleInv, TableInv, UsesInv, Uses, Shapes, SameProcess,
        SameMarks, SameCall, Others, Outside, Starting, Res
  <1>6. CallInv'
    BY <1>s, <1>q, <1>e
    DEF CallInv, InGate, UsesInv, Uses, ForkInv, Shapes, SameProcess, SameMarks, SameCall,
        Others, Outside, Starting, Res
  <1>7. SoleInv'
    BY <1>s, <1>q, <1>e DEF SoleInv, Others
  <1>8. TableInv'
    BY <1>s, <1>q, <1>e
    DEF TableInv, HandInv, UsesInv, SoleInv, HeldInv, StartingInv, Shapes, SameProcess,
        SameMarks, SameCall, Others, Outside, Starting, Res
  <1>9. OpenInv'
    BY <1>s, <1>q, <1>e
    DEF OpenInv, HandInv, UsesInv, Uses, SoleInv, HeldInv, StartingInv, Shapes,
        SameProcess, SameMarks, SameCall, Others, Outside, Starting, Res
  <1>10. ForkableInv'
    BY <1>s, <1>q, <1>e
    DEF ForkableInv, HandInv, HeldInv, StartingInv, Shapes, SameProcess, SameMarks,
        SameCall, Others, Outside, Starting, Res
  <1>11. SnapshotInv'
    BY <1>s, <1>q, <1>e
    DEF SnapshotInv, GateInv, InGate, ForkInv, ForkableInv, OpenInv, CleanInv, InsideInv,
        Inside, AloneInv, Shapes, SameProcess, SameMarks, SameCall, Others, Outside, Starting,
        Res
  <1>12. HostInv'
    BY <1>s, <1>q, <1>e
    DEF HostInv, HandInv, TableInv, SnapshotInv, UsesInv, Shapes, SameProcess, SameMarks,
        SameCall, Others, Outside, Starting, Res
  <1> QED
    BY <1>0, <1>1, WorkKeeps, <1>2, <1>3, <1>4, <1>5, <1>6, <1>7, <1>8, <1>9, <1>10, <1>11,
       <1>12

\* Entering a call of libc, up to its lock keeps the invariant.
LEMMA FormatEnterKeeps ==
    ASSUME DomainInv, NEW t \in Threads, FormatEnter(t)
    PROVE  DomainInv'
  <1>0. DomainTypes'
    BY FormatEnterTypes
  <1> USE NamesAssumption
    DEF DomainInv, DomainTypes, Processes, Domains, ThreadLocals, Locals, Counts,
        FormatEnter, logger_process_require, Goto, logger_process_is_child,
        logger_process_ready
  <1>1. Work(t)
    BY <1>0
    DEF Work, Others, NotWorking, Starting, Outside, Inside, InsideInv, PublishedInv,
        ForkInv, NoLocals, Res
  <1>2. Quiet(t)
    BY <1>0 DEF Quiet, Others, InGate, ForkInv, Starting, NoLocals, Unlocked
  <1>3. ForkInv'
    BY <1>0 DEF ForkInv, Outside, Starting, NoLocals, Res, OutsideTls, NoDomain
  <1> HIDE DEF FormatEnter, logger_process_require, Goto
  <1> QED
    BY <1>0, <1>3, <1>1, WorkKeeps, <1>2, QuietKeeps

\* The first part of the prepare handler keeps the invariant.
LEMMA ForkBeginKeeps ==
    ASSUME DomainInv, NEW t \in Threads, ForkBegin(t)
    PROVE  DomainInv'
  <1>0. DomainTypes'
    BY ForkBeginTypes
  <1>d. DomainTypes
    BY DEF DomainInv
  <1>s. Shapes /\ Shapes'
    BY <1>0, <1>d, ShapesHold
  <1> DEFINE refused == \/ logger_process_is_child \/ ~logger_process_ready
                        \/ PrepareBusy(t) \/ dom.resource_error
  <1>p. PICK from \in {"idle", "scope", "format", "lease"}, handled \in {FALSE, counts.handlers > 0} :
           /\ Goto(t, from, IF handled /\ ~refused THEN "fork_format" ELSE "forking")
           /\ loc' = [loc EXCEPT ![t].back = from, ![t].handled = handled,
                                 ![t].domain = IF refused THEN @ ELSE proc.current]
           /\ tls' = IF handled
                     THEN [tls EXCEPT ![t].fork_depth = 1, ![t].prepared = FALSE,
                                      ![t].prepare_error = refused, ![t].snapshot = {}]
                     ELSE tls
    BY Zenon DEF ForkBegin
  <1>e. /\ t \in alive /\ Others(t)
        /\ loc'[t].op = loc[t].op /\ loc'[t].res = loc[t].res
        /\ UNCHANGED <<pid, alive, proc, dom, kernel, host_open>>
        /\ counts'.handlers = counts.handlers
        /\ tls'[t].in_runtime = tls[t].in_runtime
        /\ pc[t] \in {"idle", "scope", "format", "lease"} /\ loc'[t].back = pc[t]
        /\ \/ /\ pc'[t] = "fork_format" /\ loc'[t].handled /\ ~tls'[t].prepared
              /\ logger_process_ready /\ ~logger_process_is_child
              /\ loc'[t].domain = proc.current /\ ~tls[t].in_runtime
           \/ /\ pc'[t] = "forking" /\ loc'[t].domain \in {loc[t].domain, proc.current}
              /\ ~tls'[t].prepared \/ tls'[t].prepared = tls[t].prepared
    <2>1. /\ t \in alive /\ pc[t] = from /\ \A u \in alive \ {t} : pc'[u] = pc[u]
          /\ pc'[t] = IF handled /\ ~refused THEN "fork_format" ELSE "forking"
      BY <1>d, <1>p DEF DomainTypes, Goto
    <2>2. ~refused => /\ logger_process_ready /\ ~logger_process_is_child /\ ~tls[t].in_runtime
      BY DEF PrepareBusy, logger_scope_busy
    <2>3. UNCHANGED <<pid, alive, proc, dom, kernel, host_open>> /\ counts'.handlers = counts.handlers
      BY <1>d DEF DomainTypes, Counts, ForkBegin
    <2> HIDE DEF refused
    <2>4. /\ \A u \in alive \ {t} : loc'[u] = loc[u]
          /\ loc'[t].op = loc[t].op /\ loc'[t].res = loc[t].res /\ loc'[t].back = from
          /\ loc'[t].handled = handled
          /\ loc'[t].domain = IF refused THEN loc[t].domain ELSE proc.current
      BY <1>d, <1>p DEF DomainTypes, Locals
    <2>5. /\ \A u \in alive \ {t} : tls'[u] = tls[u]
          /\ tls'[t].in_runtime = tls[t].in_runtime
          /\ handled => ~tls'[t].prepared
          /\ ~handled => tls'[t].prepared = tls[t].prepared
      <3>1. CASE handled
        <4>1. tls' = [tls EXCEPT ![t].fork_depth = 1, ![t].prepared = FALSE,
                                 ![t].prepare_error = refused, ![t].snapshot = {}]
          BY <1>p, <3>1, Zenon
        <4> QED
          BY <1>d, <3>1, <4>1 DEF DomainTypes, ThreadLocals
      <3>2. CASE ~handled
        <4>1. tls' = tls
          BY <1>p, <3>2, Zenon
        <4> QED
          BY <3>2, <4>1
      <3> QED
        BY <3>1, <3>2
    <2> QED
      BY <2>1, <2>2, <2>3, <2>4, <2>5 DEF Others
  <1> USE NamesAssumption DEF DomainInv, logger_process_is_child, logger_process_ready
  <1>1. Work(t)
    BY <1>s, <1>e
    DEF Work, NotWorking, Inside, InsideInv, PublishedInv, ForkInv, Shapes, SameProcess,
        SameMarks, SameCall, Others, Outside, Starting, Res
  <1>2. ForkInv'
    BY <1>s, <1>e
    DEF ForkInv, Shapes, SameProcess, SameMarks, SameCall, Others, Outside, Starting, Res
  <1>3. GateInv'
    BY <1>s, <1>e
    DEF GateInv, InGate, ForkInv, Shapes, SameProcess, SameMarks, SameCall, Others,
        Outside, Starting, Res
  <1>4. UsesInv'
    BY <1>s, <1>e
    DEF UsesInv, Uses, SoleInv, GateInv, InGate, ForkInv, Shapes, SameProcess, SameMarks,
        SameCall, Others, Outside, Starting, Res
  <1>5. HandInv'
    BY <1>s, <1>e
    DEF GateInv, InGate, HandInv, SoleInv, TableInv, UsesInv, Uses, Shapes, SameProcess,
        SameMarks, SameCall, Others, Outside, Starting, Res
  <1>6. CallInv'
    BY <1>s, <1>e
    DEF CallInv, InGate, UsesInv, Uses, ForkInv, Shapes, SameProcess, SameMarks, SameCall,
        Others, Outside, Starting, Res
  <1>7. SoleInv'
    BY <1>s, <1>e
    DEF SoleInv, CallInv, GateInv, InGate, UsesInv, Uses, TableInv, Shapes, SameProcess,
        SameMarks, SameCall, Others, Outside, Starting, Res
  <1>8. TableInv'
    BY <1>s, <1>e
    DEF TableInv, HandInv, UsesInv, SoleInv, HeldInv, StartingInv, Shapes, SameProcess,
        SameMarks, SameCall, Others, Outside, Starting, Res
  <1>9. OpenInv'
    BY <1>s, <1>e
    DEF OpenInv, HandInv, UsesInv, Uses, SoleInv, HeldInv, StartingInv, Shapes,
        SameProcess, SameMarks, SameCall, Others, Outside, Starting, Res
  <1>10. ForkableInv'
    BY <1>s, <1>e
    DEF ForkableInv, HandInv, HeldInv, StartingInv, Shapes, SameProcess, SameMarks,
        SameCall, Others, Outside, Starting, Res
  <1>11. SnapshotInv'
    BY <1>s, <1>e
    DEF SnapshotInv, GateInv, InGate, ForkInv, ForkableInv, OpenInv, CleanInv, InsideInv,
        Inside, AloneInv, Shapes, SameProcess, SameMarks, SameCall, Others, Outside, Starting,
        Res
  <1>12. HostInv'
    BY <1>s, <1>e
    DEF HostInv, HandInv, TableInv, SnapshotInv, UsesInv, Shapes, SameProcess, SameMarks,
        SameCall, Others, Outside, Starting, Res
  <1> QED
    BY <1>0, <1>1, WorkKeeps, <1>2, <1>3, <1>4, <1>5, <1>6, <1>7, <1>8, <1>9, <1>10, <1>11,
       <1>12

\* A fork inside a fork keeps the invariant.
LEMMA ForkNestedKeeps ==
    ASSUME DomainInv, NEW t \in Threads, ForkNested(t)
    PROVE  DomainInv'
  <1>0. DomainTypes'
    BY ForkNestedTypes
  <1> USE NamesAssumption
    DEF DomainInv, DomainTypes, Processes, Domains, ThreadLocals, Locals, Counts,
        ForkNested, Goto, logger_process_is_child, logger_process_ready
  <1>1. Work(t)
    BY <1>0
    DEF Work, Others, NotWorking, Starting, Outside, Inside, InsideInv, PublishedInv,
        ForkInv, NoLocals, Res
  <1>2. ForkInv'
    BY <1>0 DEF ForkInv, Outside, Starting, NoLocals, Res, OutsideTls, NoDomain
  <1>3. GateInv'
    BY <1>0
    DEF GateInv, InGate, ForkInv, Outside, Starting, NoLocals, Res, OutsideTls, NoDomain
  <1>4. UsesInv'
    BY <1>0
    DEF UsesInv, Uses, SoleInv, GateInv, InGate, ForkInv, Outside, Starting, NoLocals, Res,
        OutsideTls, NoDomain
  <1>5. HandInv'
    BY <1>0
    DEF GateInv, InGate, HandInv, SoleInv, TableInv, UsesInv, Uses, Outside, Starting,
        NoLocals, Res, OutsideTls, NoDomain
  <1>6. CallInv'
    BY <1>0
    DEF CallInv, InGate, UsesInv, Uses, ForkInv, Outside, Starting, NoLocals, Res,
        OutsideTls, NoDomain
  <1>7. SoleInv'
    BY <1>0
    DEF SoleInv, CallInv, GateInv, InGate, UsesInv, Uses, TableInv, Outside, Starting,
        NoLocals, Res, OutsideTls, NoDomain
  <1>8. TableInv'
    BY <1>0
    DEF TableInv, HandInv, UsesInv, SoleInv, HeldInv, StartingInv, Outside, Starting,
        NoLocals, Res, OutsideTls, NoDomain
  <1>9. OpenInv'
    BY <1>0
    DEF OpenInv, HandInv, UsesInv, Uses, SoleInv, HeldInv, StartingInv, Outside, Starting,
        NoLocals, Res, OutsideTls, NoDomain
  <1>10. ForkableInv'
    BY <1>0
    DEF ForkableInv, HandInv, HeldInv, StartingInv, Outside, Starting, NoLocals, Res,
        OutsideTls, NoDomain
  <1>11. SnapshotInv'
    BY <1>0
    DEF SnapshotInv, GateInv, InGate, ForkInv, ForkableInv, OpenInv, CleanInv, InsideInv,
        Inside, AloneInv, Outside, Starting, NoLocals, Res, OutsideTls, NoDomain
  <1>12. HostInv'
    BY <1>0
    DEF HostInv, HandInv, TableInv, SnapshotInv, UsesInv, Outside, Starting, NoLocals, Res,
        OutsideTls, NoDomain
  <1> HIDE DEF ForkNested, Goto
  <1> QED
    BY <1>0, <1>2, <1>3, <1>4, <1>5, <1>6, <1>7, <1>8, <1>9, <1>10, <1>11, <1>12, <1>1,
       WorkKeeps

\* The exchange of the ticket keeps the invariant.
LEMMA InitCasKeeps ==
    ASSUME DomainInv, NEW t \in Threads, InitCas(t)
    PROVE  DomainInv'
  <1>0. DomainTypes'
    BY InitCasTypes
  <1>d. DomainTypes
    BY DEF DomainInv
  <1>s. Shapes /\ Shapes'
    BY <1>0, <1>d, ShapesHold
  <1>e. /\ t \in alive /\ Others(t) /\ pc[t] = "cas"
        /\ pid' = pid /\ alive' = alive /\ UNCHANGED <<dom, kernel, counts, host_open>>
        /\ proc'.owner_pid = proc.owner_pid /\ proc'.forked_child = proc.forked_child
        /\ proc'.child_valid = proc.child_valid /\ proc'.current = proc.current
        /\ proc'.registered = proc.registered /\ SameMarks(t)
        /\ \/ /\ pc'[t] = "create" /\ proc.ticket = loc[t].seen
              /\ proc'.ticket = "STARTING" /\ loc'[t] = loc[t]
           \/ pc'[t] = "idle" /\ proc' = proc /\ loc'[t] = NoLocals
    BY <1>d DEF DomainTypes, Processes, ThreadLocals, InitCas, Goto, Others, SameMarks
  <1> USE NamesAssumption DEF DomainInv, logger_process_is_child, logger_process_ready
  <1>1. Quiet(t)
    BY <1>s, <1>e
    DEF Quiet, InGate, ForkInv, NoLocals, Shapes, SameProcess, SameMarks, SameCall, Others,
        Outside, Starting, Res
  <1>2. OwnerInv'
    BY <1>s, <1>e
    DEF OwnerInv, StartingInv, Shapes, SameProcess, SameMarks, SameCall, Others, Outside,
        Starting, Res
  <1>3. AloneInv'
    BY <1>s, <1>e
    DEF OwnerInv, AloneInv, Shapes, SameProcess, SameMarks, SameCall, Others, Outside,
        Starting, Res
  <1>4. CasInv'
    BY <1>s, <1>e
    DEF CasInv, AloneInv, OwnerInv, Shapes, SameProcess, SameMarks, SameCall, Others,
        Outside, Starting, Res
  <1>5. StartingInv'
    BY <1>s, <1>e
    DEF StartingInv, CasInv, Shapes, SameProcess, SameMarks, SameCall, Others, Outside,
        Starting, Res
  <1>6. TicketInv'
    BY <1>s, <1>e
    DEF TicketInv, StartingInv, OwnerInv, AloneInv, Shapes, SameProcess, SameMarks,
        SameCall, Others, Outside, Starting, Res
  <1>7. VouchedInv'
    BY <1>s, <1>e
    DEF VouchedInv, AloneInv, StartingInv, Shapes, SameProcess, SameMarks, SameCall,
        Others, Outside, Starting, Res
  <1>8. PublishedInv'
    BY <1>s, <1>e
    DEF PublishedInv, StartingInv, AloneInv, OwnerInv, CasInv, Shapes, SameProcess,
        SameMarks, SameCall, Others, Outside, Starting, Res
  <1>9. InsideInv'
    BY <1>s, <1>e
    DEF AloneInv, OwnerInv, StartingInv, CasInv, PublishedInv, InsideInv, Inside, ForkInv,
        Shapes, SameProcess, SameMarks, SameCall, Others, Outside, Starting, Res
  <1>10. HeldInv'
    BY <1>s, <1>e
    DEF OwnerInv, StartingInv, CasInv, InsideInv, Inside, HeldInv, AloneInv, Shapes,
        SameProcess, SameMarks, SameCall, Others, Outside, Starting, Res
  <1>11. CleanInv'
    BY <1>s, <1>e
    DEF OwnerInv, AloneInv, VouchedInv, CleanInv, HeldInv, SnapshotInv, Shapes,
        SameProcess, SameMarks, SameCall, Others, Outside, Starting, Res
  <1>12. ForkInv'
    BY <1>s, <1>e
    DEF ForkInv, Shapes, SameProcess, SameMarks, SameCall, Others, Outside, Starting, Res
  <1> QED
    BY <1>0, <1>1, QuietKeeps, <1>2, <1>3, <1>4, <1>5, <1>6, <1>7, <1>8, <1>9, <1>10,
       <1>11, <1>12

\* Creating a candidate domain keeps the invariant.
LEMMA InitCreateKeeps ==
    ASSUME DomainInv, NEW t \in Threads, InitCreate(t)
    PROVE  DomainInv'
  <1>0. DomainTypes'
    BY InitCreateTypes
  <1>d. DomainTypes
    BY DEF DomainInv
  <1>s. Shapes /\ Shapes'
    BY <1>0, <1>d, ShapesHold
  <1>e. /\ t \in alive /\ Others(t) /\ pc[t] = "create" /\ pc'[t] \in {"register", "failed"}
        /\ SameProcess /\ proc'.registered = proc.registered /\ counts'.handlers = counts.handlers
        /\ UNCHANGED <<dom, tls, loc, kernel, host_open>>
    BY <1>d
    DEF DomainTypes, Processes, Counts, InitCreate, Fault, Discarded, Goto, Others,
        SameProcess
  <1> USE NamesAssumption DEF DomainInv, logger_process_is_child, logger_process_ready
  <1>1. Quiet(t)
    BY <1>s, <1>e
    DEF Quiet, InGate, ForkInv, Shapes, SameProcess, SameMarks, SameCall, Others, Outside,
        Starting, Res
  <1>2. OwnerInv'
    BY <1>s, <1>e
    DEF OwnerInv, StartingInv, Shapes, SameProcess, SameMarks, SameCall, Others, Outside,
        Starting, Res
  <1>3. AloneInv'
    BY <1>s, <1>e
    DEF OwnerInv, AloneInv, Shapes, SameProcess, SameMarks, SameCall, Others, Outside,
        Starting, Res
  <1>4. CasInv'
    BY <1>s, <1>e
    DEF CasInv, AloneInv, OwnerInv, Shapes, SameProcess, SameMarks, SameCall, Others,
        Outside, Starting, Res
  <1>5. StartingInv'
    BY <1>s, <1>e
    DEF StartingInv, CasInv, Shapes, SameProcess, SameMarks, SameCall, Others, Outside,
        Starting, Res
  <1>6. TicketInv'
    BY <1>s, <1>e
    DEF TicketInv, StartingInv, OwnerInv, AloneInv, Shapes, SameProcess, SameMarks,
        SameCall, Others, Outside, Starting, Res
  <1>7. VouchedInv'
    BY <1>s, <1>e
    DEF VouchedInv, AloneInv, StartingInv, Shapes, SameProcess, SameMarks, SameCall,
        Others, Outside, Starting, Res
  <1>8. PublishedInv'
    BY <1>s, <1>e
    DEF PublishedInv, StartingInv, AloneInv, OwnerInv, CasInv, Shapes, SameProcess,
        SameMarks, SameCall, Others, Outside, Starting, Res
  <1>9. InsideInv'
    BY <1>s, <1>e
    DEF AloneInv, OwnerInv, StartingInv, CasInv, PublishedInv, InsideInv, Inside, ForkInv,
        Shapes, SameProcess, SameMarks, SameCall, Others, Outside, Starting, Res
  <1>10. HeldInv'
    BY <1>s, <1>e
    DEF OwnerInv, StartingInv, CasInv, InsideInv, Inside, HeldInv, AloneInv, Shapes,
        SameProcess, SameMarks, SameCall, Others, Outside, Starting, Res
  <1>11. CleanInv'
    BY <1>s, <1>e
    DEF OwnerInv, AloneInv, VouchedInv, CleanInv, HeldInv, SnapshotInv, Shapes,
        SameProcess, SameMarks, SameCall, Others, Outside, Starting, Res
  <1>12. ForkInv'
    BY <1>s, <1>e
    DEF ForkInv, Shapes, SameProcess, SameMarks, SameCall, Others, Outside, Starting, Res
  <1> QED
    BY <1>0, <1>1, QuietKeeps, <1>2, <1>3, <1>4, <1>5, <1>6, <1>7, <1>8, <1>9, <1>10,
       <1>11, <1>12

\* Registering the fork handlers keeps the invariant.
LEMMA InitRegisterKeeps ==
    ASSUME DomainInv, NEW t \in Threads, InitRegister(t)
    PROVE  DomainInv'
  <1>0. DomainTypes'
    BY InitRegisterTypes
  <1>d. DomainTypes
    BY DEF DomainInv
  <1>s. Shapes /\ Shapes'
    BY <1>0, <1>d, ShapesHold
  <1>e. /\ t \in alive /\ Others(t) /\ pc[t] = "register" /\ pc'[t] \in {"publish", "failed"}
        /\ SameProcess /\ UNCHANGED <<dom, tls, loc, kernel, host_open>>
        /\ \/ /\ proc'.registered /\ (proc.registered => counts'.handlers = counts.handlers)
              /\ ~proc.registered => counts'.handlers = counts.handlers + 1
           \/ proc'.registered = proc.registered /\ counts'.handlers = counts.handlers
    BY <1>d
    DEF DomainTypes, Processes, Counts, InitRegister, Fault, Discarded, Goto, Others,
        SameProcess
  <1> USE NamesAssumption DEF DomainInv, logger_process_is_child, logger_process_ready
  <1>1. Quiet(t)
    BY <1>s, <1>e
    DEF Quiet, InGate, ForkInv, Shapes, SameProcess, SameMarks, SameCall, Others, Outside,
        Starting, Res
  <1>2. OwnerInv'
    BY <1>s, <1>e
    DEF OwnerInv, StartingInv, Shapes, SameProcess, SameMarks, SameCall, Others, Outside,
        Starting, Res
  <1>3. AloneInv'
    BY <1>s, <1>e
    DEF OwnerInv, AloneInv, Shapes, SameProcess, SameMarks, SameCall, Others, Outside,
        Starting, Res
  <1>4. CasInv'
    BY <1>s, <1>e
    DEF CasInv, AloneInv, OwnerInv, Shapes, SameProcess, SameMarks, SameCall, Others,
        Outside, Starting, Res
  <1>5. StartingInv'
    BY <1>s, <1>e
    DEF StartingInv, CasInv, Shapes, SameProcess, SameMarks, SameCall, Others, Outside,
        Starting, Res
  <1>6. TicketInv'
    BY <1>s, <1>e
    DEF TicketInv, StartingInv, OwnerInv, AloneInv, Shapes, SameProcess, SameMarks,
        SameCall, Others, Outside, Starting, Res
  <1>7. VouchedInv'
    BY <1>s, <1>e
    DEF VouchedInv, AloneInv, StartingInv, Shapes, SameProcess, SameMarks, SameCall,
        Others, Outside, Starting, Res
  <1>8. PublishedInv'
    BY <1>s, <1>e
    DEF PublishedInv, StartingInv, AloneInv, OwnerInv, CasInv, Shapes, SameProcess,
        SameMarks, SameCall, Others, Outside, Starting, Res
  <1>9. InsideInv'
    BY <1>s, <1>e
    DEF AloneInv, OwnerInv, StartingInv, CasInv, PublishedInv, InsideInv, Inside, ForkInv,
        Shapes, SameProcess, SameMarks, SameCall, Others, Outside, Starting, Res
  <1>10. HeldInv'
    BY <1>s, <1>e
    DEF OwnerInv, StartingInv, CasInv, InsideInv, Inside, HeldInv, AloneInv, Shapes,
        SameProcess, SameMarks, SameCall, Others, Outside, Starting, Res
  <1>11. CleanInv'
    BY <1>s, <1>e
    DEF OwnerInv, AloneInv, VouchedInv, CleanInv, HeldInv, SnapshotInv, Shapes,
        SameProcess, SameMarks, SameCall, Others, Outside, Starting, Res
  <1>12. ForkInv'
    BY <1>s, <1>e
    DEF ForkInv, Shapes, SameProcess, SameMarks, SameCall, Others, Outside, Starting, Res
  <1> QED
    BY <1>0, <1>1, QuietKeeps, <1>2, <1>3, <1>4, <1>5, <1>6, <1>7, <1>8, <1>9, <1>10,
       <1>11, <1>12

\* Publishing the domain keeps the invariant.
LEMMA InitPublishKeeps ==
    ASSUME DomainInv, NEW t \in Threads, InitPublish(t)
    PROVE  DomainInv'
  <1>0. DomainTypes'
    BY InitPublishTypes
  <1>d. DomainTypes
    BY DEF DomainInv
  <1>s. Shapes /\ Shapes'
    BY <1>0, <1>d, ShapesHold
  <1>e. /\ t \in alive /\ Others(t) /\ pc[t] = "publish" /\ pc'[t] = "ready"
        /\ pid' = pid /\ alive' = alive /\ UNCHANGED <<loc, kernel, host_open>>
        /\ dom'.id = counts.domains + 1 /\ dom'.owned = {} /\ dom'.allocations = {}
        /\ counts'.handlers = counts.handlers /\ counts.domains + 1 # 0
        /\ proc'.owner_pid = pid /\ ~proc'.forked_child /\ proc'.current = dom'.id
        /\ proc'.ticket = proc.ticket /\ proc'.child_valid = proc.child_valid
        /\ proc'.registered = proc.registered /\ tls'[t].prepared = tls[t].prepared
    BY <1>d
    DEF DomainTypes, Processes, ThreadLocals, Domains, Counts, InitPublish, NoDomain, Goto, Others
  <1> USE NamesAssumption DEF DomainInv, logger_process_is_child, logger_process_ready
  <1>n. /\ proc.ticket = "STARTING" /\ \A u \in alive : ~Inside(u) /\ ~InGate(u)
        /\ \A u \in alive : u # t => pc[u] \notin Starting
        /\ \A r \in Res : kernel[r] \notin {"logger", "forkable"}
    BY <1>s, <1>e
    DEF StartingInv, InsideInv, Inside, InGate, HeldInv, ForkInv, Starting, Outside
  <1>1. OwnerInv'
    BY <1>s, <1>e, <1>n
    DEF OwnerInv, StartingInv, Shapes, SameProcess, SameMarks, SameCall, Others, Outside,
        Starting, Res
  <1>2. AloneInv'
    BY <1>s, <1>e, <1>n
    DEF OwnerInv, AloneInv, Shapes, SameProcess, SameMarks, SameCall, Others, Outside,
        Starting, Res
  <1>3. CasInv'
    BY <1>s, <1>e, <1>n
    DEF CasInv, AloneInv, OwnerInv, Shapes, SameProcess, SameMarks, SameCall, Others,
        Outside, Starting, Res
  <1>4. StartingInv'
    BY <1>s, <1>e, <1>n
    DEF StartingInv, CasInv, Shapes, SameProcess, SameMarks, SameCall, Others, Outside,
        Starting, Res
  <1>5. TicketInv'
    BY <1>s, <1>e, <1>n
    DEF TicketInv, StartingInv, OwnerInv, AloneInv, Shapes, SameProcess, SameMarks,
        SameCall, Others, Outside, Starting, Res
  <1>6. VouchedInv'
    BY <1>s, <1>e, <1>n
    DEF VouchedInv, AloneInv, StartingInv, Shapes, SameProcess, SameMarks, SameCall,
        Others, Outside, Starting, Res
  <1>7. PublishedInv'
    BY <1>s, <1>e, <1>n
    DEF PublishedInv, StartingInv, AloneInv, OwnerInv, CasInv, Shapes, SameProcess,
        SameMarks, SameCall, Others, Outside, Starting, Res
  <1>8. InsideInv'
    BY <1>s, <1>e, <1>n
    DEF AloneInv, OwnerInv, StartingInv, CasInv, PublishedInv, InsideInv, Inside, ForkInv,
        Shapes, SameProcess, SameMarks, SameCall, Others, Outside, Starting, Res
  <1>9. HeldInv'
    BY <1>s, <1>e, <1>n
    DEF OwnerInv, StartingInv, CasInv, InsideInv, Inside, HeldInv, AloneInv, Shapes,
        SameProcess, SameMarks, SameCall, Others, Outside, Starting, Res
  <1>10. CleanInv'
    BY <1>s, <1>e, <1>n
    DEF OwnerInv, AloneInv, VouchedInv, CleanInv, HeldInv, SnapshotInv, Shapes,
        SameProcess, SameMarks, SameCall, Others, Outside, Starting, Res
  <1>11. ForkInv'
    BY <1>s, <1>e, <1>n
    DEF ForkInv, Shapes, SameProcess, SameMarks, SameCall, Others, Outside, Starting, Res
  <1>12. GateInv'
    BY <1>s, <1>e, <1>n
    DEF GateInv, InGate, ForkInv, Shapes, SameProcess, SameMarks, SameCall, Others,
        Outside, Starting, Res
  <1>13. UsesInv'
    BY <1>s, <1>e, <1>n DEF UsesInv, Uses, Inside, InGate, Others, Outside, Starting
  <1>14. HandInv'
    BY <1>s, <1>e, <1>n
    DEF GateInv, InGate, HandInv, SoleInv, TableInv, UsesInv, Uses, Shapes, SameProcess,
        SameMarks, SameCall, Others, Outside, Starting, Res
  <1>15. CallInv'
    BY <1>s, <1>e, <1>n
    DEF CallInv, InGate, UsesInv, Uses, ForkInv, Shapes, SameProcess, SameMarks, SameCall,
        Others, Outside, Starting, Res
  <1>16. SoleInv'
    BY <1>s, <1>e, <1>n
    DEF SoleInv, CallInv, GateInv, InGate, UsesInv, Uses, TableInv, Shapes, SameProcess,
        SameMarks, SameCall, Others, Outside, Starting, Res
  <1>17. TableInv'
    BY <1>s, <1>e, <1>n
    DEF TableInv, HandInv, UsesInv, SoleInv, HeldInv, StartingInv, Shapes, SameProcess,
        SameMarks, SameCall, Others, Outside, Starting, Res
  <1>18. OpenInv'
    BY <1>s, <1>e, <1>n
    DEF OpenInv, HandInv, UsesInv, Uses, SoleInv, HeldInv, StartingInv, Shapes,
        SameProcess, SameMarks, SameCall, Others, Outside, Starting, Res
  <1>19. ForkableInv'
    BY <1>s, <1>e, <1>n
    DEF ForkableInv, HandInv, HeldInv, StartingInv, Shapes, SameProcess, SameMarks,
        SameCall, Others, Outside, Starting, Res
  <1>20. SnapshotInv'
    BY <1>s, <1>e, <1>n
    DEF SnapshotInv, GateInv, InGate, ForkInv, ForkableInv, OpenInv, CleanInv, InsideInv,
        Inside, AloneInv, Shapes, SameProcess, SameMarks, SameCall, Others, Outside, Starting,
        Res
  <1>21. HostInv'
    BY <1>s, <1>e, <1>n
    DEF HostInv, HandInv, TableInv, SnapshotInv, UsesInv, Shapes, SameProcess, SameMarks,
        SameCall, Others, Outside, Starting, Res
  <1> QED
    BY <1>0, <1>1, <1>2, <1>3, <1>4, <1>5, <1>6, <1>7, <1>8, <1>9, <1>10, <1>11, <1>12,
       <1>13, <1>14, <1>15, <1>16, <1>17, <1>18, <1>19, <1>20, <1>21

\* Storing the final ticket keeps the invariant.
LEMMA InitEndKeeps ==
    ASSUME DomainInv, NEW t \in Threads, InitEnd(t)
    PROVE  DomainInv'
  <1>0. DomainTypes'
    BY InitEndTypes
  <1>d. DomainTypes
    BY DEF DomainInv
  <1>s. Shapes /\ Shapes'
    BY <1>0, <1>d, ShapesHold
  <1>e. /\ t \in alive /\ Others(t) /\ pc'[t] = "idle"
        /\ pid' = pid /\ alive' = alive /\ UNCHANGED <<dom, kernel, counts, host_open>>
        /\ proc'.owner_pid = proc.owner_pid /\ proc'.forked_child = proc.forked_child
        /\ proc'.child_valid = proc.child_valid /\ proc'.current = proc.current
        /\ proc'.registered = proc.registered /\ SameMarks(t) /\ loc'[t] = NoLocals
        /\ \/ pc[t] = "ready" /\ proc'.ticket = "READY"
           \/ pc[t] = "failed" /\ proc'.ticket = "error"
    BY <1>d DEF DomainTypes, Processes, ThreadLocals, InitEnd, Goto, Others, SameMarks
  <1> USE NamesAssumption DEF DomainInv, logger_process_is_child, logger_process_ready
  <1>1. Quiet(t)
    BY <1>s, <1>e
    DEF Quiet, InGate, ForkInv, NoLocals, Shapes, SameProcess, SameMarks, SameCall, Others,
        Outside, Starting, Res
  <1>2. OwnerInv'
    BY <1>s, <1>e
    DEF OwnerInv, StartingInv, Shapes, SameProcess, SameMarks, SameCall, Others, Outside,
        Starting, Res
  <1>3. AloneInv'
    BY <1>s, <1>e
    DEF OwnerInv, AloneInv, Shapes, SameProcess, SameMarks, SameCall, Others, Outside,
        Starting, Res
  <1>4. CasInv'
    BY <1>s, <1>e
    DEF CasInv, AloneInv, OwnerInv, Shapes, SameProcess, SameMarks, SameCall, Others,
        Outside, Starting, Res
  <1>5. StartingInv'
    BY <1>s, <1>e
    DEF StartingInv, CasInv, Shapes, SameProcess, SameMarks, SameCall, Others, Outside,
        Starting, Res
  <1>6. TicketInv'
    BY <1>s, <1>e
    DEF TicketInv, StartingInv, OwnerInv, AloneInv, Shapes, SameProcess, SameMarks,
        SameCall, Others, Outside, Starting, Res
  <1>7. VouchedInv'
    BY <1>s, <1>e
    DEF VouchedInv, AloneInv, StartingInv, Shapes, SameProcess, SameMarks, SameCall,
        Others, Outside, Starting, Res
  <1>8. PublishedInv'
    BY <1>s, <1>e
    DEF PublishedInv, StartingInv, AloneInv, OwnerInv, CasInv, Shapes, SameProcess,
        SameMarks, SameCall, Others, Outside, Starting, Res
  <1>9. InsideInv'
    BY <1>s, <1>e
    DEF AloneInv, OwnerInv, StartingInv, CasInv, PublishedInv, InsideInv, Inside, ForkInv,
        Shapes, SameProcess, SameMarks, SameCall, Others, Outside, Starting, Res
  <1>10. HeldInv'
    BY <1>s, <1>e
    DEF OwnerInv, StartingInv, CasInv, InsideInv, Inside, HeldInv, AloneInv, Shapes,
        SameProcess, SameMarks, SameCall, Others, Outside, Starting, Res
  <1>11. CleanInv'
    BY <1>s, <1>e
    DEF OwnerInv, AloneInv, VouchedInv, CleanInv, HeldInv, SnapshotInv, Shapes,
        SameProcess, SameMarks, SameCall, Others, Outside, Starting, Res
  <1>12. ForkInv'
    BY <1>s, <1>e
    DEF ForkInv, Shapes, SameProcess, SameMarks, SameCall, Others, Outside, Starting, Res
  <1> QED
    BY <1>0, <1>1, QuietKeeps, <1>2, <1>3, <1>4, <1>5, <1>6, <1>7, <1>8, <1>9, <1>10,
       <1>11, <1>12

\* Obtaining resource_mu, or failing to keeps the invariant.
LEMMA ResourceLockKeeps ==
    ASSUME DomainInv, NEW t \in Threads, ResourceLock(t)
    PROVE  DomainInv'
  <1>0. DomainTypes'
    BY ResourceLockTypes
  <1>d. DomainTypes
    BY DEF DomainInv
  <1>s. Shapes /\ Shapes'
    BY <1>0, <1>d, ShapesHold
  <1>e. /\ t \in alive /\ Others(t) /\ pc[t] = "gate_lock" /\ SameMarks(t) /\ SameCall(t)
        /\ UNCHANGED <<pid, alive, proc, kernel, host_open>> /\ counts'.handlers = counts.handlers
        /\ dom'.id = dom.id /\ dom'.owned = dom.owned /\ dom'.allocations = dom.allocations
        /\ (dom.resource_error => dom'.resource_error)
        /\ \/ /\ pc'[t] = "gate" /\ dom.resource_mu = None /\ dom'.resource_mu = t
              /\ loc'[t] = loc[t]
           \/ /\ pc'[t] = "scope" /\ loc'[t].res = None
              /\ dom.resource_mu = None \/ dom'.resource_mu = dom.resource_mu
    BY <1>d
    DEF DomainTypes, ThreadLocals, Locals, Domains, Counts, ResourceLock, Fault, Faulty, Poisoned,
        Goto, Others, SameMarks, SameCall
  <1> USE NamesAssumption DEF DomainInv, logger_process_is_child, logger_process_ready
  <1>1. Work(t)
    BY <1>s, <1>e
    DEF Work, NotWorking, Inside, InsideInv, PublishedInv, ForkInv, Shapes, SameProcess,
        SameMarks, SameCall, Others, Outside, Starting, Res
  <1>2. ForkInv'
    BY <1>s, <1>e
    DEF ForkInv, Shapes, SameProcess, SameMarks, SameCall, Others, Outside, Starting, Res
  <1>3. GateInv'
    BY <1>s, <1>e
    DEF GateInv, InGate, ForkInv, Shapes, SameProcess, SameMarks, SameCall, Others,
        Outside, Starting, Res
  <1>4. UsesInv'
    BY <1>s, <1>e
    DEF UsesInv, Uses, SoleInv, GateInv, InGate, ForkInv, Shapes, SameProcess, SameMarks,
        SameCall, Others, Outside, Starting, Res
  <1>5. HandInv'
    BY <1>s, <1>e
    DEF GateInv, InGate, HandInv, SoleInv, TableInv, UsesInv, Uses, Shapes, SameProcess,
        SameMarks, SameCall, Others, Outside, Starting, Res
  <1>6. CallInv'
    BY <1>s, <1>e
    DEF CallInv, InGate, UsesInv, Uses, ForkInv, Shapes, SameProcess, SameMarks, SameCall,
        Others, Outside, Starting, Res
  <1>7. SoleInv'
    BY <1>s, <1>e
    DEF SoleInv, CallInv, GateInv, InGate, UsesInv, Uses, TableInv, Shapes, SameProcess,
        SameMarks, SameCall, Others, Outside, Starting, Res
  <1>8. TableInv'
    BY <1>s, <1>e
    DEF TableInv, HandInv, UsesInv, SoleInv, HeldInv, StartingInv, Shapes, SameProcess,
        SameMarks, SameCall, Others, Outside, Starting, Res
  <1>9. OpenInv'
    BY <1>s, <1>e
    DEF OpenInv, HandInv, UsesInv, Uses, SoleInv, HeldInv, StartingInv, Shapes,
        SameProcess, SameMarks, SameCall, Others, Outside, Starting, Res
  <1>10. ForkableInv'
    BY <1>s, <1>e
    DEF ForkableInv, HandInv, HeldInv, StartingInv, Shapes, SameProcess, SameMarks,
        SameCall, Others, Outside, Starting, Res
  <1>11. SnapshotInv'
    BY <1>s, <1>e
    DEF SnapshotInv, GateInv, InGate, ForkInv, ForkableInv, OpenInv, CleanInv, InsideInv,
        Inside, AloneInv, Shapes, SameProcess, SameMarks, SameCall, Others, Outside, Starting,
        Res
  <1>12. HostInv'
    BY <1>s, <1>e
    DEF HostInv, HandInv, TableInv, SnapshotInv, UsesInv, Shapes, SameProcess, SameMarks,
        SameCall, Others, Outside, Starting, Res
  <1> QED
    BY <1>0, <1>1, WorkKeeps, <1>2, <1>3, <1>4, <1>5, <1>6, <1>7, <1>8, <1>9, <1>10, <1>11,
       <1>12

\* Releasing resource_mu keeps the invariant.
LEMMA ResourceLeaveKeeps ==
    ASSUME DomainInv, NEW t \in Threads, ResourceLeave(t)
    PROVE  DomainInv'
  <1>0. DomainTypes'
    BY ResourceLeaveTypes
  <1>d. DomainTypes
    BY DEF DomainInv
  <1>s. Shapes /\ Shapes'
    BY <1>0, <1>d, ShapesHold
  <1>e. /\ t \in alive /\ Others(t) /\ pc[t] = "leave" /\ pc'[t] = "scope" /\ SameMarks(t) /\ SameCall(t)
        /\ UNCHANGED <<pid, alive, proc, kernel, host_open>> /\ counts'.handlers = counts.handlers
        /\ dom'.id = dom.id /\ dom'.owned = dom.owned /\ dom'.allocations = dom.allocations
        /\ (dom.resource_error => dom'.resource_error) /\ loc'[t].res = None
    BY <1>d
    DEF DomainTypes, ThreadLocals, Locals, Domains, Counts, ResourceLeave, Faulty, Goto, Others,
        SameMarks, SameCall
  <1> USE NamesAssumption DEF DomainInv, logger_process_is_child, logger_process_ready
  <1>1. Work(t)
    BY <1>s, <1>e
    DEF Work, NotWorking, Inside, InsideInv, PublishedInv, ForkInv, Shapes, SameProcess,
        SameMarks, SameCall, Others, Outside, Starting, Res
  <1>2. ForkInv'
    BY <1>s, <1>e
    DEF ForkInv, Shapes, SameProcess, SameMarks, SameCall, Others, Outside, Starting, Res
  <1>3. GateInv'
    BY <1>s, <1>e
    DEF GateInv, InGate, ForkInv, Shapes, SameProcess, SameMarks, SameCall, Others,
        Outside, Starting, Res
  <1>4. UsesInv'
    BY <1>s, <1>e
    DEF UsesInv, Uses, SoleInv, GateInv, InGate, ForkInv, Shapes, SameProcess, SameMarks,
        SameCall, Others, Outside, Starting, Res
  <1>5. HandInv'
    BY <1>s, <1>e
    DEF GateInv, InGate, HandInv, SoleInv, TableInv, UsesInv, Uses, Shapes, SameProcess,
        SameMarks, SameCall, Others, Outside, Starting, Res
  <1>6. CallInv'
    BY <1>s, <1>e
    DEF CallInv, InGate, UsesInv, Uses, ForkInv, Shapes, SameProcess, SameMarks, SameCall,
        Others, Outside, Starting, Res
  <1>7. SoleInv'
    BY <1>s, <1>e
    DEF SoleInv, CallInv, GateInv, InGate, UsesInv, Uses, TableInv, Shapes, SameProcess,
        SameMarks, SameCall, Others, Outside, Starting, Res
  <1>8. TableInv'
    BY <1>s, <1>e
    DEF TableInv, HandInv, UsesInv, SoleInv, HeldInv, StartingInv, Shapes, SameProcess,
        SameMarks, SameCall, Others, Outside, Starting, Res
  <1>9. OpenInv'
    BY <1>s, <1>e
    DEF OpenInv, HandInv, UsesInv, Uses, SoleInv, HeldInv, StartingInv, Shapes,
        SameProcess, SameMarks, SameCall, Others, Outside, Starting, Res
  <1>10. ForkableInv'
    BY <1>s, <1>e
    DEF ForkableInv, HandInv, HeldInv, StartingInv, Shapes, SameProcess, SameMarks,
        SameCall, Others, Outside, Starting, Res
  <1>11. SnapshotInv'
    BY <1>s, <1>e
    DEF SnapshotInv, GateInv, InGate, ForkInv, ForkableInv, OpenInv, CleanInv, InsideInv,
        Inside, AloneInv, Shapes, SameProcess, SameMarks, SameCall, Others, Outside, Starting,
        Res
  <1>12. HostInv'
    BY <1>s, <1>e
    DEF HostInv, HandInv, TableInv, SnapshotInv, UsesInv, Shapes, SameProcess, SameMarks,
        SameCall, Others, Outside, Starting, Res
  <1> QED
    BY <1>0, <1>1, WorkKeeps, <1>2, <1>3, <1>4, <1>5, <1>6, <1>7, <1>8, <1>9, <1>10, <1>11,
       <1>12

\* The system call that opens a descriptor keeps the invariant.
LEMMA OpenKeeps ==
    ASSUME DomainInv, NEW t \in Threads, Open(t)
    PROVE  DomainInv'
  <1>0. DomainTypes'
    BY OpenTypes
  <1>d. DomainTypes
    BY DEF DomainInv
  <1>s. Shapes /\ Shapes'
    BY <1>0, <1>d, ShapesHold
  <1>e. /\ t \in alive /\ Others(t) /\ pc[t] = "gate" /\ loc[t].op = "open" /\ SameCall(t)
        /\ UNCHANGED <<pid, alive, proc, dom, tls, counts, host_open>>
        /\ \/ /\ pc'[t] = "acquired" /\ loc'[t].res \in Fds /\ kernel[loc'[t].res] = "free"
              /\ \A r \in Res : kernel'[r] = IF r = loc'[t].res THEN "logger" ELSE kernel[r]
           \/ pc'[t] = "leave" /\ UNCHANGED <<kernel, loc>>
    BY <1>d DEF DomainTypes, Locals, Open, Within, Goto, Others, SameCall
  <1> USE NamesAssumption DEF DomainInv, logger_process_is_child, logger_process_ready
  <1>1. Work(t)
    BY <1>s, <1>e
    DEF Work, NotWorking, Inside, InsideInv, PublishedInv, ForkInv, Shapes, SameProcess,
        SameMarks, SameCall, Others, Outside, Starting, Res
  <1>2. ForkInv'
    BY <1>s, <1>e
    DEF ForkInv, Shapes, SameProcess, SameMarks, SameCall, Others, Outside, Starting, Res
  <1>3. GateInv'
    BY <1>s, <1>e
    DEF GateInv, InGate, ForkInv, Shapes, SameProcess, SameMarks, SameCall, Others,
        Outside, Starting, Res
  <1>4. UsesInv'
    BY <1>s, <1>e
    DEF UsesInv, Uses, SoleInv, GateInv, InGate, ForkInv, Shapes, SameProcess, SameMarks,
        SameCall, Others, Outside, Starting, Res
  <1>5. HandInv'
    BY <1>s, <1>e
    DEF GateInv, InGate, HandInv, SoleInv, TableInv, UsesInv, Uses, Shapes, SameProcess,
        SameMarks, SameCall, Others, Outside, Starting, Res
  <1>6. CallInv'
    BY <1>s, <1>e
    DEF CallInv, InGate, UsesInv, Uses, ForkInv, Shapes, SameProcess, SameMarks, SameCall,
        Others, Outside, Starting, Res
  <1>7. SoleInv'
    BY <1>s, <1>e
    DEF SoleInv, CallInv, GateInv, InGate, UsesInv, Uses, TableInv, Shapes, SameProcess,
        SameMarks, SameCall, Others, Outside, Starting, Res
  <1>8. TableInv'
    BY <1>s, <1>e
    DEF TableInv, HandInv, UsesInv, SoleInv, HeldInv, StartingInv, Shapes, SameProcess,
        SameMarks, SameCall, Others, Outside, Starting, Res
  <1>9. OpenInv'
    BY <1>s, <1>e
    DEF OpenInv, HandInv, UsesInv, Uses, SoleInv, HeldInv, StartingInv, Shapes,
        SameProcess, SameMarks, SameCall, Others, Outside, Starting, Res
  <1>10. ForkableInv'
    BY <1>s, <1>e
    DEF ForkableInv, HandInv, HeldInv, StartingInv, Shapes, SameProcess, SameMarks,
        SameCall, Others, Outside, Starting, Res
  <1>11. SnapshotInv'
    BY <1>s, <1>e
    DEF SnapshotInv, GateInv, InGate, ForkInv, ForkableInv, OpenInv, CleanInv, InsideInv,
        Inside, AloneInv, Shapes, SameProcess, SameMarks, SameCall, Others, Outside, Starting,
        Res
  <1>12. HostInv'
    BY <1>s, <1>e
    DEF HostInv, HandInv, TableInv, SnapshotInv, UsesInv, Shapes, SameProcess, SameMarks,
        SameCall, Others, Outside, Starting, Res
  <1> QED
    BY <1>0, <1>1, WorkKeeps, <1>2, <1>3, <1>4, <1>5, <1>6, <1>7, <1>8, <1>9, <1>10, <1>11,
       <1>12

\* Registering a descriptor, or closing it keeps the invariant.
LEMMA AcquiredKeeps ==
    ASSUME DomainInv, NEW t \in Threads, Acquired(t)
    PROVE  DomainInv'
  <1>0. DomainTypes'
    BY AcquiredTypes
  <1>d. DomainTypes
    BY DEF DomainInv
  <1>s. Shapes /\ Shapes'
    BY <1>0, <1>d, ShapesHold
  <1>e. /\ t \in alive /\ Others(t) /\ pc[t] = "acquired" /\ pc'[t] = "leave"
        /\ UNCHANGED <<pid, alive, proc, tls, loc, host_open>> /\ counts'.handlers = counts.handlers
        /\ dom'.id = dom.id /\ dom'.resource_mu = dom.resource_mu
        /\ (dom.resource_error => dom'.resource_error) /\ dom'.allocations = dom.allocations
        /\ \/ dom'.owned = dom.owned \cup {loc[t].res} /\ kernel' = kernel
           \/ dom'.owned = dom.owned /\ \A r \in Res : kernel'[r] = IF r = loc[t].res THEN "free" ELSE kernel[r]
    BY <1>d DEF DomainTypes, Domains, Counts, Acquired, Fault, Goto, Others
  <1> USE NamesAssumption DEF DomainInv, logger_process_is_child, logger_process_ready
  <1>r. loc[t].res \in Fds \ (Maps \cup dom.owned) /\ kernel[loc[t].res] = "logger"
    BY <1>s, <1>e DEF HandInv
  <1>1. Work(t)
    BY <1>s, <1>e, <1>r
    DEF Work, NotWorking, Inside, InsideInv, PublishedInv, ForkInv, Shapes, SameProcess,
        SameMarks, SameCall, Others, Outside, Starting, Res
  <1>2. ForkInv'
    BY <1>s, <1>e, <1>r
    DEF ForkInv, Shapes, SameProcess, SameMarks, SameCall, Others, Outside, Starting, Res
  <1>3. GateInv'
    BY <1>s, <1>e, <1>r
    DEF GateInv, InGate, ForkInv, Shapes, SameProcess, SameMarks, SameCall, Others,
        Outside, Starting, Res
  <1>4. UsesInv'
    <2>1. CASE kernel' = kernel
      BY <1>s, <1>e, <1>r, <2>1
      DEF UsesInv, Uses, SoleInv, GateInv, InGate, ForkInv, Shapes, Others, Res
    <2>2. CASE kernel' # kernel
      BY <1>s, <1>e, <1>r, <2>2
      DEF UsesInv, Uses, SoleInv, GateInv, InGate, ForkInv, Shapes, Others, Res
    <2> QED
      BY <2>1, <2>2
  <1>5. HandInv'
    BY <1>s, <1>e, <1>r
    DEF GateInv, InGate, HandInv, SoleInv, TableInv, UsesInv, Uses, Shapes, SameProcess,
        SameMarks, SameCall, Others, Outside, Starting, Res
  <1>6. CallInv'
    BY <1>s, <1>e, <1>r
    DEF CallInv, InGate, UsesInv, Uses, ForkInv, Shapes, SameProcess, SameMarks, SameCall,
        Others, Outside, Starting, Res
  <1>7. SoleInv'
    BY <1>s, <1>e, <1>r
    DEF SoleInv, CallInv, GateInv, InGate, UsesInv, Uses, TableInv, Shapes, SameProcess,
        SameMarks, SameCall, Others, Outside, Starting, Res
  <1>8. TableInv'
    <2>1. CASE kernel' = kernel
      BY <1>s, <1>e, <1>r, <2>1
      DEF TableInv, HandInv, UsesInv, SoleInv, HeldInv, StartingInv, Shapes, Others, Res
    <2>2. CASE kernel' # kernel
      BY <1>s, <1>e, <1>r, <2>2
      DEF TableInv, HandInv, UsesInv, SoleInv, HeldInv, StartingInv, Shapes, Others, Res
    <2> QED
      BY <2>1, <2>2
  <1>9. OpenInv'
    <2>1. CASE kernel' = kernel
      BY <1>s, <1>e, <1>r, <2>1
      DEF OpenInv, HandInv, UsesInv, Uses, SoleInv, HeldInv, StartingInv, Shapes, Others,
          Res
    <2>2. CASE kernel' # kernel
      BY <1>s, <1>e, <1>r, <2>2
      DEF OpenInv, HandInv, UsesInv, Uses, SoleInv, HeldInv, StartingInv, Shapes, Others,
          Res
    <2> QED
      BY <2>1, <2>2
  <1>10. ForkableInv'
    BY <1>s, <1>e, <1>r
    DEF ForkableInv, HandInv, HeldInv, StartingInv, Shapes, SameProcess, SameMarks,
        SameCall, Others, Outside, Starting, Res
  <1>11. SnapshotInv'
    BY <1>s, <1>e, <1>r
    DEF SnapshotInv, GateInv, InGate, ForkInv, ForkableInv, OpenInv, CleanInv, InsideInv,
        Inside, AloneInv, Shapes, SameProcess, SameMarks, SameCall, Others, Outside, Starting,
        Res
  <1>12. HostInv'
    BY <1>s, <1>e, <1>r
    DEF HostInv, HandInv, TableInv, SnapshotInv, UsesInv, Shapes, SameProcess, SameMarks,
        SameCall, Others, Outside, Starting, Res
  <1> QED
    BY <1>0, <1>1, WorkKeeps, <1>2, <1>3, <1>4, <1>5, <1>6, <1>7, <1>8, <1>9, <1>10, <1>11,
       <1>12

\* Turning a descriptor into a directory lease keeps the invariant.
LEMMA FdopendirKeeps ==
    ASSUME DomainInv, NEW t \in Threads, Fdopendir(t)
    PROVE  DomainInv'
  <1>0. DomainTypes'
    BY FdopendirTypes
  <1>d. DomainTypes
    BY DEF DomainInv
  <1>s. Shapes /\ Shapes'
    BY <1>0, <1>d, ShapesHold
  <1>e. /\ t \in alive /\ Others(t) /\ pc[t] = "gate" /\ loc[t].op = "fdopendir"
        /\ pc'[t] \in {"lease", "leave"}
        /\ UNCHANGED <<pid, alive, proc, dom, tls, loc, kernel, counts, host_open>>
    BY <1>d DEF DomainTypes, Fdopendir, Within, Goto, Others
  <1> USE NamesAssumption DEF DomainInv, logger_process_is_child, logger_process_ready
  <1>1. Work(t)
    BY <1>s, <1>e
    DEF Work, NotWorking, Inside, InsideInv, PublishedInv, ForkInv, Shapes, SameProcess,
        SameMarks, SameCall, Others, Outside, Starting, Res
  <1>2. ForkInv'
    BY <1>s, <1>e
    DEF ForkInv, Shapes, SameProcess, SameMarks, SameCall, Others, Outside, Starting, Res
  <1>3. GateInv'
    BY <1>s, <1>e
    DEF GateInv, InGate, ForkInv, Shapes, SameProcess, SameMarks, SameCall, Others,
        Outside, Starting, Res
  <1>4. UsesInv'
    BY <1>s, <1>e
    DEF UsesInv, Uses, SoleInv, GateInv, InGate, ForkInv, Shapes, SameProcess, SameMarks,
        SameCall, Others, Outside, Starting, Res
  <1>5. HandInv'
    BY <1>s, <1>e
    DEF GateInv, InGate, HandInv, SoleInv, TableInv, UsesInv, Uses, Shapes, SameProcess,
        SameMarks, SameCall, Others, Outside, Starting, Res
  <1>6. CallInv'
    BY <1>s, <1>e
    DEF CallInv, InGate, UsesInv, Uses, ForkInv, Shapes, SameProcess, SameMarks, SameCall,
        Others, Outside, Starting, Res
  <1>7. SoleInv'
    BY <1>s, <1>e
    DEF SoleInv, CallInv, GateInv, InGate, UsesInv, Uses, TableInv, Shapes, SameProcess,
        SameMarks, SameCall, Others, Outside, Starting, Res
  <1>8. TableInv'
    BY <1>s, <1>e
    DEF TableInv, HandInv, UsesInv, SoleInv, HeldInv, StartingInv, Shapes, SameProcess,
        SameMarks, SameCall, Others, Outside, Starting, Res
  <1>9. OpenInv'
    BY <1>s, <1>e
    DEF OpenInv, HandInv, UsesInv, Uses, SoleInv, HeldInv, StartingInv, Shapes,
        SameProcess, SameMarks, SameCall, Others, Outside, Starting, Res
  <1>10. ForkableInv'
    BY <1>s, <1>e
    DEF ForkableInv, HandInv, HeldInv, StartingInv, Shapes, SameProcess, SameMarks,
        SameCall, Others, Outside, Starting, Res
  <1>11. SnapshotInv'
    BY <1>s, <1>e
    DEF SnapshotInv, GateInv, InGate, ForkInv, ForkableInv, OpenInv, CleanInv, InsideInv,
        Inside, AloneInv, Shapes, SameProcess, SameMarks, SameCall, Others, Outside, Starting,
        Res
  <1>12. HostInv'
    BY <1>s, <1>e
    DEF HostInv, HandInv, TableInv, SnapshotInv, UsesInv, Shapes, SameProcess, SameMarks,
        SameCall, Others, Outside, Starting, Res
  <1> QED
    BY <1>0, <1>1, WorkKeeps, <1>2, <1>3, <1>4, <1>5, <1>6, <1>7, <1>8, <1>9, <1>10, <1>11,
       <1>12

\* Taking a descriptor off the table keeps the invariant.
LEMMA UnregisterKeeps ==
    ASSUME DomainInv, NEW t \in Threads, Unregister(t)
    PROVE  DomainInv'
  <1>0. DomainTypes'
    BY UnregisterTypes
  <1>d. DomainTypes
    BY DEF DomainInv
  <1>s. Shapes /\ Shapes'
    BY <1>0, <1>d, ShapesHold
  <1>e. /\ t \in alive /\ Others(t) /\ pc'[t] = "closing"
        /\ pc[t] = "lease" \/ (pc[t] = "gate" /\ loc[t].op = "close")
        /\ UNCHANGED <<pid, alive, proc, tls, loc, kernel, counts, host_open>>
        /\ dom'.id = dom.id /\ dom'.resource_mu = dom.resource_mu
        /\ dom'.resource_error = dom.resource_error
        /\ dom'.allocations = dom.allocations /\ dom'.owned = dom.owned \ {loc[t].res}
    BY <1>d DEF DomainTypes, Domains, Unregister, Within, Goto, Others
  <1> USE NamesAssumption DEF DomainInv, logger_process_is_child, logger_process_ready
  <1>1. Work(t)
    BY <1>s, <1>e
    DEF Work, NotWorking, Inside, InsideInv, PublishedInv, ForkInv, Shapes, SameProcess,
        SameMarks, SameCall, Others, Outside, Starting, Res
  <1>2. ForkInv'
    BY <1>s, <1>e
    DEF ForkInv, Shapes, SameProcess, SameMarks, SameCall, Others, Outside, Starting, Res
  <1>3. GateInv'
    BY <1>s, <1>e
    DEF GateInv, InGate, ForkInv, Shapes, SameProcess, SameMarks, SameCall, Others,
        Outside, Starting, Res
  <1>4. UsesInv'
    BY <1>s, <1>e
    DEF UsesInv, Uses, SoleInv, GateInv, InGate, ForkInv, Shapes, SameProcess, SameMarks,
        SameCall, Others, Outside, Starting, Res
  <1>5. HandInv'
    BY <1>s, <1>e
    DEF GateInv, InGate, HandInv, SoleInv, TableInv, UsesInv, Uses, Shapes, SameProcess,
        SameMarks, SameCall, Others, Outside, Starting, Res
  <1>6. CallInv'
    BY <1>s, <1>e
    DEF CallInv, InGate, UsesInv, Uses, ForkInv, Shapes, SameProcess, SameMarks, SameCall,
        Others, Outside, Starting, Res
  <1>7. SoleInv'
    BY <1>s, <1>e
    DEF SoleInv, CallInv, GateInv, InGate, UsesInv, Uses, TableInv, Shapes, SameProcess,
        SameMarks, SameCall, Others, Outside, Starting, Res
  <1>8. TableInv'
    BY <1>s, <1>e
    DEF TableInv, HandInv, UsesInv, SoleInv, HeldInv, StartingInv, Shapes, SameProcess,
        SameMarks, SameCall, Others, Outside, Starting, Res
  <1>9. OpenInv'
    BY <1>s, <1>e
    DEF OpenInv, HandInv, UsesInv, Uses, SoleInv, HeldInv, StartingInv, Shapes,
        SameProcess, SameMarks, SameCall, Others, Outside, Starting, Res
  <1>10. ForkableInv'
    BY <1>s, <1>e
    DEF ForkableInv, HandInv, HeldInv, StartingInv, Shapes, SameProcess, SameMarks,
        SameCall, Others, Outside, Starting, Res
  <1>11. SnapshotInv'
    BY <1>s, <1>e
    DEF SnapshotInv, GateInv, InGate, ForkInv, ForkableInv, OpenInv, CleanInv, InsideInv,
        Inside, AloneInv, Shapes, SameProcess, SameMarks, SameCall, Others, Outside, Starting,
        Res
  <1>12. HostInv'
    BY <1>s, <1>e
    DEF HostInv, HandInv, TableInv, SnapshotInv, UsesInv, Shapes, SameProcess, SameMarks,
        SameCall, Others, Outside, Starting, Res
  <1> QED
    BY <1>0, <1>1, WorkKeeps, <1>2, <1>3, <1>4, <1>5, <1>6, <1>7, <1>8, <1>9, <1>10, <1>11,
       <1>12

\* Closing a descriptor keeps the invariant.
LEMMA CloseFdKeeps ==
    ASSUME DomainInv, NEW t \in Threads, CloseFd(t)
    PROVE  DomainInv'
  <1>0. DomainTypes'
    BY CloseFdTypes
  <1>d. DomainTypes
    BY DEF DomainInv
  <1>s. Shapes /\ Shapes'
    BY <1>0, <1>d, ShapesHold
  <1>e. /\ t \in alive /\ Others(t) /\ pc[t] = "closing" /\ pc'[t] = "leave"
        /\ UNCHANGED <<pid, alive, proc, tls, loc, host_open>> /\ counts'.handlers = counts.handlers
        /\ dom'.id = dom.id /\ dom'.resource_mu = dom.resource_mu
        /\ (dom.resource_error => dom'.resource_error)
        /\ dom'.allocations = dom.allocations /\ dom'.owned = dom.owned
        /\ \A r \in Res : kernel'[r] = IF r = loc[t].res THEN "free" ELSE kernel[r]
    BY <1>d DEF DomainTypes, Domains, Counts, CloseFd, Fault, Poisoned, Goto, Others
  <1> USE NamesAssumption DEF DomainInv, logger_process_is_child, logger_process_ready
  <1>1. Work(t)
    BY <1>s, <1>e
    DEF Work, NotWorking, Inside, InsideInv, PublishedInv, ForkInv, Shapes, SameProcess,
        SameMarks, SameCall, Others, Outside, Starting, Res
  <1>2. ForkInv'
    BY <1>s, <1>e
    DEF ForkInv, Shapes, SameProcess, SameMarks, SameCall, Others, Outside, Starting, Res
  <1>3. GateInv'
    BY <1>s, <1>e
    DEF GateInv, InGate, ForkInv, Shapes, SameProcess, SameMarks, SameCall, Others,
        Outside, Starting, Res
  <1>4. UsesInv'
    BY <1>s, <1>e
    DEF UsesInv, Uses, SoleInv, GateInv, InGate, ForkInv, Shapes, SameProcess, SameMarks,
        SameCall, Others, Outside, Starting, Res
  <1>5. HandInv'
    BY <1>s, <1>e
    DEF GateInv, InGate, HandInv, SoleInv, TableInv, UsesInv, Uses, Shapes, SameProcess,
        SameMarks, SameCall, Others, Outside, Starting, Res
  <1>6. CallInv'
    BY <1>s, <1>e
    DEF CallInv, InGate, UsesInv, Uses, ForkInv, Shapes, SameProcess, SameMarks, SameCall,
        Others, Outside, Starting, Res
  <1>7. SoleInv'
    BY <1>s, <1>e
    DEF SoleInv, CallInv, GateInv, InGate, UsesInv, Uses, TableInv, Shapes, SameProcess,
        SameMarks, SameCall, Others, Outside, Starting, Res
  <1>8. TableInv'
    BY <1>s, <1>e
    DEF TableInv, HandInv, UsesInv, SoleInv, HeldInv, StartingInv, Shapes, SameProcess,
        SameMarks, SameCall, Others, Outside, Starting, Res
  <1>9. OpenInv'
    BY <1>s, <1>e
    DEF OpenInv, HandInv, UsesInv, Uses, SoleInv, HeldInv, StartingInv, Shapes,
        SameProcess, SameMarks, SameCall, Others, Outside, Starting, Res
  <1>10. ForkableInv'
    BY <1>s, <1>e
    DEF ForkableInv, HandInv, HeldInv, StartingInv, Shapes, SameProcess, SameMarks,
        SameCall, Others, Outside, Starting, Res
  <1>11. SnapshotInv'
    BY <1>s, <1>e
    DEF SnapshotInv, GateInv, InGate, ForkInv, ForkableInv, OpenInv, CleanInv, InsideInv,
        Inside, AloneInv, Shapes, SameProcess, SameMarks, SameCall, Others, Outside, Starting,
        Res
  <1>12. HostInv'
    BY <1>s, <1>e
    DEF HostInv, HandInv, TableInv, SnapshotInv, UsesInv, Shapes, SameProcess, SameMarks,
        SameCall, Others, Outside, Starting, Res
  <1> QED
    BY <1>0, <1>1, WorkKeeps, <1>2, <1>3, <1>4, <1>5, <1>6, <1>7, <1>8, <1>9, <1>10, <1>11,
       <1>12

\* Mapping memory keeps the invariant.
LEMMA MmapKeeps ==
    ASSUME DomainInv, NEW t \in Threads, Mmap(t)
    PROVE  DomainInv'
  <1>0. DomainTypes'
    BY MmapTypes
  <1>d. DomainTypes
    BY DEF DomainInv
  <1>s. Shapes /\ Shapes'
    BY <1>0, <1>d, ShapesHold
  <1>e. /\ t \in alive /\ Others(t) /\ pc[t] = "gate" /\ loc[t].op = "mmap" /\ SameCall(t)
        /\ UNCHANGED <<pid, alive, proc, dom, tls, counts, host_open>>
        /\ \/ /\ pc'[t] = "madvise" /\ loc'[t].res \in Maps /\ kernel[loc'[t].res] = "free"
              /\ \A r \in Res : kernel'[r] = IF r = loc'[t].res THEN "forkable" ELSE kernel[r]
           \/ pc'[t] = "leave" /\ UNCHANGED <<kernel, loc>>
    BY <1>d DEF DomainTypes, Locals, Mmap, Within, Goto, Others, SameCall
  <1> USE NamesAssumption DEF DomainInv, logger_process_is_child, logger_process_ready
  <1>1. Work(t)
    BY <1>s, <1>e
    DEF Work, NotWorking, Inside, InsideInv, PublishedInv, ForkInv, Shapes, SameProcess,
        SameMarks, SameCall, Others, Outside, Starting, Res
  <1>2. ForkInv'
    BY <1>s, <1>e
    DEF ForkInv, Shapes, SameProcess, SameMarks, SameCall, Others, Outside, Starting, Res
  <1>3. GateInv'
    BY <1>s, <1>e
    DEF GateInv, InGate, ForkInv, Shapes, SameProcess, SameMarks, SameCall, Others,
        Outside, Starting, Res
  <1>4. UsesInv'
    BY <1>s, <1>e
    DEF UsesInv, Uses, SoleInv, GateInv, InGate, ForkInv, Shapes, SameProcess, SameMarks,
        SameCall, Others, Outside, Starting, Res
  <1>5. HandInv'
    BY <1>s, <1>e
    DEF GateInv, InGate, HandInv, SoleInv, TableInv, UsesInv, Uses, Shapes, SameProcess,
        SameMarks, SameCall, Others, Outside, Starting, Res
  <1>6. CallInv'
    BY <1>s, <1>e
    DEF CallInv, InGate, UsesInv, Uses, ForkInv, Shapes, SameProcess, SameMarks, SameCall,
        Others, Outside, Starting, Res
  <1>7. SoleInv'
    BY <1>s, <1>e
    DEF SoleInv, CallInv, GateInv, InGate, UsesInv, Uses, TableInv, Shapes, SameProcess,
        SameMarks, SameCall, Others, Outside, Starting, Res
  <1>8. TableInv'
    BY <1>s, <1>e
    DEF TableInv, HandInv, UsesInv, SoleInv, HeldInv, StartingInv, Shapes, SameProcess,
        SameMarks, SameCall, Others, Outside, Starting, Res
  <1>9. OpenInv'
    BY <1>s, <1>e
    DEF OpenInv, HandInv, UsesInv, Uses, SoleInv, HeldInv, StartingInv, Shapes,
        SameProcess, SameMarks, SameCall, Others, Outside, Starting, Res
  <1>10. ForkableInv'
    BY <1>s, <1>e
    DEF ForkableInv, HandInv, HeldInv, StartingInv, Shapes, SameProcess, SameMarks,
        SameCall, Others, Outside, Starting, Res
  <1>11. SnapshotInv'
    BY <1>s, <1>e
    DEF SnapshotInv, GateInv, InGate, ForkInv, ForkableInv, OpenInv, CleanInv, InsideInv,
        Inside, AloneInv, Shapes, SameProcess, SameMarks, SameCall, Others, Outside, Starting,
        Res
  <1>12. HostInv'
    BY <1>s, <1>e
    DEF HostInv, HandInv, TableInv, SnapshotInv, UsesInv, Shapes, SameProcess, SameMarks,
        SameCall, Others, Outside, Starting, Res
  <1> QED
    BY <1>0, <1>1, WorkKeeps, <1>2, <1>3, <1>4, <1>5, <1>6, <1>7, <1>8, <1>9, <1>10, <1>11,
       <1>12

\* Excluding a mapping from fork and linking it keeps the invariant.
LEMMA MadviseKeeps ==
    ASSUME DomainInv, NEW t \in Threads, Madvise(t)
    PROVE  DomainInv'
  <1>0. DomainTypes'
    BY MadviseTypes
  <1>d. DomainTypes
    BY DEF DomainInv
  <1>s. Shapes /\ Shapes'
    BY <1>0, <1>d, ShapesHold
  <1>e. /\ t \in alive /\ Others(t) /\ pc[t] = "madvise" /\ pc'[t] = "leave"
        /\ UNCHANGED <<pid, alive, proc, tls, loc, host_open>> /\ counts'.handlers = counts.handlers
        /\ dom'.id = dom.id /\ dom'.resource_mu = dom.resource_mu
        /\ (dom.resource_error => dom'.resource_error) /\ dom'.owned = dom.owned
        /\ \/ /\ dom'.allocations = dom.allocations \cup {loc[t].res}
              /\ \A r \in Res : kernel'[r] = IF r = loc[t].res THEN "logger" ELSE kernel[r]
           \/ /\ dom'.allocations = dom.allocations
              /\ \A r \in Res : kernel'[r] = IF r = loc[t].res THEN "free" ELSE kernel[r]
           \/ /\ dom'.allocations = dom.allocations \cup {loc[t].res} /\ dom'.resource_error
              /\ kernel' = kernel
    BY <1>d DEF DomainTypes, Domains, Counts, Madvise, Fault, Poisoned, Goto, Others
  <1> USE NamesAssumption DEF DomainInv, logger_process_is_child, logger_process_ready
  <1>r. loc[t].res \in Maps \ Fds
    BY <1>s, <1>e DEF HandInv
  <1>1. Work(t)
    BY <1>s, <1>e, <1>r
    DEF Work, NotWorking, Inside, InsideInv, PublishedInv, ForkInv, Shapes, SameProcess,
        SameMarks, SameCall, Others, Outside, Starting, Res
  <1>2. ForkInv'
    BY <1>s, <1>e, <1>r
    DEF ForkInv, Shapes, SameProcess, SameMarks, SameCall, Others, Outside, Starting, Res
  <1>3. GateInv'
    BY <1>s, <1>e, <1>r
    DEF GateInv, InGate, ForkInv, Shapes, SameProcess, SameMarks, SameCall, Others,
        Outside, Starting, Res
  <1>4. UsesInv'
    <2>1. CASE kernel' = kernel
      BY <1>s, <1>e, <1>r, <2>1
      DEF UsesInv, Uses, SoleInv, GateInv, InGate, ForkInv, Shapes, Others, Res
    <2>2. CASE kernel' # kernel
      BY <1>s, <1>e, <1>r, <2>2
      DEF UsesInv, Uses, SoleInv, GateInv, InGate, ForkInv, Shapes, Others, Res
    <2> QED
      BY <2>1, <2>2
  <1>5. HandInv'
    BY <1>s, <1>e, <1>r
    DEF GateInv, InGate, HandInv, SoleInv, TableInv, UsesInv, Uses, Shapes, SameProcess,
        SameMarks, SameCall, Others, Outside, Starting, Res
  <1>6. CallInv'
    BY <1>s, <1>e, <1>r
    DEF CallInv, InGate, UsesInv, Uses, ForkInv, Shapes, SameProcess, SameMarks, SameCall,
        Others, Outside, Starting, Res
  <1>7. SoleInv'
    BY <1>s, <1>e, <1>r
    DEF SoleInv, CallInv, GateInv, InGate, UsesInv, Uses, TableInv, Shapes, SameProcess,
        SameMarks, SameCall, Others, Outside, Starting, Res
  <1>8. TableInv'
    <2>1. CASE kernel' = kernel
      BY <1>s, <1>e, <1>r, <2>1
      DEF TableInv, HandInv, UsesInv, SoleInv, HeldInv, StartingInv, Shapes, Others, Res
    <2>2. CASE kernel' # kernel
      BY <1>s, <1>e, <1>r, <2>2
      DEF TableInv, HandInv, UsesInv, SoleInv, HeldInv, StartingInv, Shapes, Others, Res
    <2> QED
      BY <2>1, <2>2
  <1>9. OpenInv'
    <2>1. CASE kernel' = kernel
      BY <1>s, <1>e, <1>r, <2>1
      DEF OpenInv, HandInv, UsesInv, Uses, SoleInv, HeldInv, StartingInv, Shapes, Others,
          Res
    <2>2. CASE kernel' # kernel
      BY <1>s, <1>e, <1>r, <2>2
      DEF OpenInv, HandInv, UsesInv, Uses, SoleInv, HeldInv, StartingInv, Shapes, Others,
          Res
    <2> QED
      BY <2>1, <2>2
  <1>10. ForkableInv'
    BY <1>s, <1>e, <1>r
    DEF ForkableInv, HandInv, HeldInv, StartingInv, Shapes, SameProcess, SameMarks,
        SameCall, Others, Outside, Starting, Res
  <1>11. SnapshotInv'
    BY <1>s, <1>e, <1>r
    DEF SnapshotInv, GateInv, InGate, ForkInv, ForkableInv, OpenInv, CleanInv, InsideInv,
        Inside, AloneInv, Shapes, SameProcess, SameMarks, SameCall, Others, Outside, Starting,
        Res
  <1>12. HostInv'
    BY <1>s, <1>e, <1>r
    DEF HostInv, HandInv, TableInv, SnapshotInv, UsesInv, Shapes, SameProcess, SameMarks,
        SameCall, Others, Outside, Starting, Res
  <1> QED
    BY <1>0, <1>1, WorkKeeps, <1>2, <1>3, <1>4, <1>5, <1>6, <1>7, <1>8, <1>9, <1>10, <1>11,
       <1>12

\* Giving a mapping back keeps the invariant.
LEMMA FreeKeeps ==
    ASSUME DomainInv, NEW t \in Threads, Free(t)
    PROVE  DomainInv'
  <1>0. DomainTypes'
    BY FreeTypes
  <1>d. DomainTypes
    BY DEF DomainInv
  <1>s. Shapes /\ Shapes'
    BY <1>0, <1>d, ShapesHold
  <1>e. /\ t \in alive /\ Others(t) /\ pc[t] = "gate" /\ loc[t].op = "free" /\ pc'[t] = "leave"
        /\ UNCHANGED <<pid, alive, proc, tls, loc, host_open>> /\ counts'.handlers = counts.handlers
        /\ dom'.id = dom.id /\ dom'.resource_mu = dom.resource_mu
        /\ (dom.resource_error => dom'.resource_error) /\ dom'.owned = dom.owned
        /\ \/ /\ dom'.allocations = dom.allocations \ {loc[t].res}
              /\ \A r \in Res : kernel'[r] = IF r = loc[t].res THEN "free" ELSE kernel[r]
           \/ dom'.allocations = dom.allocations /\ kernel' = kernel
    BY <1>d DEF DomainTypes, Domains, Counts, Free, Fault, Poisoned, Within, Goto, Others
  <1> USE NamesAssumption DEF DomainInv, logger_process_is_child, logger_process_ready
  <1>r. loc[t].res \in dom.allocations /\ loc[t].res \in Maps \ Fds
    BY <1>s, <1>e DEF UsesInv, Shapes
  <1>1. Work(t)
    BY <1>s, <1>e, <1>r
    DEF Work, NotWorking, Inside, InsideInv, PublishedInv, ForkInv, Shapes, SameProcess,
        SameMarks, SameCall, Others, Outside, Starting, Res
  <1>2. ForkInv'
    BY <1>s, <1>e, <1>r
    DEF ForkInv, Shapes, SameProcess, SameMarks, SameCall, Others, Outside, Starting, Res
  <1>3. GateInv'
    BY <1>s, <1>e, <1>r
    DEF GateInv, InGate, ForkInv, Shapes, SameProcess, SameMarks, SameCall, Others,
        Outside, Starting, Res
  <1>4. UsesInv'
    <2>1. CASE kernel' = kernel
      BY <1>s, <1>e, <1>r, <2>1
      DEF UsesInv, Uses, SoleInv, GateInv, InGate, ForkInv, Shapes, Others, Res
    <2>2. CASE kernel' # kernel
      BY <1>s, <1>e, <1>r, <2>2
      DEF UsesInv, Uses, SoleInv, GateInv, InGate, ForkInv, Shapes, Others, Res
    <2> QED
      BY <2>1, <2>2
  <1>5. HandInv'
    BY <1>s, <1>e, <1>r
    DEF GateInv, InGate, HandInv, SoleInv, TableInv, UsesInv, Uses, Shapes, SameProcess,
        SameMarks, SameCall, Others, Outside, Starting, Res
  <1>6. CallInv'
    BY <1>s, <1>e, <1>r
    DEF CallInv, InGate, UsesInv, Uses, ForkInv, Shapes, SameProcess, SameMarks, SameCall,
        Others, Outside, Starting, Res
  <1>7. SoleInv'
    BY <1>s, <1>e, <1>r
    DEF SoleInv, CallInv, GateInv, InGate, UsesInv, Uses, TableInv, Shapes, SameProcess,
        SameMarks, SameCall, Others, Outside, Starting, Res
  <1>8. TableInv'
    <2>1. CASE kernel' = kernel
      BY <1>s, <1>e, <1>r, <2>1
      DEF TableInv, HandInv, UsesInv, SoleInv, HeldInv, StartingInv, Shapes, Others, Res
    <2>2. CASE kernel' # kernel
      BY <1>s, <1>e, <1>r, <2>2
      DEF TableInv, HandInv, UsesInv, SoleInv, HeldInv, StartingInv, Shapes, Others, Res
    <2> QED
      BY <2>1, <2>2
  <1>9. OpenInv'
    <2>1. CASE kernel' = kernel
      BY <1>s, <1>e, <1>r, <2>1
      DEF OpenInv, HandInv, UsesInv, Uses, SoleInv, HeldInv, StartingInv, Shapes, Others,
          Res
    <2>2. CASE kernel' # kernel
      BY <1>s, <1>e, <1>r, <2>2
      DEF OpenInv, HandInv, UsesInv, Uses, SoleInv, HeldInv, StartingInv, Shapes, Others,
          Res
    <2> QED
      BY <2>1, <2>2
  <1>10. ForkableInv'
    BY <1>s, <1>e, <1>r
    DEF ForkableInv, HandInv, HeldInv, StartingInv, Shapes, SameProcess, SameMarks,
        SameCall, Others, Outside, Starting, Res
  <1>11. SnapshotInv'
    BY <1>s, <1>e, <1>r
    DEF SnapshotInv, GateInv, InGate, ForkInv, ForkableInv, OpenInv, CleanInv, InsideInv,
        Inside, AloneInv, Shapes, SameProcess, SameMarks, SameCall, Others, Outside, Starting,
        Res
  <1>12. HostInv'
    BY <1>s, <1>e, <1>r
    DEF HostInv, HandInv, TableInv, SnapshotInv, UsesInv, Shapes, SameProcess, SameMarks,
        SameCall, Others, Outside, Starting, Res
  <1> QED
    BY <1>0, <1>1, WorkKeeps, <1>2, <1>3, <1>4, <1>5, <1>6, <1>7, <1>8, <1>9, <1>10, <1>11,
       <1>12

\* Obtaining format_mu, or failing to keeps the invariant.
LEMMA FormatLockKeeps ==
    ASSUME DomainInv, NEW t \in Threads, FormatLock(t)
    PROVE  DomainInv'
  <1>0. DomainTypes'
    BY FormatLockTypes
  <1> USE NamesAssumption
    DEF DomainInv, DomainTypes, Processes, Domains, ThreadLocals, Locals, Counts,
        FormatLock, FormatAcquire, Fault, Faulty, Unlocked, Goto, logger_process_is_child,
        logger_process_ready
  <1>1. Work(t)
    BY <1>0
    DEF Work, Others, NotWorking, Starting, Outside, Inside, InsideInv, PublishedInv,
        ForkInv, NoLocals, Res
  <1>2. Quiet(t)
    BY <1>0 DEF Quiet, Others, InGate, ForkInv, Starting, NoLocals, Unlocked
  <1>3. ForkInv'
    BY <1>0 DEF ForkInv, Outside, Starting, NoLocals, Res, OutsideTls, NoDomain
  <1> HIDE DEF FormatLock, FormatAcquire, Fault, Faulty, Unlocked, Goto
  <1> QED
    BY <1>0, <1>3, <1>1, WorkKeeps, <1>2, QuietKeeps

\* Releasing format_mu keeps the invariant.
LEMMA FormatEndKeeps ==
    ASSUME DomainInv, NEW t \in Threads, FormatEnd(t)
    PROVE  DomainInv'
  <1>0. DomainTypes'
    BY FormatEndTypes
  <1>d. DomainTypes
    BY DEF DomainInv
  <1>s. Shapes /\ Shapes'
    BY <1>0, <1>d, ShapesHold
  <1>e. /\ t \in alive /\ Others(t) /\ pc[t] = "format" /\ pc'[t] = "scope" /\ SameMarks(t)
        /\ UNCHANGED <<pid, alive, proc, loc, kernel, host_open>>
        /\ counts'.handlers = counts.handlers
        /\ dom'.id = dom.id /\ dom'.owned = dom.owned /\ dom'.allocations = dom.allocations
        /\ dom'.resource_mu = dom.resource_mu /\ (dom.resource_error => dom'.resource_error)
    BY <1>d
    DEF DomainTypes, ThreadLocals, Domains, Counts, FormatEnd, Faulty, Goto, Others, SameMarks
  <1> USE NamesAssumption DEF DomainInv, logger_process_is_child, logger_process_ready
  <1>1. Work(t)
    BY <1>s, <1>e
    DEF Work, NotWorking, Inside, InsideInv, PublishedInv, ForkInv, Shapes, SameProcess,
        SameMarks, SameCall, Others, Outside, Starting, Res
  <1>2. Quiet(t)
    BY <1>s, <1>e
    DEF Quiet, InGate, ForkInv, Shapes, SameProcess, SameMarks, SameCall, Others, Outside,
        Starting, Res
  <1>3. ForkInv'
    BY <1>s, <1>e
    DEF ForkInv, Shapes, SameProcess, SameMarks, SameCall, Others, Outside, Starting, Res
  <1> QED
    BY <1>0, <1>1, WorkKeeps, <1>2, QuietKeeps, <1>3

\* Taking format_mu for a fork keeps the invariant.
LEMMA ForkFormatKeeps ==
    ASSUME DomainInv, NEW t \in Threads, ForkFormat(t)
    PROVE  DomainInv'
  <1>0. DomainTypes'
    BY ForkFormatTypes
  <1> USE NamesAssumption
    DEF DomainInv, DomainTypes, Processes, Domains, ThreadLocals, Locals, Counts,
        ForkFormat, FormatAcquire, Fault, Faulty, Unlocked, Goto, logger_process_is_child,
        logger_process_ready
  <1>1. Work(t)
    BY <1>0
    DEF Work, Others, NotWorking, Starting, Outside, Inside, InsideInv, PublishedInv,
        ForkInv, NoLocals, Res
  <1>2. Quiet(t)
    BY <1>0 DEF Quiet, Others, InGate, ForkInv, Starting, NoLocals, Unlocked
  <1>3. ForkInv'
    BY <1>0 DEF ForkInv, Outside, Starting, NoLocals, Res, OutsideTls, NoDomain
  <1> HIDE DEF ForkFormat, FormatAcquire, Fault, Faulty, Unlocked, Goto
  <1> QED
    BY <1>0, <1>3, <1>1, WorkKeeps, <1>2, QuietKeeps

\* The snapshot of the table keeps the invariant.
LEMMA ForkFdKeeps ==
    ASSUME DomainInv, NEW t \in Threads, ForkFd(t)
    PROVE  DomainInv'
  <1>0. DomainTypes'
    BY ForkFdTypes
  <1>d. DomainTypes
    BY DEF DomainInv
  <1>s. Shapes /\ Shapes'
    BY <1>0, <1>d, ShapesHold
  <1>e. /\ t \in alive /\ Others(t) /\ pc[t] = "fork_fd" /\ pc'[t] = "forking"
        /\ UNCHANGED <<pid, alive, proc, loc, kernel, host_open>>
        /\ counts'.handlers = counts.handlers
        /\ dom'.id = dom.id /\ dom'.owned = dom.owned /\ dom'.allocations = dom.allocations
        /\ dom'.resource_error = dom.resource_error
        /\ tls'[t].in_runtime = tls[t].in_runtime
        /\ \/ /\ dom.resource_mu = None /\ dom'.resource_mu = t
              /\ tls'[t].prepare_error = dom.resource_error /\ tls'[t].snapshot = dom.owned
           \/ dom'.resource_mu = dom.resource_mu /\ tls'[t].prepared = tls[t].prepared
    BY <1>d
    DEF DomainTypes, ThreadLocals, Domains, Counts, ForkFd, Prepared, Fault, Goto, Others
  <1> USE NamesAssumption DEF DomainInv, logger_process_is_child, logger_process_ready
  <1>1. Work(t)
    BY <1>s, <1>e
    DEF Work, NotWorking, Inside, InsideInv, PublishedInv, ForkInv, Shapes, SameProcess,
        SameMarks, SameCall, Others, Outside, Starting, Res
  <1>2. ForkInv'
    BY <1>s, <1>e
    DEF ForkInv, Shapes, SameProcess, SameMarks, SameCall, Others, Outside, Starting, Res
  <1>3. GateInv'
    BY <1>s, <1>e
    DEF GateInv, InGate, ForkInv, Shapes, SameProcess, SameMarks, SameCall, Others,
        Outside, Starting, Res
  <1>4. UsesInv'
    BY <1>s, <1>e
    DEF UsesInv, Uses, SoleInv, GateInv, InGate, ForkInv, Shapes, SameProcess, SameMarks,
        SameCall, Others, Outside, Starting, Res
  <1>5. HandInv'
    BY <1>s, <1>e
    DEF GateInv, InGate, HandInv, SoleInv, TableInv, UsesInv, Uses, Shapes, SameProcess,
        SameMarks, SameCall, Others, Outside, Starting, Res
  <1>6. CallInv'
    BY <1>s, <1>e
    DEF CallInv, InGate, UsesInv, Uses, ForkInv, Shapes, SameProcess, SameMarks, SameCall,
        Others, Outside, Starting, Res
  <1>7. SoleInv'
    BY <1>s, <1>e
    DEF SoleInv, CallInv, GateInv, InGate, UsesInv, Uses, TableInv, Shapes, SameProcess,
        SameMarks, SameCall, Others, Outside, Starting, Res
  <1>8. TableInv'
    BY <1>s, <1>e
    DEF TableInv, HandInv, UsesInv, SoleInv, HeldInv, StartingInv, Shapes, SameProcess,
        SameMarks, SameCall, Others, Outside, Starting, Res
  <1>9. OpenInv'
    BY <1>s, <1>e
    DEF OpenInv, HandInv, UsesInv, Uses, SoleInv, HeldInv, StartingInv, Shapes,
        SameProcess, SameMarks, SameCall, Others, Outside, Starting, Res
  <1>10. ForkableInv'
    BY <1>s, <1>e
    DEF ForkableInv, HandInv, HeldInv, StartingInv, Shapes, SameProcess, SameMarks,
        SameCall, Others, Outside, Starting, Res
  <1>11. SnapshotInv'
    BY <1>s, <1>e
    DEF SnapshotInv, GateInv, InGate, ForkInv, ForkableInv, OpenInv, CleanInv, InsideInv,
        Inside, AloneInv, Shapes, SameProcess, SameMarks, SameCall, Others, Outside, Starting,
        Res
  <1>12. HostInv'
    BY <1>s, <1>e
    DEF HostInv, HandInv, TableInv, SnapshotInv, UsesInv, Shapes, SameProcess, SameMarks,
        SameCall, Others, Outside, Starting, Res
  <1> QED
    BY <1>0, <1>1, WorkKeeps, <1>2, <1>3, <1>4, <1>5, <1>6, <1>7, <1>8, <1>9, <1>10, <1>11,
       <1>12

\* The parent handler keeps the invariant.
LEMMA ForkParentKeeps ==
    ASSUME DomainInv, NEW t \in Threads, ForkParent(t)
    PROVE  DomainInv'
  <1>0. DomainTypes'
    BY ForkParentTypes
  <1>d. DomainTypes
    BY DEF DomainInv
  <1>s. Shapes /\ Shapes'
    BY <1>0, <1>d, ShapesHold
  <1>b. loc[t].back \in {"idle", "scope", "format", "lease"}
    BY <1>d DEF DomainTypes, Locals
  <1>e. /\ t \in alive /\ Others(t) /\ pc[t] = "forking"
        /\ UNCHANGED <<pid, alive, proc, kernel, host_open>>
        /\ counts'.handlers = counts.handlers
        /\ dom'.id = dom.id /\ dom'.owned = dom.owned /\ dom'.allocations = dom.allocations
        /\ (dom.resource_error => dom'.resource_error)
        /\ tls'[t].in_runtime = tls[t].in_runtime
        /\ loc'[t].op = loc[t].op /\ loc'[t].res = loc[t].res
        /\ \/ /\ pc'[t] = "forking" /\ loc'[t] = loc[t] /\ SameMarks(t) /\ dom' = dom
           \/ /\ pc'[t] = loc[t].back /\ loc'[t].back = "idle"
              /\ loc[t].back # "idle" => loc'[t].domain = loc[t].domain
              /\ loc[t].handled => ~tls'[t].prepared
              /\ ~loc[t].handled => tls'[t].prepared = tls[t].prepared
              /\ ~tls[t].prepared \/ ~loc[t].handled => dom'.resource_mu = dom.resource_mu
    <2>1. CASE loc[t].handled /\ tls[t].fork_depth > 1
      BY <1>d, <2>1 DEF DomainTypes, ThreadLocals, ForkParent, Goto, Others, SameMarks
    <2>2. CASE ~(loc[t].handled /\ tls[t].fork_depth > 1) /\ loc[t].handled
      BY <1>d, <2>2
      DEF DomainTypes, ThreadLocals, Locals, Domains, Counts, ForkParent, Faulty, Goto, Others
    <2>3. CASE ~loc[t].handled
      BY <1>d, <2>3 DEF DomainTypes, Locals, ForkParent, Goto, Others
    <2> QED
      BY <2>1, <2>2, <2>3
  <1> USE NamesAssumption DEF DomainInv, logger_process_is_child, logger_process_ready
  <1>1. Work(t)
    BY <1>s, <1>e, <1>b
    DEF Work, NotWorking, Inside, InsideInv, PublishedInv, ForkInv, Shapes, SameProcess,
        SameMarks, SameCall, Others, Outside, Starting, Res
  <1>2. ForkInv'
    BY <1>s, <1>e, <1>b
    DEF ForkInv, Shapes, SameProcess, SameMarks, SameCall, Others, Outside, Starting, Res
  <1>3. GateInv'
    BY <1>s, <1>e, <1>b
    DEF GateInv, InGate, ForkInv, Shapes, SameProcess, SameMarks, SameCall, Others,
        Outside, Starting, Res
  <1>4. UsesInv'
    BY <1>s, <1>e, <1>b
    DEF UsesInv, Uses, SoleInv, GateInv, InGate, ForkInv, Shapes, SameProcess, SameMarks,
        SameCall, Others, Outside, Starting, Res
  <1>5. HandInv'
    BY <1>s, <1>e, <1>b
    DEF GateInv, InGate, HandInv, SoleInv, TableInv, UsesInv, Uses, Shapes, SameProcess,
        SameMarks, SameCall, Others, Outside, Starting, Res
  <1>6. CallInv'
    BY <1>s, <1>e, <1>b
    DEF CallInv, InGate, UsesInv, Uses, ForkInv, Shapes, SameProcess, SameMarks, SameCall,
        Others, Outside, Starting, Res
  <1>7. SoleInv'
    BY <1>s, <1>e, <1>b
    DEF SoleInv, CallInv, GateInv, InGate, UsesInv, Uses, TableInv, Shapes, SameProcess,
        SameMarks, SameCall, Others, Outside, Starting, Res
  <1>8. TableInv'
    BY <1>s, <1>e, <1>b
    DEF TableInv, HandInv, UsesInv, SoleInv, HeldInv, StartingInv, Shapes, SameProcess,
        SameMarks, SameCall, Others, Outside, Starting, Res
  <1>9. OpenInv'
    BY <1>s, <1>e, <1>b
    DEF OpenInv, HandInv, UsesInv, Uses, SoleInv, HeldInv, StartingInv, Shapes,
        SameProcess, SameMarks, SameCall, Others, Outside, Starting, Res
  <1>10. ForkableInv'
    BY <1>s, <1>e, <1>b
    DEF ForkableInv, HandInv, HeldInv, StartingInv, Shapes, SameProcess, SameMarks,
        SameCall, Others, Outside, Starting, Res
  <1>11. SnapshotInv'
    BY <1>s, <1>e, <1>b
    DEF SnapshotInv, GateInv, InGate, ForkInv, ForkableInv, OpenInv, CleanInv, InsideInv,
        Inside, AloneInv, Shapes, SameProcess, SameMarks, SameCall, Others, Outside, Starting,
        Res
  <1>12. HostInv'
    BY <1>s, <1>e, <1>b
    DEF HostInv, HandInv, TableInv, SnapshotInv, UsesInv, Shapes, SameProcess, SameMarks,
        SameCall, Others, Outside, Starting, Res
  <1> QED
    BY <1>0, <1>1, WorkKeeps, <1>2, <1>3, <1>4, <1>5, <1>6, <1>7, <1>8, <1>9, <1>10, <1>11,
       <1>12

\* Fork returning in the child keeps the invariant.
LEMMA ForkChildKeeps ==
    ASSUME DomainInv, NEW t \in Threads, ForkChild(t)
    PROVE  DomainInv'
  <1>0. DomainTypes'
    BY ForkChildTypes
  <1>d. DomainTypes
    BY DEF DomainInv
  <1>s. Shapes /\ Shapes'
    BY <1>0, <1>d, ShapesHold
  <1>e. /\ t \in alive /\ pc[t] = "forking" /\ alive' = {t} /\ pid' = pid + 1
        /\ pc'[t] = IF loc[t].handled THEN "child_handler" ELSE "idle"
        /\ tls'[t] = tls[t] /\ loc'[t] = [NoLocals EXCEPT !.handled = loc[t].handled]
        /\ dom' = NoDomain /\ UNCHANGED <<proc, counts, host_open>>
        /\ \A r \in Res : kernel'[r] =
             CASE kernel[r] = "logger" -> IF r \in Maps THEN "free" ELSE "inherited"
               [] kernel[r] = "forkable" -> "inherited"
               [] OTHER -> kernel[r]
    BY <1>d DEF DomainTypes, Locals, NoLocals, ForkChild, Goto
  <1> USE NamesAssumption
    DEF DomainInv, DomainTypes, Processes, NoDomain, NoLocals, logger_process_is_child,
        logger_process_ready
  <1>1. OwnerInv'
    BY <1>s, <1>0, <1>d, <1>e
    DEF OwnerInv, StartingInv, Shapes, SameProcess, SameMarks, SameCall, Others, Outside,
        Starting, Res
  <1>2. AloneInv'
    BY <1>s, <1>0, <1>d, <1>e
    DEF OwnerInv, AloneInv, Shapes, SameProcess, SameMarks, SameCall, Others, Outside,
        Starting, Res
  <1>3. CasInv'
    BY <1>s, <1>0, <1>d, <1>e
    DEF CasInv, AloneInv, OwnerInv, Shapes, SameProcess, SameMarks, SameCall, Others,
        Outside, Starting, Res
  <1>4. StartingInv'
    BY <1>s, <1>0, <1>d, <1>e
    DEF StartingInv, CasInv, Shapes, SameProcess, SameMarks, SameCall, Others, Outside,
        Starting, Res
  <1>5. TicketInv'
    BY <1>s, <1>0, <1>d, <1>e
    DEF TicketInv, StartingInv, OwnerInv, AloneInv, Shapes, SameProcess, SameMarks,
        SameCall, Others, Outside, Starting, Res
  <1>6. VouchedInv'
    BY <1>s, <1>0, <1>d, <1>e
    DEF VouchedInv, AloneInv, StartingInv, Shapes, SameProcess, SameMarks, SameCall,
        Others, Outside, Starting, Res
  <1>7. PublishedInv'
    BY <1>s, <1>0, <1>d, <1>e
    DEF PublishedInv, StartingInv, AloneInv, OwnerInv, CasInv, Shapes, SameProcess,
        SameMarks, SameCall, Others, Outside, Starting, Res
  <1>8. InsideInv'
    BY <1>s, <1>0, <1>d, <1>e
    DEF AloneInv, OwnerInv, StartingInv, CasInv, PublishedInv, InsideInv, Inside, ForkInv,
        Shapes, SameProcess, SameMarks, SameCall, Others, Outside, Starting, Res
  <1>9. HeldInv'
    BY <1>s, <1>0, <1>d, <1>e
    DEF OwnerInv, StartingInv, CasInv, InsideInv, Inside, HeldInv, AloneInv, Shapes,
        SameProcess, SameMarks, SameCall, Others, Outside, Starting, Res
  <1>10. CleanInv'
    BY <1>s, <1>0, <1>d, <1>e
    DEF OwnerInv, AloneInv, VouchedInv, CleanInv, HeldInv, SnapshotInv, Shapes,
        SameProcess, SameMarks, SameCall, Others, Outside, Starting, Res
  <1>11. ForkInv'
    BY <1>s, <1>0, <1>d, <1>e
    DEF ForkInv, Shapes, SameProcess, SameMarks, SameCall, Others, Outside, Starting, Res
  <1>12. GateInv'
    BY <1>s, <1>0, <1>d, <1>e
    DEF GateInv, InGate, ForkInv, Shapes, SameProcess, SameMarks, SameCall, Others,
        Outside, Starting, Res
  <1>13. UsesInv'
    BY <1>s, <1>0, <1>d, <1>e
    DEF UsesInv, Uses, SoleInv, GateInv, InGate, ForkInv, Shapes, SameProcess, SameMarks,
        SameCall, Others, Outside, Starting, Res
  <1>14. HandInv'
    BY <1>s, <1>0, <1>d, <1>e
    DEF GateInv, InGate, HandInv, SoleInv, TableInv, UsesInv, Uses, Shapes, SameProcess,
        SameMarks, SameCall, Others, Outside, Starting, Res
  <1>15. CallInv'
    BY <1>s, <1>0, <1>d, <1>e
    DEF CallInv, InGate, UsesInv, Uses, ForkInv, Shapes, SameProcess, SameMarks, SameCall,
        Others, Outside, Starting, Res
  <1>16. SoleInv'
    BY <1>s, <1>0, <1>d, <1>e
    DEF SoleInv, CallInv, GateInv, InGate, UsesInv, Uses, TableInv, Shapes, SameProcess,
        SameMarks, SameCall, Others, Outside, Starting, Res
  <1>17. TableInv'
    BY <1>s, <1>0, <1>d, <1>e
    DEF TableInv, HandInv, UsesInv, SoleInv, HeldInv, StartingInv, Shapes, SameProcess,
        SameMarks, SameCall, Others, Outside, Starting, Res
  <1>18. OpenInv'
    BY <1>s, <1>0, <1>d, <1>e
    DEF OpenInv, HandInv, UsesInv, Uses, SoleInv, HeldInv, StartingInv, Shapes,
        SameProcess, SameMarks, SameCall, Others, Outside, Starting, Res
  <1>19. ForkableInv'
    BY <1>s, <1>0, <1>d, <1>e
    DEF ForkableInv, HandInv, HeldInv, StartingInv, Shapes, SameProcess, SameMarks,
        SameCall, Others, Outside, Starting, Res
  <1>20. SnapshotInv'
    <2>1. SUFFICES ASSUME tls[t].prepared, ~tls[t].prepare_error
                   PROVE  \A r \in Res : kernel'[r] = "inherited" <=> r \in tls[t].snapshot
      BY <1>e DEF SnapshotInv
    <2>2. tls[t].snapshot = dom.owned /\ \A r \in Res : kernel[r] # "forkable"
      BY <1>e, <2>1 DEF SnapshotInv
    <2>3. \A r \in Res : kernel[r] # "inherited"
      BY <1>e, <2>1 DEF InsideInv, Inside, CleanInv
    <2>4. \A r \in Fds : kernel[r] = "logger" <=> r \in dom.owned
      BY <1>s, <1>e, <2>1 DEF OpenInv, TableInv, GateInv, InGate, Shapes
    <2>5. dom.owned \subseteq Fds
      BY <1>s DEF Shapes
    <2> QED
      BY <1>e, <2>2, <2>3, <2>4, <2>5 DEF Res
  <1>21. HostInv'
    BY <1>s, <1>0, <1>d, <1>e
    DEF HostInv, HandInv, TableInv, SnapshotInv, UsesInv, Shapes, SameProcess, SameMarks,
        SameCall, Others, Outside, Starting, Res
  <1> QED
    BY <1>0, <1>1, <1>2, <1>3, <1>4, <1>5, <1>6, <1>7, <1>8, <1>9, <1>10, <1>11, <1>12,
       <1>13, <1>14, <1>15, <1>16, <1>17, <1>18, <1>19, <1>20, <1>21

\* The child handler keeps the invariant.
LEMMA ChildHandlerKeeps ==
    ASSUME DomainInv, NEW t \in Threads, ChildHandler(t)
    PROVE  DomainInv'
  <1>0. DomainTypes'
    BY ChildHandlerTypes
  <1>d. DomainTypes
    BY DEF DomainInv
  <1>s. Shapes /\ Shapes'
    BY <1>0, <1>d, ShapesHold
  <1>e. /\ t \in alive /\ Others(t) /\ pc[t] = "child_handler" /\ pc'[t] \in {"forking", "idle"}
        /\ UNCHANGED <<pid, alive, dom, loc, host_open>> /\ counts'.handlers = counts.handlers
        /\ proc'.owner_pid = proc.owner_pid /\ proc'.ticket = proc.ticket
        /\ proc'.registered = proc.registered /\ proc'.forked_child = TRUE
        /\ ~tls'[t].prepared
        /\ \/ /\ proc'.child_valid = FALSE /\ kernel' = kernel
           \/ /\ tls[t].prepared /\ ~tls[t].prepare_error
              /\ \A r \in Res : kernel'[r] = IF r \in tls[t].snapshot THEN "free" ELSE kernel[r]
    <2> DEFINE valid == tls[t].prepared /\ ~tls[t].prepare_error /\ tls[t].fork_depth = 1
               closed == IF valid THEN tls[t].snapshot ELSE {}
    <2>0. proc \in Processes /\ counts \in Counts
      BY <1>d DEF DomainTypes
    <2>1. /\ proc'.owner_pid = proc.owner_pid /\ proc'.ticket = proc.ticket
          /\ proc'.registered = proc.registered /\ proc'.forked_child = TRUE
          /\ proc'.child_valid = valid
      BY <2>0 DEF ChildHandler, Processes
    <2>2. \A r \in Res : kernel'[r] = IF r \in closed THEN "free" ELSE kernel[r]
      BY <1>d DEF DomainTypes, ChildHandler
    <2>3. ~valid => kernel' = kernel
      BY <1>d DEF DomainTypes, ChildHandler
    <2>4. /\ t \in alive /\ Others(t) /\ pc[t] = "child_handler" /\ pc'[t] \in {"forking", "idle"}
          /\ UNCHANGED <<pid, alive, dom, loc, host_open>>
      BY <1>d DEF DomainTypes, ChildHandler, Goto, Others
    <2>5. ~tls'[t].prepared
      BY <1>d DEF DomainTypes, ChildHandler, OutsideTls
    <2>6. counts'.handlers = counts.handlers
      BY <2>0 DEF Counts, ChildHandler, Fault
    <2> QED
      BY <2>1, <2>2, <2>3, <2>4, <2>5, <2>6
  <1> USE NamesAssumption DEF DomainInv, logger_process_is_child, logger_process_ready
  <1>a. alive = {t} /\ loc[t].res = None /\ \A r \in Res : kernel[r] \notin {"logger", "forkable"}
    BY <1>s, <1>e DEF AloneInv, CallInv, InGate, HeldInv
  <1>1. OwnerInv'
    BY <1>s, <1>e, <1>a
    DEF OwnerInv, StartingInv, Shapes, SameProcess, SameMarks, SameCall, Others, Outside,
        Starting, Res
  <1>2. AloneInv'
    BY <1>s, <1>e, <1>a
    DEF OwnerInv, AloneInv, Shapes, SameProcess, SameMarks, SameCall, Others, Outside,
        Starting, Res
  <1>3. CasInv'
    BY <1>s, <1>e, <1>a
    DEF CasInv, AloneInv, OwnerInv, Shapes, SameProcess, SameMarks, SameCall, Others,
        Outside, Starting, Res
  <1>4. StartingInv'
    BY <1>s, <1>e, <1>a
    DEF StartingInv, CasInv, Shapes, SameProcess, SameMarks, SameCall, Others, Outside,
        Starting, Res
  <1>5. TicketInv'
    BY <1>s, <1>e, <1>a
    DEF TicketInv, StartingInv, OwnerInv, AloneInv, Shapes, SameProcess, SameMarks,
        SameCall, Others, Outside, Starting, Res
  <1>6. VouchedInv'
    BY <1>s, <1>e, <1>a
    DEF VouchedInv, AloneInv, StartingInv, Shapes, SameProcess, SameMarks, SameCall,
        Others, Outside, Starting, Res
  <1>7. PublishedInv'
    BY <1>s, <1>e, <1>a
    DEF PublishedInv, StartingInv, AloneInv, OwnerInv, CasInv, Shapes, SameProcess,
        SameMarks, SameCall, Others, Outside, Starting, Res
  <1>8. InsideInv'
    BY <1>s, <1>e, <1>a
    DEF AloneInv, OwnerInv, StartingInv, CasInv, PublishedInv, InsideInv, Inside, ForkInv,
        Shapes, SameProcess, SameMarks, SameCall, Others, Outside, Starting, Res
  <1>9. HeldInv'
    BY <1>s, <1>e, <1>a
    DEF OwnerInv, StartingInv, CasInv, InsideInv, Inside, HeldInv, AloneInv, Shapes,
        SameProcess, SameMarks, SameCall, Others, Outside, Starting, Res
  <1>10. CleanInv'
    BY <1>s, <1>e, <1>a
    DEF OwnerInv, AloneInv, VouchedInv, CleanInv, HeldInv, SnapshotInv, Shapes,
        SameProcess, SameMarks, SameCall, Others, Outside, Starting, Res
  <1>11. ForkInv'
    BY <1>s, <1>e, <1>a
    DEF ForkInv, Shapes, SameProcess, SameMarks, SameCall, Others, Outside, Starting, Res
  <1>12. GateInv'
    BY <1>s, <1>e, <1>a
    DEF GateInv, InGate, ForkInv, Shapes, SameProcess, SameMarks, SameCall, Others,
        Outside, Starting, Res
  <1>13. UsesInv'
    BY <1>s, <1>e, <1>a
    DEF UsesInv, Uses, SoleInv, GateInv, InGate, ForkInv, Shapes, SameProcess, SameMarks,
        SameCall, Others, Outside, Starting, Res
  <1>14. HandInv'
    BY <1>s, <1>e, <1>a
    DEF GateInv, InGate, HandInv, SoleInv, TableInv, UsesInv, Uses, Shapes, SameProcess,
        SameMarks, SameCall, Others, Outside, Starting, Res
  <1>15. CallInv'
    BY <1>s, <1>e, <1>a
    DEF CallInv, InGate, UsesInv, Uses, ForkInv, Shapes, SameProcess, SameMarks, SameCall,
        Others, Outside, Starting, Res
  <1>16. SoleInv'
    BY <1>s, <1>e, <1>a
    DEF SoleInv, CallInv, GateInv, InGate, UsesInv, Uses, TableInv, Shapes, SameProcess,
        SameMarks, SameCall, Others, Outside, Starting, Res
  <1>17. TableInv'
    BY <1>s, <1>e, <1>a
    DEF TableInv, HandInv, UsesInv, SoleInv, HeldInv, StartingInv, Shapes, SameProcess,
        SameMarks, SameCall, Others, Outside, Starting, Res
  <1>18. OpenInv'
    BY <1>s, <1>e, <1>a
    DEF OpenInv, HandInv, UsesInv, Uses, SoleInv, HeldInv, StartingInv, Shapes,
        SameProcess, SameMarks, SameCall, Others, Outside, Starting, Res
  <1>19. ForkableInv'
    BY <1>s, <1>e, <1>a
    DEF ForkableInv, HandInv, HeldInv, StartingInv, Shapes, SameProcess, SameMarks,
        SameCall, Others, Outside, Starting, Res
  <1>20. SnapshotInv'
    BY <1>s, <1>e, <1>a
    DEF SnapshotInv, GateInv, InGate, ForkInv, ForkableInv, OpenInv, CleanInv, InsideInv,
        Inside, AloneInv, Shapes, SameProcess, SameMarks, SameCall, Others, Outside, Starting,
        Res
  <1>21. HostInv'
    BY <1>s, <1>e, <1>a
    DEF HostInv, HandInv, TableInv, SnapshotInv, UsesInv, Shapes, SameProcess, SameMarks,
        SameCall, Others, Outside, Starting, Res
  <1> QED
    BY <1>0, <1>1, <1>2, <1>3, <1>4, <1>5, <1>6, <1>7, <1>8, <1>9, <1>10, <1>11, <1>12,
       <1>13, <1>14, <1>15, <1>16, <1>17, <1>18, <1>19, <1>20, <1>21

\* The host opening a descriptor keeps the invariant.
LEMMA HostOpenKeeps ==
    ASSUME DomainInv, NEW r \in Fds, HostOpen(r)
    PROVE  DomainInv'
  <1>0. DomainTypes'
    BY HostOpenTypes
  <1> USE NamesAssumption
    DEF DomainInv, DomainTypes, Processes, Domains, ThreadLocals, Locals, Counts, HostOpen,
        logger_process_is_child, logger_process_ready
  <1>1. OwnerInv'
    BY <1>0 DEF OwnerInv, StartingInv, Outside, Starting, NoLocals, Res, OutsideTls, NoDomain
  <1>2. AloneInv'
    BY <1>0 DEF OwnerInv, AloneInv, Outside, Starting, NoLocals, Res, OutsideTls, NoDomain
  <1>3. CasInv'
    BY <1>0
    DEF CasInv, AloneInv, OwnerInv, Outside, Starting, NoLocals, Res, OutsideTls, NoDomain
  <1>4. StartingInv'
    BY <1>0 DEF StartingInv, CasInv, Outside, Starting, NoLocals, Res, OutsideTls, NoDomain
  <1>5. TicketInv'
    BY <1>0
    DEF TicketInv, StartingInv, OwnerInv, AloneInv, Outside, Starting, NoLocals, Res,
        OutsideTls, NoDomain
  <1>6. VouchedInv'
    BY <1>0
    DEF VouchedInv, AloneInv, StartingInv, Outside, Starting, NoLocals, Res, OutsideTls,
        NoDomain
  <1>7. PublishedInv'
    BY <1>0
    DEF PublishedInv, StartingInv, AloneInv, OwnerInv, CasInv, Outside, Starting, NoLocals,
        Res, OutsideTls, NoDomain
  <1>8. InsideInv'
    BY <1>0
    DEF AloneInv, OwnerInv, StartingInv, CasInv, PublishedInv, InsideInv, Inside, ForkInv,
        Outside, Starting, NoLocals, Res, OutsideTls, NoDomain
  <1>9. HeldInv'
    BY <1>0
    DEF OwnerInv, StartingInv, CasInv, InsideInv, Inside, HeldInv, AloneInv, Outside,
        Starting, NoLocals, Res, OutsideTls, NoDomain
  <1>10. CleanInv'
    BY <1>0
    DEF OwnerInv, AloneInv, VouchedInv, CleanInv, HeldInv, SnapshotInv, Outside, Starting,
        NoLocals, Res, OutsideTls, NoDomain
  <1>11. ForkInv'
    BY <1>0 DEF ForkInv, Outside, Starting, NoLocals, Res, OutsideTls, NoDomain
  <1>12. GateInv'
    BY <1>0
    DEF GateInv, InGate, ForkInv, Outside, Starting, NoLocals, Res, OutsideTls, NoDomain
  <1>13. UsesInv'
    BY <1>0
    DEF UsesInv, Uses, SoleInv, GateInv, InGate, ForkInv, Outside, Starting, NoLocals, Res,
        OutsideTls, NoDomain
  <1>14. HandInv'
    BY <1>0
    DEF GateInv, InGate, HandInv, SoleInv, TableInv, UsesInv, Uses, Outside, Starting,
        NoLocals, Res, OutsideTls, NoDomain
  <1>15. CallInv'
    BY <1>0
    DEF CallInv, InGate, UsesInv, Uses, ForkInv, Outside, Starting, NoLocals, Res,
        OutsideTls, NoDomain
  <1>16. SoleInv'
    BY <1>0
    DEF SoleInv, CallInv, GateInv, InGate, UsesInv, Uses, TableInv, Outside, Starting,
        NoLocals, Res, OutsideTls, NoDomain
  <1>17. TableInv'
    BY <1>0
    DEF TableInv, HandInv, UsesInv, SoleInv, HeldInv, StartingInv, Outside, Starting,
        NoLocals, Res, OutsideTls, NoDomain
  <1>18. OpenInv'
    BY <1>0
    DEF OpenInv, HandInv, UsesInv, Uses, SoleInv, HeldInv, StartingInv, Outside, Starting,
        NoLocals, Res, OutsideTls, NoDomain
  <1>19. ForkableInv'
    BY <1>0
    DEF ForkableInv, HandInv, HeldInv, StartingInv, Outside, Starting, NoLocals, Res,
        OutsideTls, NoDomain
  <1>20. SnapshotInv'
    BY <1>0
    DEF SnapshotInv, GateInv, InGate, ForkInv, ForkableInv, OpenInv, CleanInv, InsideInv,
        Inside, AloneInv, Outside, Starting, NoLocals, Res, OutsideTls, NoDomain
  <1>21. HostInv'
    BY <1>0
    DEF HostInv, HandInv, TableInv, SnapshotInv, UsesInv, Outside, Starting, NoLocals, Res,
        OutsideTls, NoDomain
  <1> HIDE DEF HostOpen
  <1> QED
    BY <1>0, <1>1, <1>2, <1>3, <1>4, <1>5, <1>6, <1>7, <1>8, <1>9, <1>10, <1>11, <1>12,
       <1>13, <1>14, <1>15, <1>16, <1>17, <1>18, <1>19, <1>20, <1>21

\* The host closing a descriptor keeps the invariant.
LEMMA HostCloseKeeps ==
    ASSUME DomainInv, NEW r \in Fds, HostClose(r)
    PROVE  DomainInv'
  <1>0. DomainTypes'
    BY HostCloseTypes
  <1>d. DomainTypes
    BY DEF DomainInv
  <1>s. Shapes /\ Shapes'
    BY <1>0, <1>d, ShapesHold
  <1>e. /\ UNCHANGED <<pid, alive, proc, dom, tls, pc, loc, counts>> /\ host_open' = host_open \ {r}
        /\ kernel[r] = "host" /\ \A x \in Res : kernel'[x] = IF x = r THEN "free" ELSE kernel[x]
    BY <1>d DEF DomainInv, HostInv, DomainTypes, Res, HostClose
  <1> USE NamesAssumption DEF DomainInv, logger_process_is_child, logger_process_ready
  <1>1. OwnerInv'
    BY <1>s, <1>e
    DEF OwnerInv, StartingInv, Shapes, SameProcess, SameMarks, SameCall, Others, Outside,
        Starting, Res
  <1>2. AloneInv'
    BY <1>s, <1>e
    DEF OwnerInv, AloneInv, Shapes, SameProcess, SameMarks, SameCall, Others, Outside,
        Starting, Res
  <1>3. CasInv'
    BY <1>s, <1>e
    DEF CasInv, AloneInv, OwnerInv, Shapes, SameProcess, SameMarks, SameCall, Others,
        Outside, Starting, Res
  <1>4. StartingInv'
    BY <1>s, <1>e
    DEF StartingInv, CasInv, Shapes, SameProcess, SameMarks, SameCall, Others, Outside,
        Starting, Res
  <1>5. TicketInv'
    BY <1>s, <1>e
    DEF TicketInv, StartingInv, OwnerInv, AloneInv, Shapes, SameProcess, SameMarks,
        SameCall, Others, Outside, Starting, Res
  <1>6. VouchedInv'
    BY <1>s, <1>e
    DEF VouchedInv, AloneInv, StartingInv, Shapes, SameProcess, SameMarks, SameCall,
        Others, Outside, Starting, Res
  <1>7. PublishedInv'
    BY <1>s, <1>e
    DEF PublishedInv, StartingInv, AloneInv, OwnerInv, CasInv, Shapes, SameProcess,
        SameMarks, SameCall, Others, Outside, Starting, Res
  <1>8. InsideInv'
    BY <1>s, <1>e
    DEF AloneInv, OwnerInv, StartingInv, CasInv, PublishedInv, InsideInv, Inside, ForkInv,
        Shapes, SameProcess, SameMarks, SameCall, Others, Outside, Starting, Res
  <1>9. HeldInv'
    BY <1>s, <1>e
    DEF OwnerInv, StartingInv, CasInv, InsideInv, Inside, HeldInv, AloneInv, Shapes,
        SameProcess, SameMarks, SameCall, Others, Outside, Starting, Res
  <1>10. CleanInv'
    BY <1>s, <1>e
    DEF OwnerInv, AloneInv, VouchedInv, CleanInv, HeldInv, SnapshotInv, Shapes,
        SameProcess, SameMarks, SameCall, Others, Outside, Starting, Res
  <1>11. ForkInv'
    BY <1>s, <1>e
    DEF ForkInv, Shapes, SameProcess, SameMarks, SameCall, Others, Outside, Starting, Res
  <1>12. GateInv'
    BY <1>s, <1>e
    DEF GateInv, InGate, ForkInv, Shapes, SameProcess, SameMarks, SameCall, Others,
        Outside, Starting, Res
  <1>13. UsesInv'
    BY <1>s, <1>e
    DEF UsesInv, Uses, SoleInv, GateInv, InGate, ForkInv, Shapes, SameProcess, SameMarks,
        SameCall, Others, Outside, Starting, Res
  <1>14. HandInv'
    BY <1>s, <1>e
    DEF GateInv, InGate, HandInv, SoleInv, TableInv, UsesInv, Uses, Shapes, SameProcess,
        SameMarks, SameCall, Others, Outside, Starting, Res
  <1>15. CallInv'
    BY <1>s, <1>e
    DEF CallInv, InGate, UsesInv, Uses, ForkInv, Shapes, SameProcess, SameMarks, SameCall,
        Others, Outside, Starting, Res
  <1>16. SoleInv'
    BY <1>s, <1>e
    DEF SoleInv, CallInv, GateInv, InGate, UsesInv, Uses, TableInv, Shapes, SameProcess,
        SameMarks, SameCall, Others, Outside, Starting, Res
  <1>17. TableInv'
    BY <1>s, <1>e
    DEF TableInv, HandInv, UsesInv, SoleInv, HeldInv, StartingInv, Shapes, SameProcess,
        SameMarks, SameCall, Others, Outside, Starting, Res
  <1>18. OpenInv'
    BY <1>s, <1>e
    DEF OpenInv, HandInv, UsesInv, Uses, SoleInv, HeldInv, StartingInv, Shapes,
        SameProcess, SameMarks, SameCall, Others, Outside, Starting, Res
  <1>19. ForkableInv'
    BY <1>s, <1>e
    DEF ForkableInv, HandInv, HeldInv, StartingInv, Shapes, SameProcess, SameMarks,
        SameCall, Others, Outside, Starting, Res
  <1>20. SnapshotInv'
    BY <1>s, <1>e
    DEF SnapshotInv, GateInv, InGate, ForkInv, ForkableInv, OpenInv, CleanInv, InsideInv,
        Inside, AloneInv, Shapes, SameProcess, SameMarks, SameCall, Others, Outside, Starting,
        Res
  <1>21. HostInv'
    BY <1>s, <1>e
    DEF HostInv, HandInv, TableInv, SnapshotInv, UsesInv, Shapes, SameProcess, SameMarks,
        SameCall, Others, Outside, Starting, Res
  <1> QED
    BY <1>0, <1>1, <1>2, <1>3, <1>4, <1>5, <1>6, <1>7, <1>8, <1>9, <1>10, <1>11, <1>12,
       <1>13, <1>14, <1>15, <1>16, <1>17, <1>18, <1>19, <1>20, <1>21

\* Unloading the library keeps the invariant.
LEMMA logger_runtime_unloadKeeps ==
    ASSUME DomainInv, logger_runtime_unload
    PROVE  DomainInv'
  <1>0. DomainTypes'
    BY logger_runtime_unloadTypes
  <1> USE NamesAssumption
    DEF DomainInv, DomainTypes, Processes, Domains, ThreadLocals, Locals, Counts,
        logger_runtime_unload, NoDomain, logger_process_is_child, logger_process_ready
  <1>1. OwnerInv'
    BY <1>0 DEF OwnerInv, StartingInv, Outside, Starting, NoLocals, Res, OutsideTls, NoDomain
  <1>2. AloneInv'
    BY <1>0 DEF OwnerInv, AloneInv, Outside, Starting, NoLocals, Res, OutsideTls, NoDomain
  <1>3. CasInv'
    BY <1>0
    DEF CasInv, AloneInv, OwnerInv, Outside, Starting, NoLocals, Res, OutsideTls, NoDomain
  <1>4. StartingInv'
    BY <1>0 DEF StartingInv, CasInv, Outside, Starting, NoLocals, Res, OutsideTls, NoDomain
  <1>5. TicketInv'
    BY <1>0
    DEF TicketInv, StartingInv, OwnerInv, AloneInv, Outside, Starting, NoLocals, Res,
        OutsideTls, NoDomain
  <1>6. VouchedInv'
    BY <1>0
    DEF VouchedInv, AloneInv, StartingInv, Outside, Starting, NoLocals, Res, OutsideTls,
        NoDomain
  <1>7. PublishedInv'
    BY <1>0
    DEF PublishedInv, StartingInv, AloneInv, OwnerInv, CasInv, Outside, Starting, NoLocals,
        Res, OutsideTls, NoDomain
  <1>8. InsideInv'
    BY <1>0
    DEF AloneInv, OwnerInv, StartingInv, CasInv, PublishedInv, InsideInv, Inside, ForkInv,
        Outside, Starting, NoLocals, Res, OutsideTls, NoDomain
  <1>9. HeldInv'
    BY <1>0
    DEF OwnerInv, StartingInv, CasInv, InsideInv, Inside, HeldInv, AloneInv, Outside,
        Starting, NoLocals, Res, OutsideTls, NoDomain
  <1>10. CleanInv'
    BY <1>0
    DEF OwnerInv, AloneInv, VouchedInv, CleanInv, HeldInv, SnapshotInv, Outside, Starting,
        NoLocals, Res, OutsideTls, NoDomain
  <1>11. ForkInv'
    BY <1>0 DEF ForkInv, Outside, Starting, NoLocals, Res, OutsideTls, NoDomain
  <1>12. GateInv'
    BY <1>0
    DEF GateInv, InGate, ForkInv, Outside, Starting, NoLocals, Res, OutsideTls, NoDomain
  <1>13. UsesInv'
    BY <1>0
    DEF UsesInv, Uses, SoleInv, GateInv, InGate, ForkInv, Outside, Starting, NoLocals, Res,
        OutsideTls, NoDomain
  <1>14. HandInv'
    BY <1>0
    DEF GateInv, InGate, HandInv, SoleInv, TableInv, UsesInv, Uses, Outside, Starting,
        NoLocals, Res, OutsideTls, NoDomain
  <1>15. CallInv'
    BY <1>0
    DEF CallInv, InGate, UsesInv, Uses, ForkInv, Outside, Starting, NoLocals, Res,
        OutsideTls, NoDomain
  <1>16. SoleInv'
    BY <1>0
    DEF SoleInv, CallInv, GateInv, InGate, UsesInv, Uses, TableInv, Outside, Starting,
        NoLocals, Res, OutsideTls, NoDomain
  <1>17. TableInv'
    BY <1>0
    DEF TableInv, HandInv, UsesInv, SoleInv, HeldInv, StartingInv, Outside, Starting,
        NoLocals, Res, OutsideTls, NoDomain
  <1>18. OpenInv'
    BY <1>0
    DEF OpenInv, HandInv, UsesInv, Uses, SoleInv, HeldInv, StartingInv, Outside, Starting,
        NoLocals, Res, OutsideTls, NoDomain
  <1>19. ForkableInv'
    BY <1>0
    DEF ForkableInv, HandInv, HeldInv, StartingInv, Outside, Starting, NoLocals, Res,
        OutsideTls, NoDomain
  <1>20. SnapshotInv'
    BY <1>0
    DEF SnapshotInv, GateInv, InGate, ForkInv, ForkableInv, OpenInv, CleanInv, InsideInv,
        Inside, AloneInv, Outside, Starting, NoLocals, Res, OutsideTls, NoDomain
  <1>21. HostInv'
    BY <1>0
    DEF HostInv, HandInv, TableInv, SnapshotInv, UsesInv, Outside, Starting, NoLocals, Res,
        OutsideTls, NoDomain
  <1> HIDE DEF logger_runtime_unload, NoDomain
  <1> QED
    BY <1>0, <1>1, <1>2, <1>3, <1>4, <1>5, <1>6, <1>7, <1>8, <1>9, <1>10, <1>11, <1>12,
       <1>13, <1>14, <1>15, <1>16, <1>17, <1>18, <1>19, <1>20, <1>21

-----------------------------------------------------------------------------
(* The theorems                                                            *)

\* A process that has just started, with no domain, satisfies the invariant.
LEMMA DomainInvInit == Init => DomainInv
  <1> SUFFICES ASSUME Init PROVE DomainInv
    OBVIOUS
  <1> USE NamesAssumption DEF Init
  <1>1. DomainTypes
    <2>1. proc \in Processes
      BY DEF Processes, Tickets
    <2>2. NoDomain \in Domains /\ counts \in Counts
      BY DEF Domains, NoDomain, Owners, Counts
    <2>3. OutsideTls \in ThreadLocals
      BY DEF OutsideTls, ThreadLocals
    <2>4. NoLocals \in Locals
      BY DEF NoLocals, Locals, Tickets
    <2>5. pc \in [Threads -> Steps]
      BY DEF Steps, Outside
    <2> QED
      BY <2>1, <2>2, <2>3, <2>4, <2>5 DEF DomainTypes
  <1>2. OwnerInv /\ AloneInv /\ CasInv
    BY DEF OwnerInv, AloneInv, CasInv, logger_process_is_child
  <1>3. StartingInv /\ TicketInv /\ VouchedInv /\ PublishedInv
    BY DEF StartingInv, TicketInv, VouchedInv, PublishedInv, Starting, logger_process_ready
  <1>4. InsideInv /\ GateInv /\ ForkInv
    BY DEF InsideInv, Inside, GateInv, InGate, ForkInv, Outside, OutsideTls
  <1>5. UsesInv /\ HandInv /\ CallInv /\ SoleInv
    BY DEF UsesInv, Uses, HandInv, CallInv, SoleInv, NoLocals
  <1>6. TableInv /\ OpenInv /\ ForkableInv /\ HeldInv
    BY DEF TableInv, OpenInv, ForkableInv, HeldInv, NoDomain, Res
  <1>7. SnapshotInv /\ CleanInv /\ HostInv
    BY DEF SnapshotInv, CleanInv, HostInv, OutsideTls, Res
  <1> QED
    BY <1>1, <1>2, <1>3, <1>4, <1>5, <1>6, <1>7 DEF DomainInv

\* A step that changes nothing changes no part of the invariant.
LEMMA DomainInvStutter ==
    ASSUME DomainInv, UNCHANGED vars
    PROVE  DomainInv'
  <1> USE DEF vars, DomainInv
  <1>1. DomainTypes' /\ OwnerInv' /\ AloneInv' /\ CasInv' /\ StartingInv' /\ TicketInv' /\ VouchedInv'
    BY DEF DomainTypes, OwnerInv, AloneInv, CasInv, StartingInv, TicketInv, VouchedInv,
           logger_process_is_child
  <1>2. PublishedInv' /\ InsideInv' /\ GateInv' /\ ForkInv'
    BY DEF PublishedInv, InsideInv, Inside, GateInv, InGate, ForkInv, logger_process_is_child,
           logger_process_ready
  <1>3. UsesInv' /\ HandInv' /\ CallInv' /\ SoleInv' /\ TableInv' /\ OpenInv' /\ ForkableInv'
    BY DEF UsesInv, Uses, HandInv, CallInv, InGate, SoleInv, TableInv, OpenInv, ForkableInv
  <1>4. HeldInv' /\ SnapshotInv' /\ CleanInv' /\ HostInv'
    BY
    DEF HeldInv, SnapshotInv, CleanInv, HostInv, logger_process_is_child,
        logger_process_ready
  <1> QED
    BY <1>1, <1>2, <1>3, <1>4

\* Every step of the process, of its threads and of its host keeps the invariant.
LEMMA DomainInvStep == DomainInv /\ [Next]_vars => DomainInv'
  <1> SUFFICES ASSUME DomainInv, [Next]_vars PROVE DomainInv'
    OBVIOUS
  <1>1. CASE UNCHANGED vars
    BY <1>1, DomainInvStutter
  <1>2. ASSUME NEW t \in Threads,
               \/ InitBegin(t) \/ logger_scope_begin(t) \/ logger_scope_end(t)
               \/ logger_process_object_acquire(t) \/ logger_process_object_release(t)
               \/ ResourceEnter(t) \/ FormatEnter(t) \/ ForkBegin(t) \/ ForkNested(t)
        PROVE  DomainInv'
    BY <1>2, InitBeginKeeps, logger_scope_beginKeeps, logger_scope_endKeeps,
       logger_process_object_acquireKeeps, logger_process_object_releaseKeeps,
       ResourceEnterKeeps, FormatEnterKeeps, ForkBeginKeeps, ForkNestedKeeps
  <1>3. ASSUME NEW t \in Threads, Initialise(t)
        PROVE  DomainInv'
    BY <1>3, InitCasKeeps, InitCreateKeeps, InitRegisterKeeps, InitPublishKeeps, InitEndKeeps
    DEF Initialise
  <1>4. ASSUME NEW t \in Threads, Resource(t)
        PROVE  DomainInv'
    BY <1>4, ResourceLockKeeps, ResourceLeaveKeeps, OpenKeeps, AcquiredKeeps, FdopendirKeeps,
       UnregisterKeeps, CloseFdKeeps, MmapKeeps, MadviseKeeps, FreeKeeps
    DEF Resource
  <1>5. ASSUME NEW t \in Threads, FormatLock(t) \/ FormatEnd(t) \/ ForkStep(t)
        PROVE  DomainInv'
    BY <1>5, FormatLockKeeps, FormatEndKeeps, ForkFormatKeeps, ForkFdKeeps, ForkParentKeeps,
       ForkChildKeeps, ChildHandlerKeeps
    DEF ForkStep
  <1>6. ASSUME NEW r \in Fds, HostOpen(r) \/ HostClose(r)
        PROVE  DomainInv'
    BY <1>6, HostOpenKeeps, HostCloseKeeps
  <1>7. CASE logger_runtime_unload
    BY <1>7, logger_runtime_unloadKeeps
  <1> QED
    BY <1>1, <1>2, <1>3, <1>4, <1>5, <1>6, <1>7 DEF Next, InCall

\* The invariant holds in every process of every behaviour: whatever the
\* interleaving of threads, forks and failing calls.
THEOREM DomainInvariant == Spec => []DomainInv
  BY DomainInvInit, DomainInvStep, PTL DEF Spec

\* A set whose members are all equal has at most one.
LEMMA AtMostOne ==
    ASSUME NEW S, \A x, y \in S : x = y
    PROVE  Cardinality(S) <= 1
  <1>1. CASE S = {}
    BY <1>1, FS_EmptySet
  <1>2. CASE S # {}
    <2>1. PICK x : x \in S
      BY <1>2
    <2>2. S = {x}
      BY <2>1
    <2> QED
      BY <2>2, FS_Singleton
  <1> QED
    BY <1>1, <1>2

\* A child that may use the library, now or after logger_process_init, holds none
\* of its parent's descriptors and mappings, and no fork closes a descriptor of
\* the host: what logger_fork_fd_prepare records under resource_mu is exactly
\* what the child inherits of the library.
THEOREM ChildrenAreClean == Spec => []ChildIsClean
  <1>1. DomainInv => ChildIsClean
    BY DEF DomainInv, HostInv, CleanInv, ChildIsClean
  <1> QED
    BY <1>1, DomainInvariant, PTL

\* Whoever is inside the library works on the one published domain of its own
\* process, from entry to exit; one thread at most runs initialize_process, the
\* ticket is not left STARTING in a process whose threads would wait for it, and
\* pthread_atfork is called once for the process and its descendants.
THEOREM DomainsAreSound == Spec => []DomainIsSound
  <1>1. DomainInv => DomainIsSound
    <2> SUFFICES ASSUME DomainInv PROVE DomainIsSound
      OBVIOUS
    <2> USE DEF DomainInv
    <2>1. \A t \in alive :
            pc[t] \notin Outside \/ (pc[t] = "forking" /\ tls[t].prepared) =>
                proc.current = loc[t].domain /\ dom.id = loc[t].domain
      BY DEF InsideInv, Inside
    <2>2. alive # {} /\ ~logger_process_is_child /\ logger_process_ready =>
            proc.current # 0 /\ dom.id = proc.current
      BY DEF PublishedInv
    <2>3. Cardinality({t \in alive : pc[t] \in Starting}) <= 1
      <3>1. \A t, u \in {t \in alive : pc[t] \in Starting} : t = u
        BY DEF StartingInv
      <3> QED
        BY <3>1, AtMostOne
    <2>4. counts.handlers <= 1
      BY DEF OwnerInv
    <2> QED
      BY <2>1, <2>2, <2>3, <2>4 DEF DomainIsSound, TicketInv
  <1> QED
    BY <1>1, DomainInvariant, PTL
==============================================================================
