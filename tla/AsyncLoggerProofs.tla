-------------------------- MODULE AsyncLoggerProofs --------------------------
(****************************************************************************)
(* Proofs about AsyncLogger, for every number of threads, calls, slots and  *)
(* failures: the types, where each record is, and the critical sections.    *)
(*                                                                          *)
(* Types is TypeOK with what makes it inductive: the queue's positions, the *)
(* batch that fits its workspace, the parts a constructor has so far.       *)
(* RecordInv follows a record from its logging call through the queue and   *)
(* the batch to the counts and the outputs.  Both have one lemma per        *)
(* action; the actions that handle no record go through one frame,          *)
(* RecordFrame.  SectionsOwned says which labels lie between a lock and its *)
(* unlock.                                                                  *)
(****************************************************************************)
EXTENDS AsyncLogger, FiniteSetTheorems, TLAPS

-----------------------------------------------------------------------------
(* Types                                                                   *)

\* The records l and q range over.
LoggerFields ==
    [state : {"CREATED", "RUNNING", "STOPPING", "STOPPED"}, async_mode : AsyncModes,
     built : SUBSET Parts, running : BOOLEAN, first_error : BOOLEAN, lifecycle_error : BOOLEAN,
     synchronization_error : BOOLEAN, completed_pos : Nat, enqueued : Nat, dropped : Nat,
     sync_fallbacks : Nat, async_completed : Nat, sync_completed : Nat]
QueueFields ==
    [cap : Caps \cup {0}, fifo : Seq(Records), published : SUBSET Nat, dequeue_pos : Nat,
     consumer_waiting : BOOLEAN, wait_mu_error : BOOLEAN]

\* The positions of the queue that are reserved.
Positions == 1..Len(q.fifo)

\* The queue's positions are in order, at most cap of them are in use, a
\* producer about to publish holds a reserved position, and the worker's batch
\* fits its workspace and consists of consumed positions.
QueueTypes ==
    /\ q \in QueueFields
    /\ q.published \subseteq Positions
    /\ q.dequeue_pos <= Len(q.fifo) /\ Len(q.fifo) <= q.dequeue_pos + q.cap
    /\ batch \in Nat /\ batch <= q.dequeue_pos /\ batch <= Capacity
    /\ \A p \in Producers : pc[p] = "publish" => slot[p] \in Positions

\* Every thread is at a label of its role.
PcTypes ==
    /\ pc = [t \in Threads |-> pc[t]]
    /\ \A p \in Producers : pc[p] \in Labels.Producers
    /\ \A f \in Flushers : pc[f] \in Labels.Flushers
    /\ pc[Worker] \in Labels.Worker
    /\ pc[Host] \in Labels.Host

\* The threads' own variables.
LocalTypes ==
    /\ noting \in [Threads -> {"nothing", "sync", "life", "stop"}]
    /\ calls \in [Borrowers -> 0..MaxCalls] /\ kind \in [Producers -> {"log", "sync"}]
    /\ slot \in [Producers -> Nat] /\ target \in [Flushers -> Nat]
    /\ result \in [Threads -> {"ok", "error", "uncreated"}]
    /\ faults \in 0..MaxFaults

\* A thread inside a call has counted it.
CallsBegun == \A b \in Borrowers : pc[b] # "idle" => calls[b] \in 1..MaxCalls

\* The mutexes, the condition variables and the sets of records.
SharedTypes ==
    /\ owner \in [Mutexes -> Threads \cup {None}]
    /\ unproven \subseteq Threads \X Mutexes /\ asleep \subseteq Flushers \cup {Worker}
    /\ written \subseteq Records /\ durable \subseteq Records /\ emitted \subseteq Records
    /\ failed \subseteq Records /\ accepted \subseteq Records
    /\ due \in [Flushers -> SUBSET Records]

\* The first k parts; while the constructor runs the logger has such a prefix.
Prefix(k) == {Construction[i] : i \in 1..k}
Building ==
    pc[Host] = "create" =>
        \E k \in 0..Len(Construction) : l.built = Prefix(k) /\ Cardinality(l.built) = k

Types ==
    /\ l \in LoggerFields /\ QueueTypes /\ PcTypes /\ LocalTypes /\ CallsBegun
    /\ SharedTypes /\ Building

\* A set of at most three elements is finite.
LEMMA SmallSetFinite ==
    ASSUME NEW a, NEW b, NEW c
    PROVE  IsFiniteSet({a, b, c})
<1>1. IsFiniteSet({a}) /\ IsFiniteSet({b}) /\ IsFiniteSet({c})
  BY FS_Singleton
<1>2. IsFiniteSet({a} \cup {b})
  BY <1>1, FS_Union
<1>3. IsFiniteSet(({a} \cup {b}) \cup {c})
  BY <1>1, <1>2, FS_Union
<1>4. ({a} \cup {b}) \cup {c} = {a, b, c}
  OBVIOUS
<1> QED
  BY <1>3, <1>4

\* The parts of a logger are finitely many.
LEMMA PartsFinite == IsFiniteSet(Parts)
<1> DEFINE A == {"object", "memory", "emit_mu"}
           B == {"progress_mu", "progress_cv", "file"}
           C == {"syslog", "queue", "workspace"}
<1>1. IsFiniteSet(A) /\ IsFiniteSet(B) /\ IsFiniteSet(C)
  BY SmallSetFinite
<1>2. Parts = (A \cup B) \cup C
  BY DEF Parts
<1> HIDE DEF A, B, C
<1>3. IsFiniteSet(A \cup B)
  BY <1>1, FS_Union
<1>4. IsFiniteSet((A \cup B) \cup C)
  BY <1>1, <1>3, FS_Union
<1> QED
  BY <1>2, <1>4

\* The failures the model knows are finitely many.
LEMMA FaultsFinite == IsFiniteSet(Faults)
<1> DEFINE A == {"lock", "unlock"} \X Mutexes
           B == {"cond_wait"} \X {"wait_cv", "progress_cv"}
           C == {<<"cond_signal", "wait_cv">>, <<"format", "line">>, <<"io", "write">>}
           D == {<<"io", "fsync">>, <<"io", "close">>, <<"io", "deferred">>}
           E == {<<"thread", "create">>, <<"thread", "join">>}
           F == {"init"} \X Parts
           G == {"destroy"} \X (Parts \ {"object", "file", "syslog"})
<1>1. IsFiniteSet(Mutexes)
  BY SmallSetFinite DEF Mutexes
<1>2. IsFiniteSet({"lock", "unlock", "unlock"}) /\ IsFiniteSet({"wait_cv", "progress_cv", "progress_cv"})
      /\ IsFiniteSet({<<"thread", "create">>, <<"thread", "join">>, <<"thread", "join">>})
  BY SmallSetFinite
<1>3. IsFiniteSet({"lock", "unlock"}) /\ IsFiniteSet({"wait_cv", "progress_cv"}) /\ IsFiniteSet(E)
  <2>1. {"lock", "unlock", "unlock"} = {"lock", "unlock"}
        /\ {"wait_cv", "progress_cv", "progress_cv"} = {"wait_cv", "progress_cv"}
    OBVIOUS
  <2>2. {<<"thread", "create">>, <<"thread", "join">>, <<"thread", "join">>} = E
    OBVIOUS
  <2> QED
    BY <1>2, <2>1, <2>2
<1>4. IsFiniteSet({"cond_wait"}) /\ IsFiniteSet({"init"}) /\ IsFiniteSet({"destroy"})
  BY FS_Singleton
<1>5. IsFiniteSet(A) /\ IsFiniteSet(B)
  BY <1>1, <1>3, <1>4, FS_Product
<1>6. IsFiniteSet(C) /\ IsFiniteSet(D)
  BY SmallSetFinite
<1>7. IsFiniteSet(F)
  BY <1>4, PartsFinite, FS_Product
<1>8. IsFiniteSet(Parts \ {"object", "file", "syslog"})
  BY PartsFinite, FS_Difference
<1>9. IsFiniteSet(G)
  BY <1>4, <1>8, FS_Product
<1>10. Faults = (((A \cup B) \cup (C \cup D)) \cup (E \cup F)) \cup G
  BY DEF Faults
<1> HIDE DEF A, B, C, D, E, F, G
<1>11. IsFiniteSet(A \cup B) /\ IsFiniteSet(C \cup D) /\ IsFiniteSet(E \cup F)
  BY <1>3, <1>5, <1>6, <1>7, FS_Union
<1>12. IsFiniteSet((A \cup B) \cup (C \cup D))
  BY <1>11, FS_Union
<1>13. IsFiniteSet(((A \cup B) \cup (C \cup D)) \cup (E \cup F))
  BY <1>11, <1>12, FS_Union
<1>14. IsFiniteSet((((A \cup B) \cup (C \cup D)) \cup (E \cup F)) \cup G)
  BY <1>9, <1>13, FS_Union
<1> QED
  BY <1>10, <1>14

\* Failures are counted and stay within their bound.
LEMMA MeetType ==
    ASSUME faults \in 0..MaxFaults
    PROVE  \A hit : Meet(hit) => faults' \in 0..MaxFaults
<1> TAKE hit
<1> HAVE Meet(hit)
<1>1. hit \in SUBSET Faults
  BY ModeAssumption DEF Meet
<1>2. IsFiniteSet(hit)
  BY <1>1, FaultsFinite, FS_Subset
<1>3. Cardinality(hit) \in Nat
  BY <1>2, FS_CardinalityType
<1> QED
  BY <1>3, SizesAssumption DEF Meet

\* The roles of the threads are disjoint.
LEMMA Roles ==
    /\ Worker \in Threads /\ Host \in Threads /\ Worker # Host
    /\ \A p \in Producers : p \in Threads /\ p \in Borrowers /\ p \notin Flushers /\ p # Worker /\ p # Host
    /\ \A f \in Flushers : f \in Threads /\ f \in Borrowers /\ f \notin Producers /\ f # Worker /\ f # Host
    /\ \A t \in Threads : t \in Producers \/ t \in Flushers \/ t = Worker \/ t = Host
    /\ \A t \in Threads : t # None
BY ThreadsAssumption DEF Threads, Borrowers

\* The types imply the type invariant of the model.
LEMMA TypesImplyTypeOK == Types => TypeOK
<1> SUFFICES ASSUME Types PROVE TypeOK
  OBVIOUS
<1>1. \A t \in Threads : pc[t] \in CASE t \in Producers -> Labels.Producers
                                      [] t \in Flushers -> Labels.Flushers
                                      [] t = Worker -> Labels.Worker
                                      [] t = Host -> Labels.Host
  <2> SUFFICES ASSUME NEW t \in Threads
               PROVE  pc[t] \in CASE t \in Producers -> Labels.Producers
                                  [] t \in Flushers -> Labels.Flushers
                                  [] t = Worker -> Labels.Worker
                                  [] t = Host -> Labels.Host
    OBVIOUS
  <2>1. CASE t \in Producers
    BY <2>1, Roles DEF Types, PcTypes
  <2>2. CASE t \in Flushers
    BY <2>2, Roles DEF Types, PcTypes
  <2>3. CASE t = Worker
    BY <2>3, Roles DEF Types, PcTypes
  <2>4. CASE t = Host
    BY <2>4, Roles DEF Types, PcTypes
  <2> QED
    BY <2>1, <2>2, <2>3, <2>4, Roles
<1>2. q.cap \in Caps \cup {0} /\ q.fifo \in Seq(Records) /\ q.published \subseteq 1..Len(q.fifo)
      /\ q.dequeue_pos \in Nat /\ q.consumer_waiting \in BOOLEAN /\ q.wait_mu_error \in BOOLEAN
      /\ q.dequeue_pos <= Len(q.fifo) /\ Len(q.fifo) <= q.dequeue_pos + q.cap
  BY DEF Types, QueueTypes, QueueFields, Positions
<1>3. batch \in 0..BatchMax
  <2>1. q.cap \in Nat
    <3>1. \A c \in Caps : c \in Nat
      BY SizesAssumption
    <3>2. q.cap \in Caps \cup {0}
      BY <1>2
    <3> QED
      BY <3>1, <3>2
  <2>2. Capacity <= BatchMax
    BY <2>1, SizesAssumption DEF Capacity
  <2> QED
    BY <2>1, <2>2, SizesAssumption DEF Types, QueueTypes, Capacity
<1>4. UNION {written, durable, emitted, failed, accepted} \subseteq Records
  BY DEF Types, SharedTypes
<1>5. l \in [state : {"CREATED", "RUNNING", "STOPPING", "STOPPED"}, async_mode : AsyncModes,
              built : SUBSET Parts, running : BOOLEAN,
              first_error : BOOLEAN, lifecycle_error : BOOLEAN,
              synchronization_error : BOOLEAN, completed_pos : Nat, enqueued : Nat,
              dropped : Nat, sync_fallbacks : Nat, async_completed : Nat, sync_completed : Nat]
  BY DEF Types, LoggerFields
<1> QED
  BY <1>1, <1>2, <1>3, <1>4, <1>5 DEF TypeOK, Types, LocalTypes, SharedTypes

\* The record of a call that was begun is a record.
LEMMA RecordType ==
    ASSUME Types
    PROVE  \A p \in Producers : pc[p] # "idle" => Record(p) \in Records
BY DEF Types, CallsBegun, Borrowers, Record, Records

\* The fields of the queue.
LEMMA QueueFieldTypes ==
    ASSUME q \in QueueFields
    PROVE  /\ q.cap \in Nat /\ q.fifo \in Seq(Records) /\ Len(q.fifo) \in Nat
           /\ q.published \subseteq Nat /\ q.dequeue_pos \in Nat
           /\ q.consumer_waiting \in BOOLEAN /\ q.wait_mu_error \in BOOLEAN
           /\ \A i \in 1..Len(q.fifo) : q.fifo[i] \in Records
<1>1. q.cap \in Caps \cup {0}
  BY DEF QueueFields
<1>2. \A c \in Caps : c \in Nat
  BY SizesAssumption
<1>3. q.cap \in Nat
  BY <1>1, <1>2
<1>4. /\ q.fifo \in Seq(Records) /\ q.published \subseteq Nat /\ q.dequeue_pos \in Nat
      /\ q.consumer_waiting \in BOOLEAN /\ q.wait_mu_error \in BOOLEAN
  BY DEF QueueFields
<1>5. Len(q.fifo) \in Nat /\ \A i \in 1..Len(q.fifo) : q.fifo[i] \in Records
  BY <1>4
<1> QED
  BY <1>3, <1>4, <1>5

\* A batch consists of records.
LEMMA BatchType ==
    ASSUME Types
    PROVE  Batch \subseteq Records
<1>1. /\ q.fifo \in Seq(Records) /\ Len(q.fifo) \in Nat /\ q.dequeue_pos \in Nat
      /\ \A i \in 1..Len(q.fifo) : q.fifo[i] \in Records
  BY QueueFieldTypes DEF Types, QueueTypes
<1>2. batch \in Nat /\ batch <= q.dequeue_pos /\ q.dequeue_pos <= Len(q.fifo)
  BY DEF Types, QueueTypes
<1>3. \A i \in (q.dequeue_pos - batch + 1)..q.dequeue_pos : i \in 1..Len(q.fifo)
  BY <1>1, <1>2
<1> QED
  BY <1>1, <1>3 DEF Batch

\* A release leaves the mutex with its holder or free.
LEMMA UnlockTypes ==
    ASSUME SharedTypes
    PROVE  \A t \in Threads, m \in Mutexes : \A hit : Unlock(t, m, hit) =>
               /\ owner' \in [Mutexes -> Threads \cup {None}]
               /\ unproven' \subseteq Threads \X Mutexes
BY DEF SharedTypes, Unlock

\* The mutexes.
LEMMA MutexTypes == "emit_mu" \in Mutexes /\ "progress_mu" \in Mutexes /\ "wait_mu" \in Mutexes
BY DEF Mutexes

\* The fields of the logger.
LEMMA LoggerFieldTypes ==
    ASSUME l \in LoggerFields
    PROVE  /\ l.async_mode \in BOOLEAN /\ l.built \subseteq Parts /\ l.running \in BOOLEAN
           /\ l.first_error \in BOOLEAN /\ l.lifecycle_error \in BOOLEAN
           /\ l.synchronization_error \in BOOLEAN /\ l.completed_pos \in Nat
           /\ l.enqueued \in Nat /\ l.dropped \in Nat /\ l.sync_fallbacks \in Nat
           /\ l.async_completed \in Nat /\ l.sync_completed \in Nat
           /\ l.enqueued + 1 \in Nat /\ l.sync_completed + 1 \in Nat
BY ModeAssumption DEF LoggerFields

\* The updates of the logger's fields keep their types.
LEMMA LoggerUpdates ==
    ASSUME l \in LoggerFields, NEW b \in BOOLEAN, NEW n \in Nat, NEW S \in SUBSET Parts,
           NEW s \in {"CREATED", "RUNNING", "STOPPING", "STOPPED"}
    PROVE  /\ [l EXCEPT !.first_error = b] \in LoggerFields
           /\ [l EXCEPT !.lifecycle_error = b] \in LoggerFields
           /\ [l EXCEPT !.enqueued = n] \in LoggerFields
           /\ [l EXCEPT !.enqueued = n, !.first_error = b] \in LoggerFields
           /\ [l EXCEPT !.first_error = b, !.sync_completed = n] \in LoggerFields
           /\ [l EXCEPT !.async_completed = n] \in LoggerFields
           /\ [l EXCEPT !.completed_pos = n] \in LoggerFields
           /\ [l EXCEPT !.built = S, !.first_error = b] \in LoggerFields
           /\ [l EXCEPT !.built = S, !.state = s] \in LoggerFields
           /\ [l EXCEPT !.built = S] \in LoggerFields
           /\ [l EXCEPT !.running = b] \in LoggerFields
           /\ [l EXCEPT !.state = s, !.running = b] \in LoggerFields
           /\ [l EXCEPT !.state = s, !.lifecycle_error = b] \in LoggerFields
<1>1. [l EXCEPT !.first_error = b] \in LoggerFields
  BY DEF LoggerFields
<1>2. [l EXCEPT !.lifecycle_error = b] \in LoggerFields
  BY DEF LoggerFields
<1>3. [l EXCEPT !.enqueued = n] \in LoggerFields
  BY DEF LoggerFields
<1>4. [l EXCEPT !.enqueued = n, !.first_error = b] \in LoggerFields
  BY DEF LoggerFields
<1>5. [l EXCEPT !.first_error = b, !.sync_completed = n] \in LoggerFields
  BY DEF LoggerFields
<1>6. [l EXCEPT !.async_completed = n] \in LoggerFields
  BY DEF LoggerFields
<1>7. [l EXCEPT !.completed_pos = n] \in LoggerFields
  BY DEF LoggerFields
<1>8. [l EXCEPT !.built = S, !.first_error = b] \in LoggerFields
  BY DEF LoggerFields
<1>9. [l EXCEPT !.built = S, !.state = s] \in LoggerFields
  BY DEF LoggerFields
<1>10. [l EXCEPT !.built = S] \in LoggerFields
  BY DEF LoggerFields
<1>11. [l EXCEPT !.running = b] \in LoggerFields
  BY DEF LoggerFields
<1>12. [l EXCEPT !.state = s, !.running = b] \in LoggerFields
  BY DEF LoggerFields
<1>13. [l EXCEPT !.state = s, !.lifecycle_error = b] \in LoggerFields
  BY DEF LoggerFields
<1> QED
  BY <1>1, <1>2, <1>3, <1>4, <1>5, <1>6, <1>7, <1>8, <1>9, <1>10, <1>11, <1>12, <1>13

\* The updates of the queue's fields keep their types.
LEMMA QueueUpdates ==
    ASSUME q \in QueueFields, NEW b \in BOOLEAN, NEW c \in BOOLEAN, NEW n \in Nat,
           NEW S \in SUBSET Nat
    PROVE  /\ [q EXCEPT !.published = S] \in QueueFields
           /\ [q EXCEPT !.dequeue_pos = n] \in QueueFields
           /\ [q EXCEPT !.consumer_waiting = b] \in QueueFields
           /\ [q EXCEPT !.wait_mu_error = b] \in QueueFields
           /\ [q EXCEPT !.consumer_waiting = b, !.wait_mu_error = c] \in QueueFields
<1>2. [q EXCEPT !.published = S] \in QueueFields
  BY DEF QueueFields
<1>3. [q EXCEPT !.dequeue_pos = n] \in QueueFields
  BY DEF QueueFields
<1>4. [q EXCEPT !.consumer_waiting = b] \in QueueFields
  BY DEF QueueFields
<1>5. [q EXCEPT !.wait_mu_error = b] \in QueueFields
  BY DEF QueueFields
<1>6. [q EXCEPT !.consumer_waiting = b, !.wait_mu_error = c] \in QueueFields
  BY DEF QueueFields
<1> QED
  BY <1>2, <1>3, <1>4, <1>5, <1>6

\* Appending a record to the queue keeps the types.
LEMMA QueueAppend ==
    ASSUME q \in QueueFields, NEW r \in Records
    PROVE  [q EXCEPT !.fifo = Append(q.fifo, r)] \in QueueFields
<1>1. q.fifo \in Seq(Records)
  BY DEF QueueFields
<1> DEFINE x == Append(q.fifo, r)
<1>2. x \in Seq(Records)
  BY <1>1
<1> HIDE DEF x
<1>3. [q EXCEPT !.fifo = x] \in QueueFields
  BY <1>2 DEF QueueFields
<1> QED
  BY <1>3 DEF x

\* Updating one field of the queue leaves the others.
LEMMA QueueFrame ==
    ASSUME q \in QueueFields, NEW x
    PROVE  /\ \A o \in {[q EXCEPT !.consumer_waiting = x], [q EXCEPT !.wait_mu_error = x]} :
                 /\ o.cap = q.cap /\ o.fifo = q.fifo /\ o.published = q.published
                 /\ o.dequeue_pos = q.dequeue_pos
           /\ \A y : LET o == [q EXCEPT !.consumer_waiting = x, !.wait_mu_error = y]
                     IN  /\ o.cap = q.cap /\ o.fifo = q.fifo /\ o.published = q.published
                         /\ o.dequeue_pos = q.dequeue_pos
BY DEF QueueFields

\* A step that leaves the queue's positions alone keeps their order.
LEMMA QueueTypesFrame ==
    ASSUME Types, q' \in QueueFields, q'.cap = q.cap, q'.fifo = q.fifo,
           q'.published = q.published, q'.dequeue_pos = q.dequeue_pos,
           batch' \in Nat, batch' <= batch, slot' = slot,
           \A p \in Producers : pc'[p] = "publish" => pc[p] = "publish"
    PROVE  QueueTypes'
<1>1. /\ q.cap \in Nat /\ q.dequeue_pos \in Nat
  BY QueueFieldTypes DEF Types, QueueTypes
<1>2. Capacity' = Capacity /\ Capacity \in Nat
  BY <1>1, SizesAssumption DEF Capacity
<1>3. batch \in Nat /\ batch <= q.dequeue_pos /\ batch <= Capacity
  BY DEF Types, QueueTypes
<1>4. batch' <= q.dequeue_pos /\ batch' <= Capacity
  BY <1>1, <1>2, <1>3
<1> QED
  BY <1>2, <1>4 DEF Types, QueueTypes, Positions

\* The parts of a logger in the order of their construction.
LEMMA ConstructionFacts ==
    ASSUME l \in LoggerFields
    PROVE  /\ Len(Construction) = IF l.async_mode THEN 9 ELSE 7
           /\ Construction[1] = "object" /\ Construction[2] = "memory"
           /\ Construction[3] = "emit_mu" /\ Construction[4] = "progress_mu"
           /\ Construction[5] = "progress_cv" /\ Construction[6] = "file"
           /\ Construction[7] = "syslog"
           /\ l.async_mode => Construction[8] = "queue" /\ Construction[9] = "workspace"
<1>1. l.async_mode \in BOOLEAN
  BY LoggerFieldTypes
<1>2. CASE l.async_mode
  <2>1. Construction = <<"object", "memory", "emit_mu", "progress_mu", "progress_cv", "file",
                         "syslog">> \o <<"queue", "workspace">>
    BY <1>2 DEF Construction
  <2> QED
    BY <1>2, <2>1
<1>3. CASE ~l.async_mode
  <2>1. Construction = <<"object", "memory", "emit_mu", "progress_mu", "progress_cv", "file",
                         "syslog">> \o << >>
    BY <1>3 DEF Construction
  <2> QED
    BY <1>3, <2>1
<1> QED
  BY <1>1, <1>2, <1>3

\* The parts a constructor acquires are parts.
LEMMA ConstructionType ==
    ASSUME l \in LoggerFields
    PROVE  /\ Len(Construction) \in Nat
           /\ \A i \in 1..Len(Construction) : Construction[i] \in Parts
<1>1. l.async_mode \in BOOLEAN
  BY LoggerFieldTypes
<1>2. CASE l.async_mode
  <2>1. Len(Construction) = 9
    BY <1>2, ConstructionFacts
  <2>2. \A i \in 1..9 : i = 1 \/ i = 2 \/ i = 3 \/ i = 4 \/ i = 5 \/ i = 6 \/ i = 7 \/ i = 8 \/ i = 9
    OBVIOUS
  <2>3. \A i \in 1..9 : Construction[i] \in Parts
    BY <1>2, <2>2, ConstructionFacts DEF Parts
  <2> QED
    BY <2>1, <2>3
<1>3. CASE ~l.async_mode
  <2>1. Len(Construction) = 7
    BY <1>3, ConstructionFacts
  <2> QED
    BY <2>1, <1>3, ConstructionFacts DEF Parts
<1> QED
  BY <1>1, <1>2, <1>3

\* An incomplete constructor knows the next part: it is the one after the
\* prefix it has.
LEMMA NextPart ==
    ASSUME Types, pc[Host] = "create", ~Complete
    PROVE  \E k \in 0..(Len(Construction) - 1) :
             /\ l.built = Prefix(k) /\ Cardinality(l.built) = k
             /\ Construction[k + 1] \in Parts
<1>1. PICK k \in 0..Len(Construction) : l.built = Prefix(k) /\ Cardinality(l.built) = k
  BY DEF Types, Building
<1>2. Len(Construction) \in Nat /\ \A i \in 1..Len(Construction) : Construction[i] \in Parts
  BY ConstructionType DEF Types
<1>3. k # Len(Construction)
  BY <1>1 DEF Complete
<1>4. k \in 0..(Len(Construction) - 1) /\ k + 1 \in 1..Len(Construction)
  BY <1>2, <1>3
<1> QED
  BY <1>1, <1>2, <1>4

\* The next part of a constructor is a part.
LEMMA NextPartType ==
    ASSUME Types, pc[Host] = "create", ~Complete
    PROVE  Construction[Cardinality(l.built) + 1] \in Parts
BY NextPart

\* A step that leaves the parts alone keeps the prefix.
LEMMA BuildingFrame ==
    ASSUME Types, pc'[Host] = "create" => pc[Host] = "create",
           l'.built = l.built, l'.async_mode = l.async_mode
    PROVE  Building'
<1>1. Construction' = Construction
  BY DEF Construction
<1> QED
  BY <1>1 DEF Types, Building, Prefix

\* The constructor's prefix grows by the next part.
LEMMA BuildingGrows ==
    ASSUME Types, pc[Host] = "create", ~Complete,
           l'.built = l.built \cup {Construction[Cardinality(l.built) + 1]},
           l'.async_mode = l.async_mode
    PROVE  Building'
<1>1. Construction' = Construction
  BY DEF Construction
<1>2. PICK k \in 0..(Len(Construction) - 1) : l.built = Prefix(k) /\ Cardinality(l.built) = k
  BY NextPart
<1>3. Len(Construction) \in Nat
  BY ConstructionType DEF Types
<1>4. k \in Nat /\ k + 1 \in 0..Len(Construction)
  BY <1>2, <1>3
<1>5. 1..(k + 1) = 1..k \cup {k + 1}
  BY <1>4
<1>6. l'.built = Prefix(k + 1)
  BY <1>2, <1>5 DEF Prefix
<1>7. Construction[k + 1] \notin l.built
  <2>1. l.async_mode \in BOOLEAN /\ l \in LoggerFields
    BY LoggerFieldTypes DEF Types
  <2>2. \A i \in 1..k : Construction[i] # Construction[k + 1]
    <3>1. CASE l.async_mode
      <4>2. Len(Construction) = 9
        BY <2>1, <3>1, ConstructionFacts
      <4>1. k + 1 \in 1..9
        BY <4>2, <1>4
      <4> QED
        BY <4>1, <2>1, <3>1, <1>4, ConstructionFacts
    <3>2. CASE ~l.async_mode
      <4>2. Len(Construction) = 7
        BY <2>1, <3>2, ConstructionFacts
      <4>1. k + 1 \in 1..7
        BY <4>2, <1>4
      <4> QED
        BY <4>1, <2>1, <3>2, <1>4, ConstructionFacts
    <3> QED
      BY <2>1, <3>1, <3>2
  <2> QED
    BY <1>2, <2>2 DEF Prefix
<1>8. IsFiniteSet(l.built)
  BY PartsFinite, FS_Subset, LoggerFieldTypes DEF Types
<1>9. Cardinality(l'.built) = k + 1
  <2>1. Cardinality(l.built \cup {Construction[k + 1]}) = Cardinality(l.built) + 1
    BY <1>7, <1>8, FS_AddElement
  <2> QED
    BY <1>2, <2>1
<1>10. Prefix(k + 1)' = Prefix(k + 1)
  BY <1>1 DEF Prefix
<1> QED
  BY <1>1, <1>4, <1>6, <1>9, <1>10 DEF Building

\* EnterLog keeps the types.
LEMMA EnterLogTypes ==
    ASSUME Types, NEW p \in Producers, EnterLog(p)
    PROVE  Types'
<1>1. l' \in LoggerFields
  BY DEF Types, LoggerFields, EnterLog
<1>2. QueueTypes'
  BY Roles DEF Types, QueueTypes, QueueFields, Positions, Capacity, PcTypes, EnterLog, Go
<1>3. PcTypes'
  BY Roles DEF Types, PcTypes, Labels, EnterLog, Go
<1>6. CallsBegun'
  <2>1. calls[p] \in 0..MaxCalls /\ calls[p] < MaxCalls
    BY Roles DEF Types, LocalTypes, EnterLog
  <2>2. calls[p] + 1 \in 1..MaxCalls
    BY <2>1, SizesAssumption
  <2>3. calls' = [calls EXCEPT ![p] = calls[p] + 1]
    BY DEF EnterLog
  <2>4. calls'[p] \in 1..MaxCalls /\ \A b \in Borrowers : b # p => calls'[b] = calls[b]
    BY <2>2, <2>3, Roles DEF Types, LocalTypes
  <2>5. \A b \in Borrowers : b # p => pc'[b] = pc[b]
    BY Roles DEF Types, PcTypes, EnterLog, Go, Borrowers
  <2> QED
    BY <2>4, <2>5 DEF Types, CallsBegun
<1>4. LocalTypes'
  <2>1. calls[p] \in 0..MaxCalls /\ calls[p] < MaxCalls
    BY Roles DEF Types, LocalTypes, EnterLog
  <2>2. calls[p] + 1 \in 0..MaxCalls
    BY <2>1, SizesAssumption
  <2>3. calls' = [calls EXCEPT ![p] = calls[p] + 1]
    BY DEF EnterLog
  <2>4. calls' \in [Borrowers -> 0..MaxCalls]
    BY <2>2, <2>3 DEF Types, LocalTypes
  <2> QED
    BY <2>4, Roles, ModeAssumption DEF Types, LocalTypes, EnterLog, Answer
<1>5. SharedTypes'
  BY Roles, RecordType, BatchType, MutexTypes
  DEF Types, SharedTypes, EnterLog, outputs, promises, At
<1>7. Building'
  <2>1. pc'[Host] = "create" => pc[Host] = "create"
    BY Roles DEF Types, PcTypes, EnterLog, Go
  <2>2. l'.built = l.built /\ l'.async_mode = l.async_mode
    BY DEF Types, LoggerFields, EnterLog
  <2> QED
    BY <2>1, <2>2, BuildingFrame
<1> QED
  BY <1>1, <1>2, <1>3, <1>4, <1>5, <1>6, <1>7 DEF Types

\* Push keeps the types.
LEMMA PushTypes ==
    ASSUME Types, NEW p \in Producers, Push(p)
    PROVE  Types'
<1>1. l' \in LoggerFields
  BY DEF Types, LoggerFields, Push
<1>2. QueueTypes'
  <2>1. q \in QueueFields
    BY DEF Types, QueueTypes
  <2>2. /\ q.cap \in Nat /\ q.fifo \in Seq(Records) /\ Len(q.fifo) \in Nat
        /\ q.published \subseteq Nat /\ q.dequeue_pos \in Nat /\ q.wait_mu_error \in BOOLEAN
    BY <2>1, QueueFieldTypes

  <2>3. Record(p) \in Records
    BY RecordType DEF Push, At
  <2>4. q' = [q EXCEPT !.fifo = Append(q.fifo, Record(p))]
    BY DEF Push
  <2>5. q' \in QueueFields
    BY <2>1, <2>3, <2>4, QueueAppend
  <2>6. /\ q'.fifo = Append(q.fifo, Record(p)) /\ q'.cap = q.cap /\ q'.published = q.published
        /\ q'.dequeue_pos = q.dequeue_pos
    BY <2>1, <2>4 DEF QueueFields
  <2>7. Len(q'.fifo) = Len(q.fifo) + 1
    BY <2>2, <2>3, <2>6
  <2>8. Capacity' = Capacity
    BY <2>6 DEF Capacity
  <2>9. Len(q.fifo) - q.dequeue_pos < q.cap
    BY DEF Push
  <2>10. slot' = [slot EXCEPT ![p] = Len(q.fifo) + 1] /\ batch' = batch
         /\ pc' = [pc EXCEPT ![p] = "publish"]
    BY DEF Push, Go
  <2>11. Positions' = 1..(Len(q.fifo) + 1) /\ Positions \subseteq Positions'
    BY <2>2, <2>7 DEF Positions
  <2>12. \A o \in Producers : pc'[o] = "publish" => slot'[o] \in Positions'
    <3>1. slot'[p] \in Positions'
      BY <2>2, <2>10, <2>11 DEF Types, LocalTypes
    <3>2. \A o \in Producers : o # p => pc'[o] = pc[o] /\ slot'[o] = slot[o]
      BY <2>10, Roles DEF Types, LocalTypes, PcTypes
    <3>3. \A o \in Producers : pc[o] = "publish" => slot[o] \in Positions
      BY DEF Types, QueueTypes
    <3> QED
      BY <2>11, <3>1, <3>2, <3>3
  <2>13. q'.published \subseteq Positions'
    BY <2>6, <2>11 DEF Types, QueueTypes
  <2>14. q.dequeue_pos <= Len(q.fifo) /\ batch \in Nat /\ batch <= q.dequeue_pos /\ batch <= Capacity
    BY DEF Types, QueueTypes
  <2>15. /\ q'.dequeue_pos <= Len(q'.fifo) /\ Len(q'.fifo) <= q'.dequeue_pos + q'.cap
         /\ batch' \in Nat /\ batch' <= q'.dequeue_pos /\ batch' <= Capacity'
    BY <2>2, <2>6, <2>7, <2>8, <2>9, <2>10, <2>14
  <2> QED
    BY <2>5, <2>12, <2>13, <2>15 DEF QueueTypes
<1>3. PcTypes'
  BY Roles, SMTT(40) DEF Types, PcTypes, Labels, Push, Go
<1>6. CallsBegun'
  BY Roles DEF Types, CallsBegun, PcTypes, Borrowers, Push, Go, At
<1>4. LocalTypes'
  BY Roles DEF Types, LocalTypes, Push
<1>5. SharedTypes'
  BY Roles, RecordType, BatchType, MutexTypes
  DEF Types, SharedTypes, Push, outputs, promises, At
<1>7. Building'
  <2>1. pc'[Host] = "create" => pc[Host] = "create"
    BY Roles DEF Types, PcTypes, Push, Go
  <2>2. l'.built = l.built /\ l'.async_mode = l.async_mode
    BY DEF Types, LoggerFields, Push
  <2> QED
    BY <2>1, <2>2, BuildingFrame
<1> QED
  BY <1>1, <1>2, <1>3, <1>4, <1>5, <1>6, <1>7 DEF Types

\* Refused keeps the types.
LEMMA RefusedTypes ==
    ASSUME Types, NEW p \in Producers, Refused(p)
    PROVE  Types'
<1>1. l' \in LoggerFields
  BY DEF Types, LoggerFields, Refused
<1>2. QueueTypes'
  BY Roles, SMTT(40)
  DEF Types, QueueTypes, QueueFields, Positions, Capacity, PcTypes, Refused, Go
<1>3. PcTypes'
  <2>1. Go(p, "format") \/ Go(p, "idle")
    BY DEF Refused
  <2> QED
    BY <2>1, Roles DEF Types, PcTypes, Labels, Go
<1>6. CallsBegun'
  BY Roles DEF Types, CallsBegun, PcTypes, Borrowers, Refused, Go, At
<1>4. LocalTypes'
  BY Roles DEF Types, LocalTypes, Refused, Answer
<1>5. SharedTypes'
  BY Roles, RecordType, BatchType, MutexTypes
  DEF Types, SharedTypes, Refused, outputs, promises, At
<1>7. Building'
  <2>1. pc'[Host] = "create" => pc[Host] = "create"
    BY Roles DEF Types, PcTypes, Refused, Go
  <2>2. l'.built = l.built /\ l'.async_mode = l.async_mode
    BY DEF Types, LoggerFields, Refused
  <2> QED
    BY <2>1, <2>2, BuildingFrame
<1> QED
  BY <1>1, <1>2, <1>3, <1>4, <1>5, <1>6, <1>7 DEF Types

\* Publish keeps the types.
LEMMA PublishTypes ==
    ASSUME Types, NEW p \in Producers, Publish(p)
    PROVE  Types'
<1>1. l' \in LoggerFields
  BY DEF Types, LoggerFields, Publish
<1>2. QueueTypes'
  <2>1. q \in QueueFields
    BY DEF Types, QueueTypes
  <2>2. /\ q.cap \in Nat /\ q.fifo \in Seq(Records) /\ Len(q.fifo) \in Nat
        /\ q.published \subseteq Nat /\ q.dequeue_pos \in Nat /\ q.wait_mu_error \in BOOLEAN
    BY <2>1, QueueFieldTypes

  <2>3. slot[p] \in Positions
    BY DEF Types, QueueTypes, Publish, At
  <2> DEFINE S == q.published \cup {slot[p]}
  <2>4. S \in SUBSET Nat /\ S \subseteq Positions
    BY <2>2, <2>3 DEF Types, QueueTypes, Positions
  <2>5. q' = [q EXCEPT !.published = S]
    BY DEF Publish
  <2>6. pc' = [pc EXCEPT ![p] = "probe"] /\ slot' = slot /\ batch' = batch
    BY DEF Publish, Go, locals
  <2> HIDE DEF S
  <2>7. q' \in QueueFields
    BY <2>1, <2>4, <2>5, QueueUpdates
  <2>8. q'.cap = q.cap /\ q'.fifo = q.fifo /\ q'.published = S /\ q'.dequeue_pos = q.dequeue_pos
    BY <2>1, <2>5 DEF QueueFields
  <2>9. \A o \in Producers : pc'[o] = "publish" => pc[o] = "publish"
    BY <2>6, Roles DEF Types, PcTypes
  <2> QED
    BY <2>4, <2>6, <2>7, <2>8, <2>9 DEF Types, QueueTypes, Positions, Capacity
<1>3. PcTypes'
  BY Roles DEF Types, PcTypes, Labels, Publish, Go
<1>6. CallsBegun'
  BY Roles DEF Types, CallsBegun, PcTypes, Borrowers, Publish, Go, locals, At
<1>4. LocalTypes'
  BY Roles DEF Types, LocalTypes, Publish, locals
<1>5. SharedTypes'
  BY Roles, RecordType, BatchType, MutexTypes
  DEF Types, SharedTypes, Publish, outputs, promises, At
<1>7. Building'
  <2>1. pc'[Host] = "create" => pc[Host] = "create"
    BY Roles DEF Types, PcTypes, Publish, Go
  <2>2. l'.built = l.built /\ l'.async_mode = l.async_mode
    BY DEF Types, LoggerFields, Publish
  <2> QED
    BY <2>1, <2>2, BuildingFrame
<1> QED
  BY <1>1, <1>2, <1>3, <1>4, <1>5, <1>6, <1>7 DEF Types

\* Probe keeps the types.
LEMMA ProbeTypes ==
    ASSUME Types, NEW p \in Producers, Probe(p)
    PROVE  Types'
<1>1. l' \in LoggerFields
  BY DEF Types, LoggerFields, Probe
<1>2. QueueTypes'
  BY Roles DEF Types, QueueTypes, QueueFields, Positions, Capacity, PcTypes, Probe, Go
<1>3. PcTypes'
  BY Roles DEF Types, PcTypes, Labels, Probe, Go
<1>6. CallsBegun'
  BY Roles DEF Types, CallsBegun, PcTypes, Borrowers, Probe, Go, At
<1>4. LocalTypes'
  BY Roles DEF Types, LocalTypes, Probe, Answer, Accept
<1>5. SharedTypes'
  BY Roles, RecordType, BatchType, MutexTypes
  DEF Types, SharedTypes, Probe, Accept, outputs, At
<1>7. Building'
  <2>1. pc'[Host] = "create" => pc[Host] = "create"
    BY Roles DEF Types, PcTypes, Probe, Go
  <2>2. l'.built = l.built /\ l'.async_mode = l.async_mode
    BY DEF Types, LoggerFields, Probe
  <2> QED
    BY <2>1, <2>2, BuildingFrame
<1> QED
  BY <1>1, <1>2, <1>3, <1>4, <1>5, <1>6, <1>7 DEF Types

\* NotifyLock keeps the types.
LEMMA NotifyLockTypes ==
    ASSUME Types, NEW p \in Producers, NotifyLock(p)
    PROVE  Types'
<1>1. l' \in LoggerFields
  <2>1. l \in LoggerFields
    BY DEF Types

  <2> DEFINE n == l.enqueued + 1
  <2>2. n \in Nat
    BY <2>1, LoggerFieldTypes
  <2>3. l' = l \/ l' = [l EXCEPT !.enqueued = n, !.first_error = TRUE]
    BY DEF NotifyLock
  <2> HIDE DEF n
  <2> QED
    BY <2>1, <2>2, <2>3, LoggerUpdates
<1>2. QueueTypes'
  BY Roles
  DEF Types, QueueTypes, QueueFields, Positions, Capacity, PcTypes, NotifyLock, Go, locals
<1>3. PcTypes'
  BY Roles DEF Types, PcTypes, Labels, NotifyLock, Go
<1>6. CallsBegun'
  BY Roles DEF Types, CallsBegun, PcTypes, Borrowers, NotifyLock, Go, locals, At
<1>4. LocalTypes'
  BY Roles, MeetType DEF Types, LocalTypes, NotifyLock, Note, locals
<1>5. SharedTypes'
  BY Roles, RecordType, BatchType, MutexTypes
  DEF Types, SharedTypes, NotifyLock, Lock, outputs, promises, At
<1>7. Building'
  <2>1. pc'[Host] = "create" => pc[Host] = "create"
    BY Roles DEF Types, PcTypes, NotifyLock, Go
  <2>2. l'.built = l.built /\ l'.async_mode = l.async_mode
    BY DEF Types, LoggerFields, NotifyLock
  <2> QED
    BY <2>1, <2>2, BuildingFrame
<1> QED
  BY <1>1, <1>2, <1>3, <1>4, <1>5, <1>6, <1>7 DEF Types

\* Notify keeps the types.
LEMMA NotifyTypes ==
    ASSUME Types, NEW p \in Producers, Notify(p)
    PROVE  Types'
<1>1. l' \in LoggerFields
  <2>1. l \in LoggerFields
    BY DEF Types

  <2>2. PICK hit \in SUBSET {<<"cond_signal", "wait_cv">>, <<"unlock", "wait_mu">>} :
           l' = [l EXCEPT !.enqueued = @ + 1, !.first_error = @ \/ hit # {}]
    BY DEF Notify
  <2> DEFINE n == l.enqueued + 1
             b == l.first_error \/ hit # {}
  <2>3. n \in Nat /\ b \in BOOLEAN
    BY <2>1, LoggerFieldTypes
  <2>4. l' = [l EXCEPT !.enqueued = n, !.first_error = b]
    BY <2>2
  <2> HIDE DEF n, b
  <2> QED
    BY <2>1, <2>3, <2>4, LoggerUpdates
<1>2. QueueTypes'
  <2>1. q \in QueueFields
    BY DEF Types, QueueTypes
  <2>2. /\ q.cap \in Nat /\ q.fifo \in Seq(Records) /\ Len(q.fifo) \in Nat
        /\ q.published \subseteq Nat /\ q.dequeue_pos \in Nat /\ q.wait_mu_error \in BOOLEAN
    BY <2>1, QueueFieldTypes

  <2>3. PICK hit : q' = [q EXCEPT !.consumer_waiting = FALSE,
                                  !.wait_mu_error = @ \/ <<"unlock", "wait_mu">> \in hit]
    BY DEF Notify
  <2> DEFINE b == q.wait_mu_error \/ <<"unlock", "wait_mu">> \in hit
  <2>4. b \in BOOLEAN
    BY <2>2
  <2>5. q' = [q EXCEPT !.consumer_waiting = FALSE, !.wait_mu_error = b]
    BY <2>3
  <2> HIDE DEF b
  <2>6. q' \in QueueFields
    BY <2>1, <2>4, <2>5, QueueUpdates
  <2>7. /\ q'.cap = q.cap /\ q'.fifo = q.fifo /\ q'.published = q.published
        /\ q'.dequeue_pos = q.dequeue_pos
    BY <2>1, <2>5 DEF QueueFields
  <2>8. slot' = slot /\ batch' = batch /\ batch \in Nat
    BY DEF Notify, Types, QueueTypes
  <2>9. \A o \in Producers : pc'[o] = "publish" => pc[o] = "publish"
    BY Roles DEF Types, PcTypes, Notify, Go
  <2> QED
    BY <2>6, <2>7, <2>8, <2>9, QueueTypesFrame
<1>3. PcTypes'
  BY Roles DEF Types, PcTypes, Labels, Notify, Go
<1>6. CallsBegun'
  BY Roles DEF Types, CallsBegun, PcTypes, Borrowers, Notify, Go, At
<1>4. LocalTypes'
  BY Roles, MeetType DEF Types, LocalTypes, Notify, Note, NoteIf, Answer, Accept
<1>5. SharedTypes'
  BY Roles, RecordType, BatchType, MutexTypes, UnlockTypes
  DEF Types, SharedTypes, Notify, Accept, outputs, At
<1>7. Building'
  <2>1. pc'[Host] = "create" => pc[Host] = "create"
    BY Roles DEF Types, PcTypes, Notify, Go
  <2>2. l'.built = l.built /\ l'.async_mode = l.async_mode
    BY DEF Types, LoggerFields, Notify
  <2> QED
    BY <2>1, <2>2, BuildingFrame
<1> QED
  BY <1>1, <1>2, <1>3, <1>4, <1>5, <1>6, <1>7 DEF Types

\* PushFailed keeps the types.
LEMMA PushFailedTypes ==
    ASSUME Types, NEW p \in Producers, PushFailed(p)
    PROVE  Types'
<1>1. l' \in LoggerFields
  BY DEF Types, LoggerFields, PushFailed
<1>2. QueueTypes'
  BY Roles DEF Types, QueueTypes, QueueFields, Positions, Capacity, PcTypes, PushFailed, Go
<1>3. PcTypes'
  BY Roles DEF Types, PcTypes, Labels, PushFailed, Go
<1>6. CallsBegun'
  BY Roles DEF Types, CallsBegun, PcTypes, Borrowers, PushFailed, Go, At
<1>4. LocalTypes'
  BY Roles DEF Types, LocalTypes, PushFailed, Note, Answer
<1>5. SharedTypes'
  BY Roles, RecordType, BatchType, MutexTypes
  DEF Types, SharedTypes, PushFailed, outputs, promises, At
<1>7. Building'
  <2>1. pc'[Host] = "create" => pc[Host] = "create"
    BY Roles DEF Types, PcTypes, PushFailed, Go
  <2>2. l'.built = l.built /\ l'.async_mode = l.async_mode
    BY DEF Types, LoggerFields, PushFailed
  <2> QED
    BY <2>1, <2>2, BuildingFrame
<1> QED
  BY <1>1, <1>2, <1>3, <1>4, <1>5, <1>6, <1>7 DEF Types

\* FormatStatus keeps the types.
LEMMA FormatStatusTypes ==
    ASSUME Types, NEW p \in Producers, FormatStatus(p)
    PROVE  Types'
<1>1. l' \in LoggerFields
  <2>1. l \in LoggerFields
    BY DEF Types

  <2> DEFINE n == l.sync_completed + 1
  <2>2. n \in Nat
    BY <2>1, LoggerFieldTypes
  <2>3. l' = l \/ l' = [l EXCEPT !.first_error = TRUE, !.sync_completed = n]
    BY DEF FormatStatus, Unsent
  <2> HIDE DEF n
  <2> QED
    BY <2>1, <2>2, <2>3, LoggerUpdates
<1>2. QueueTypes'
  BY Roles
  DEF Types, QueueTypes, QueueFields, Positions, Capacity, PcTypes, FormatStatus, Go,
      Unsent
<1>3. PcTypes'
  BY Roles DEF Types, PcTypes, Labels, FormatStatus, Go, Unsent
<1>6. CallsBegun'
  BY Roles DEF Types, CallsBegun, PcTypes, Borrowers, FormatStatus, Go, Unsent, At
<1>4. LocalTypes'
  BY Roles, MeetType DEF Types, LocalTypes, FormatStatus, Answer, Unsent
<1>5. SharedTypes'
  BY Roles, RecordType, BatchType, MutexTypes
  DEF Types, SharedTypes, FormatStatus, Unsent, outputs, promises, At
<1>7. Building'
  <2>1. pc'[Host] = "create" => pc[Host] = "create"
    BY Roles DEF Types, PcTypes, FormatStatus, Go, Unsent
  <2>2. l'.built = l.built /\ l'.async_mode = l.async_mode
    BY DEF Types, LoggerFields, FormatStatus, Unsent
  <2> QED
    BY <2>1, <2>2, BuildingFrame
<1> QED
  BY <1>1, <1>2, <1>3, <1>4, <1>5, <1>6, <1>7 DEF Types

\* EmitCheck keeps the types.
LEMMA EmitCheckTypes ==
    ASSUME Types, NEW p \in Producers, EmitCheck(p)
    PROVE  Types'
<1>1. l' \in LoggerFields
  <2>1. l \in LoggerFields
    BY DEF Types

  <2> DEFINE n == l.sync_completed + 1
  <2>2. n \in Nat
    BY <2>1, LoggerFieldTypes
  <2>3. l' = l \/ l' = [l EXCEPT !.first_error = TRUE, !.sync_completed = n]
    BY DEF EmitCheck, Unsent
  <2> HIDE DEF n
  <2> QED
    BY <2>1, <2>2, <2>3, LoggerUpdates
<1>2. QueueTypes'
  BY Roles
  DEF Types, QueueTypes, QueueFields, Positions, Capacity, PcTypes, EmitCheck, Go, Unsent
<1>3. PcTypes'
  BY Roles DEF Types, PcTypes, Labels, EmitCheck, Go, Unsent
<1>6. CallsBegun'
  BY Roles DEF Types, CallsBegun, PcTypes, Borrowers, EmitCheck, Go, Unsent, At
<1>4. LocalTypes'
  BY Roles DEF Types, LocalTypes, EmitCheck, Answer, Unsent
<1>5. SharedTypes'
  BY Roles, RecordType, BatchType, MutexTypes
  DEF Types, SharedTypes, EmitCheck, Unsent, outputs, promises, At
<1>7. Building'
  <2>1. pc'[Host] = "create" => pc[Host] = "create"
    BY Roles DEF Types, PcTypes, EmitCheck, Go, Unsent
  <2>2. l'.built = l.built /\ l'.async_mode = l.async_mode
    BY DEF Types, LoggerFields, EmitCheck, Unsent
  <2> QED
    BY <2>1, <2>2, BuildingFrame
<1> QED
  BY <1>1, <1>2, <1>3, <1>4, <1>5, <1>6, <1>7 DEF Types

\* EmitLock keeps the types.
LEMMA EmitLockTypes ==
    ASSUME Types, NEW p \in Producers, EmitLock(p)
    PROVE  Types'
<1>1. l' \in LoggerFields
  <2>1. l \in LoggerFields
    BY DEF Types

  <2> DEFINE n == l.sync_completed + 1
  <2>2. n \in Nat
    BY <2>1, LoggerFieldTypes
  <2>3. l' = l \/ l' = [l EXCEPT !.first_error = TRUE, !.sync_completed = n]
    BY DEF EmitLock, Unsent
  <2> HIDE DEF n
  <2> QED
    BY <2>1, <2>2, <2>3, LoggerUpdates
<1>2. QueueTypes'
  BY Roles
  DEF Types, QueueTypes, QueueFields, Positions, Capacity, PcTypes, EmitLock, Go, Unsent
<1>3. PcTypes'
  BY Roles DEF Types, PcTypes, Labels, EmitLock, Go, Unsent
<1>6. CallsBegun'
  BY Roles DEF Types, CallsBegun, PcTypes, Borrowers, EmitLock, Go, Unsent, At
<1>4. LocalTypes'
  BY Roles, MeetType DEF Types, LocalTypes, EmitLock, Answer, Unsent
<1>5. SharedTypes'
  BY Roles, RecordType, BatchType, MutexTypes
  DEF Types, SharedTypes, EmitLock, Lock, Unsent, outputs, promises, At
<1>7. Building'
  <2>1. pc'[Host] = "create" => pc[Host] = "create"
    BY Roles DEF Types, PcTypes, EmitLock, Go, Unsent
  <2>2. l'.built = l.built /\ l'.async_mode = l.async_mode
    BY DEF Types, LoggerFields, EmitLock, Unsent
  <2> QED
    BY <2>1, <2>2, BuildingFrame
<1> QED
  BY <1>1, <1>2, <1>3, <1>4, <1>5, <1>6, <1>7 DEF Types

\* EmitStatus keeps the types.
LEMMA EmitStatusTypes ==
    ASSUME Types, NEW p \in Producers, EmitStatus(p)
    PROVE  Types'
<1>1. l' \in LoggerFields
  <2>1. l \in LoggerFields
    BY DEF Types

  <2>2. PICK hit \in SUBSET {<<"io", "write">>, <<"io", "fsync">>, <<"unlock", "emit_mu">>} :
           l' = [l EXCEPT !.first_error = @ \/ hit # {}, !.sync_completed = @ + 1]
    BY DEF EmitStatus
  <2> DEFINE n == l.sync_completed + 1
             b == l.first_error \/ hit # {}
  <2>3. n \in Nat /\ b \in BOOLEAN
    BY <2>1, LoggerFieldTypes
  <2>4. l' = [l EXCEPT !.first_error = b, !.sync_completed = n]
    BY <2>2
  <2> HIDE DEF n, b
  <2> QED
    BY <2>1, <2>3, <2>4, LoggerUpdates
<1>2. QueueTypes'
  BY Roles DEF Types, QueueTypes, QueueFields, Positions, Capacity, PcTypes, EmitStatus, Go
<1>3. PcTypes'
  BY Roles DEF Types, PcTypes, Labels, EmitStatus, Go
<1>6. CallsBegun'
  BY Roles DEF Types, CallsBegun, PcTypes, Borrowers, EmitStatus, Go, At
<1>4. LocalTypes'
  BY Roles, MeetType DEF Types, LocalTypes, EmitStatus, Note, NoteIf, Answer, Accept
<1>5. SharedTypes'
  BY Roles, RecordType, BatchType, MutexTypes, UnlockTypes
  DEF Types, SharedTypes, EmitStatus, StillWritten, Accept, At
<1>7. Building'
  <2>1. pc'[Host] = "create" => pc[Host] = "create"
    BY Roles DEF Types, PcTypes, EmitStatus, Go
  <2>2. l'.built = l.built /\ l'.async_mode = l.async_mode
    BY DEF Types, LoggerFields, EmitStatus
  <2> QED
    BY <2>1, <2>2, BuildingFrame
<1> QED
  BY <1>1, <1>2, <1>3, <1>4, <1>5, <1>6, <1>7 DEF Types

\* ForceLock keeps the types.
LEMMA ForceLockTypes ==
    ASSUME Types, NEW t \in Producers \cup {Host}, ForceLock(t)
    PROVE  Types'
<1>1. l' \in LoggerFields
  BY DEF Types, LoggerFields, ForceLock
<1>2. QueueTypes'
  BY Roles
  DEF Types, QueueTypes, QueueFields, Positions, Capacity, PcTypes, ForceLock, Go, locals
<1>3. PcTypes'
  BY Roles DEF Types, PcTypes, Labels, ForceLock, Go
<1>6. CallsBegun'
  BY Roles DEF Types, CallsBegun, PcTypes, Borrowers, ForceLock, Go, locals, At
<1>4. LocalTypes'
  BY Roles, MeetType DEF Types, LocalTypes, ForceLock, Note, locals
<1>5. SharedTypes'
  BY Roles, RecordType, BatchType, MutexTypes
  DEF Types, SharedTypes, ForceLock, Lock, outputs, promises, At
<1>7. Building'
  <2>1. pc'[Host] = "create" => pc[Host] = "create"
    BY Roles DEF Types, PcTypes, ForceLock, Go
  <2>2. l'.built = l.built /\ l'.async_mode = l.async_mode
    BY DEF Types, LoggerFields, ForceLock
  <2> QED
    BY <2>1, <2>2, BuildingFrame
<1> QED
  BY <1>1, <1>2, <1>3, <1>4, <1>5, <1>6, <1>7 DEF Types

\* WakeForce keeps the types.
LEMMA WakeForceTypes ==
    ASSUME Types, NEW t \in Producers \cup {Host}, WakeForce(t)
    PROVE  Types'
<1>1. l' \in LoggerFields
  BY DEF Types, LoggerFields, WakeForce
<1>2. QueueTypes'
  <2>1. q \in QueueFields
    BY DEF Types, QueueTypes
  <2>2. /\ q.cap \in Nat /\ q.fifo \in Seq(Records) /\ Len(q.fifo) \in Nat
        /\ q.published \subseteq Nat /\ q.dequeue_pos \in Nat /\ q.wait_mu_error \in BOOLEAN
    BY <2>1, QueueFieldTypes

  <2>3. PICK hit : q' = [q EXCEPT !.consumer_waiting = FALSE,
                                  !.wait_mu_error = @ \/ <<"unlock", "wait_mu">> \in hit]
    BY DEF WakeForce
  <2> DEFINE b == q.wait_mu_error \/ <<"unlock", "wait_mu">> \in hit
  <2>4. b \in BOOLEAN
    BY <2>2
  <2>5. q' = [q EXCEPT !.consumer_waiting = FALSE, !.wait_mu_error = b]
    BY <2>3
  <2> HIDE DEF b
  <2>6. q' \in QueueFields
    BY <2>1, <2>4, <2>5, QueueUpdates
  <2>7. /\ q'.cap = q.cap /\ q'.fifo = q.fifo /\ q'.published = q.published
        /\ q'.dequeue_pos = q.dequeue_pos
    BY <2>1, <2>5 DEF QueueFields
  <2>8. slot' = slot /\ batch' = batch /\ batch \in Nat
    BY DEF WakeForce, Types, QueueTypes
  <2>9. \A o \in Producers : pc'[o] = "publish" => pc[o] = "publish"
    BY Roles DEF Types, PcTypes, WakeForce, Go
  <2> QED
    BY <2>6, <2>7, <2>8, <2>9, QueueTypesFrame
<1>3. PcTypes'
  BY Roles DEF Types, PcTypes, Labels, WakeForce, Go
<1>6. CallsBegun'
  BY Roles DEF Types, CallsBegun, PcTypes, Borrowers, WakeForce, Go, At
<1>4. LocalTypes'
  BY Roles, MeetType DEF Types, LocalTypes, WakeForce, Note, NoteIf
<1>5. SharedTypes'
  BY Roles, RecordType, BatchType, MutexTypes, UnlockTypes
  DEF Types, SharedTypes, WakeForce, outputs, promises, At
<1>7. Building'
  <2>1. pc'[Host] = "create" => pc[Host] = "create"
    BY Roles DEF Types, PcTypes, WakeForce, Go
  <2>2. l'.built = l.built /\ l'.async_mode = l.async_mode
    BY DEF Types, LoggerFields, WakeForce
  <2> QED
    BY <2>1, <2>2, BuildingFrame
<1> QED
  BY <1>1, <1>2, <1>3, <1>4, <1>5, <1>6, <1>7 DEF Types

\* ForceFailed keeps the types.
LEMMA ForceFailedTypes ==
    ASSUME Types, NEW t \in Producers \cup {Host}, ForceFailed(t)
    PROVE  Types'
<1>1. l' \in LoggerFields
  BY DEF Types, LoggerFields, ForceFailed
<1>2. QueueTypes'
  BY Roles DEF Types, QueueTypes, QueueFields, Positions, Capacity, PcTypes, ForceFailed, Go
<1>3. PcTypes'
  BY Roles DEF Types, PcTypes, Labels, ForceFailed, Go
<1>6. CallsBegun'
  BY Roles DEF Types, CallsBegun, PcTypes, Borrowers, ForceFailed, Go, At
<1>4. LocalTypes'
  BY Roles DEF Types, LocalTypes, ForceFailed, Note, NoteIf
<1>5. SharedTypes'
  BY Roles, RecordType, BatchType, MutexTypes
  DEF Types, SharedTypes, ForceFailed, outputs, promises, At
<1>7. Building'
  <2>1. pc'[Host] = "create" => pc[Host] = "create"
    BY Roles DEF Types, PcTypes, ForceFailed, Go
  <2>2. l'.built = l.built /\ l'.async_mode = l.async_mode
    BY DEF Types, LoggerFields, ForceFailed
  <2> QED
    BY <2>1, <2>2, BuildingFrame
<1> QED
  BY <1>1, <1>2, <1>3, <1>4, <1>5, <1>6, <1>7 DEF Types

\* EnterFlush keeps the types.
LEMMA EnterFlushTypes ==
    ASSUME Types, NEW f \in Flushers, EnterFlush(f)
    PROVE  Types'
<1>1. l' \in LoggerFields
  BY DEF Types, LoggerFields, EnterFlush
<1>2. QueueTypes'
  BY Roles DEF Types, QueueTypes, QueueFields, Positions, Capacity, PcTypes, EnterFlush, Go
<1>3. PcTypes'
  BY Roles DEF Types, PcTypes, Labels, EnterFlush, Go
<1>6. CallsBegun'
  <2>1. calls[f] \in 0..MaxCalls /\ calls[f] < MaxCalls
    BY Roles DEF Types, LocalTypes, EnterFlush
  <2>2. calls[f] + 1 \in 1..MaxCalls
    BY <2>1, SizesAssumption
  <2>3. calls' = [calls EXCEPT ![f] = calls[f] + 1]
    BY DEF EnterFlush
  <2>4. calls'[f] \in 1..MaxCalls /\ \A b \in Borrowers : b # f => calls'[b] = calls[b]
    BY <2>2, <2>3, Roles DEF Types, LocalTypes
  <2>5. \A b \in Borrowers : b # f => pc'[b] = pc[b]
    BY Roles DEF Types, PcTypes, EnterFlush, Go, Borrowers
  <2> QED
    BY <2>4, <2>5 DEF Types, CallsBegun
<1>4. LocalTypes'
  <2>1. calls[f] \in 0..MaxCalls /\ calls[f] < MaxCalls
    BY Roles DEF Types, LocalTypes, EnterFlush
  <2>2. calls[f] + 1 \in 0..MaxCalls
    BY <2>1, SizesAssumption
  <2>3. calls' = [calls EXCEPT ![f] = calls[f] + 1]
    BY DEF EnterFlush
  <2>4. calls' \in [Borrowers -> 0..MaxCalls]
    BY <2>2, <2>3 DEF Types, LocalTypes
  <2> QED
    BY <2>4, Roles, ModeAssumption DEF Types, LocalTypes, EnterFlush, Answer
<1>5. SharedTypes'
  BY Roles, RecordType, BatchType, MutexTypes DEF Types, SharedTypes, EnterFlush, outputs, At
<1>7. Building'
  <2>1. pc'[Host] = "create" => pc[Host] = "create"
    BY Roles DEF Types, PcTypes, EnterFlush, Go
  <2>2. l'.built = l.built /\ l'.async_mode = l.async_mode
    BY DEF Types, LoggerFields, EnterFlush
  <2> QED
    BY <2>1, <2>2, BuildingFrame
<1> QED
  BY <1>1, <1>2, <1>3, <1>4, <1>5, <1>6, <1>7 DEF Types

\* FlushCheck keeps the types.
LEMMA FlushCheckTypes ==
    ASSUME Types, NEW f \in Flushers, FlushCheck(f)
    PROVE  Types'
<1>1. l' \in LoggerFields
  BY DEF Types, LoggerFields, FlushCheck
<1>2. QueueTypes'
  BY Roles DEF Types, QueueTypes, QueueFields, Positions, Capacity, PcTypes, FlushCheck, Go
<1>3. PcTypes'
  BY Roles DEF Types, PcTypes, Labels, FlushCheck, Go
<1>6. CallsBegun'
  BY Roles DEF Types, CallsBegun, PcTypes, Borrowers, FlushCheck, Go, At
<1>4. LocalTypes'
  BY Roles DEF Types, LocalTypes, FlushCheck, Answer
<1>5. SharedTypes'
  BY Roles, RecordType, BatchType, MutexTypes
  DEF Types, SharedTypes, FlushCheck, outputs, promises, At
<1>7. Building'
  <2>1. pc'[Host] = "create" => pc[Host] = "create"
    BY Roles DEF Types, PcTypes, FlushCheck, Go
  <2>2. l'.built = l.built /\ l'.async_mode = l.async_mode
    BY DEF Types, LoggerFields, FlushCheck
  <2> QED
    BY <2>1, <2>2, BuildingFrame
<1> QED
  BY <1>1, <1>2, <1>3, <1>4, <1>5, <1>6, <1>7 DEF Types

\* FlushTarget keeps the types.
LEMMA FlushTargetTypes ==
    ASSUME Types, NEW f \in Flushers, FlushTarget(f)
    PROVE  Types'
<1>1. l' \in LoggerFields
  BY DEF Types, LoggerFields, FlushTarget
<1>2. QueueTypes'
  BY Roles DEF Types, QueueTypes, QueueFields, Positions, Capacity, PcTypes, FlushTarget, Go
<1>3. PcTypes'
  BY Roles DEF Types, PcTypes, Labels, FlushTarget, Go
<1>6. CallsBegun'
  BY Roles DEF Types, CallsBegun, PcTypes, Borrowers, FlushTarget, Go, At
<1>4. LocalTypes'
  BY Roles DEF Types, LocalTypes, FlushTarget
<1>5. SharedTypes'
  BY Roles, RecordType, BatchType, MutexTypes
  DEF Types, SharedTypes, FlushTarget, outputs, promises, At
<1>7. Building'
  <2>1. pc'[Host] = "create" => pc[Host] = "create"
    BY Roles DEF Types, PcTypes, FlushTarget, Go
  <2>2. l'.built = l.built /\ l'.async_mode = l.async_mode
    BY DEF Types, LoggerFields, FlushTarget
  <2> QED
    BY <2>1, <2>2, BuildingFrame
<1> QED
  BY <1>1, <1>2, <1>3, <1>4, <1>5, <1>6, <1>7 DEF Types

\* FlushLock keeps the types.
LEMMA FlushLockTypes ==
    ASSUME Types, NEW f \in Flushers, FlushLock(f)
    PROVE  Types'
<1>1. l' \in LoggerFields
  BY DEF Types, LoggerFields, FlushLock
<1>2. QueueTypes'
  BY Roles DEF Types, QueueTypes, QueueFields, Positions, Capacity, PcTypes, FlushLock, Go
<1>3. PcTypes'
  BY Roles DEF Types, PcTypes, Labels, FlushLock, Go
<1>6. CallsBegun'
  BY Roles DEF Types, CallsBegun, PcTypes, Borrowers, FlushLock, Go, At
<1>4. LocalTypes'
  BY Roles, MeetType DEF Types, LocalTypes, FlushLock, Answer
<1>5. SharedTypes'
  BY Roles, RecordType, BatchType, MutexTypes
  DEF Types, SharedTypes, FlushLock, Lock, outputs, promises, At
<1>7. Building'
  <2>1. pc'[Host] = "create" => pc[Host] = "create"
    BY Roles DEF Types, PcTypes, FlushLock, Go
  <2>2. l'.built = l.built /\ l'.async_mode = l.async_mode
    BY DEF Types, LoggerFields, FlushLock
  <2> QED
    BY <2>1, <2>2, BuildingFrame
<1> QED
  BY <1>1, <1>2, <1>3, <1>4, <1>5, <1>6, <1>7 DEF Types

\* FlushTest keeps the types.
LEMMA FlushTestTypes ==
    ASSUME Types, NEW f \in Flushers, FlushTest(f)
    PROVE  Types'
<1>1. l' \in LoggerFields
  BY DEF Types, LoggerFields, FlushTest
<1>2. QueueTypes'
  BY Roles DEF Types, QueueTypes, QueueFields, Positions, Capacity, PcTypes, FlushTest, Go
<1>3. PcTypes'
  BY Roles DEF Types, PcTypes, Labels, FlushTest, Go
<1>6. CallsBegun'
  BY Roles DEF Types, CallsBegun, PcTypes, Borrowers, FlushTest, Go, At
<1>4. LocalTypes'
  BY Roles, MeetType DEF Types, LocalTypes, FlushTest, Note, NoteIf, Answer
<1>5. SharedTypes'
  BY Roles, RecordType, BatchType, MutexTypes, UnlockTypes
  DEF Types, SharedTypes, FlushTest, outputs, promises, At
<1>7. Building'
  <2>1. pc'[Host] = "create" => pc[Host] = "create"
    BY Roles DEF Types, PcTypes, FlushTest, Go
  <2>2. l'.built = l.built /\ l'.async_mode = l.async_mode
    BY DEF Types, LoggerFields, FlushTest
  <2> QED
    BY <2>1, <2>2, BuildingFrame
<1> QED
  BY <1>1, <1>2, <1>3, <1>4, <1>5, <1>6, <1>7 DEF Types

\* FlushAwake keeps the types.
LEMMA FlushAwakeTypes ==
    ASSUME Types, NEW f \in Flushers, FlushAwake(f)
    PROVE  Types'
<1>1. l' \in LoggerFields
  BY DEF Types, LoggerFields, FlushAwake
<1>2. QueueTypes'
  BY Roles
  DEF Types, QueueTypes, QueueFields, Positions, Capacity, PcTypes, FlushAwake, Go, locals
<1>3. PcTypes'
  BY Roles DEF Types, PcTypes, Labels, FlushAwake, Go
<1>6. CallsBegun'
  BY Roles DEF Types, CallsBegun, PcTypes, Borrowers, FlushAwake, Go, locals, At
<1>4. LocalTypes'
  BY Roles DEF Types, LocalTypes, FlushAwake, locals
<1>5. SharedTypes'
  BY Roles, RecordType, BatchType, MutexTypes
  DEF Types, SharedTypes, FlushAwake, Lock, outputs, promises, At
<1>7. Building'
  <2>1. pc'[Host] = "create" => pc[Host] = "create"
    BY Roles DEF Types, PcTypes, FlushAwake, Go
  <2>2. l'.built = l.built /\ l'.async_mode = l.async_mode
    BY DEF Types, LoggerFields, FlushAwake
  <2> QED
    BY <2>1, <2>2, BuildingFrame
<1> QED
  BY <1>1, <1>2, <1>3, <1>4, <1>5, <1>6, <1>7 DEF Types

\* FlushError keeps the types.
LEMMA FlushErrorTypes ==
    ASSUME Types, NEW f \in Flushers, FlushError(f)
    PROVE  Types'
<1>1. l' \in LoggerFields
  BY DEF Types, LoggerFields, FlushError
<1>2. QueueTypes'
  BY Roles DEF Types, QueueTypes, QueueFields, Positions, Capacity, PcTypes, FlushError, Go
<1>3. PcTypes'
  BY Roles DEF Types, PcTypes, Labels, FlushError, Go
<1>6. CallsBegun'
  BY Roles DEF Types, CallsBegun, PcTypes, Borrowers, FlushError, Go, At
<1>4. LocalTypes'
  BY Roles DEF Types, LocalTypes, FlushError, Answer
<1>5. SharedTypes'
  BY Roles, RecordType, BatchType, MutexTypes
  DEF Types, SharedTypes, FlushError, outputs, promises, At
<1>7. Building'
  <2>1. pc'[Host] = "create" => pc[Host] = "create"
    BY Roles DEF Types, PcTypes, FlushError, Go
  <2>2. l'.built = l.built /\ l'.async_mode = l.async_mode
    BY DEF Types, LoggerFields, FlushError
  <2> QED
    BY <2>1, <2>2, BuildingFrame
<1> QED
  BY <1>1, <1>2, <1>3, <1>4, <1>5, <1>6, <1>7 DEF Types

\* SyncCheck keeps the types.
LEMMA SyncCheckTypes ==
    ASSUME Types, NEW f \in Flushers, SyncCheck(f)
    PROVE  Types'
<1>1. l' \in LoggerFields
  BY DEF Types, LoggerFields, SyncCheck
<1>2. QueueTypes'
  BY Roles DEF Types, QueueTypes, QueueFields, Positions, Capacity, PcTypes, SyncCheck, Go
<1>3. PcTypes'
  BY Roles DEF Types, PcTypes, Labels, SyncCheck, Go
<1>6. CallsBegun'
  BY Roles DEF Types, CallsBegun, PcTypes, Borrowers, SyncCheck, Go, At
<1>4. LocalTypes'
  BY Roles DEF Types, LocalTypes, SyncCheck, Answer
<1>5. SharedTypes'
  BY Roles, RecordType, BatchType, MutexTypes
  DEF Types, SharedTypes, SyncCheck, outputs, promises, At
<1>7. Building'
  <2>1. pc'[Host] = "create" => pc[Host] = "create"
    BY Roles DEF Types, PcTypes, SyncCheck, Go
  <2>2. l'.built = l.built /\ l'.async_mode = l.async_mode
    BY DEF Types, LoggerFields, SyncCheck
  <2> QED
    BY <2>1, <2>2, BuildingFrame
<1> QED
  BY <1>1, <1>2, <1>3, <1>4, <1>5, <1>6, <1>7 DEF Types

\* SyncLock keeps the types.
LEMMA SyncLockTypes ==
    ASSUME Types, NEW f \in Flushers, SyncLock(f)
    PROVE  Types'
<1>1. l' \in LoggerFields
  BY DEF Types, LoggerFields, SyncLock
<1>2. QueueTypes'
  BY Roles DEF Types, QueueTypes, QueueFields, Positions, Capacity, PcTypes, SyncLock, Go
<1>3. PcTypes'
  BY Roles DEF Types, PcTypes, Labels, SyncLock, Go
<1>6. CallsBegun'
  BY Roles DEF Types, CallsBegun, PcTypes, Borrowers, SyncLock, Go, At
<1>4. LocalTypes'
  BY Roles, MeetType DEF Types, LocalTypes, SyncLock, Answer
<1>5. SharedTypes'
  BY Roles, RecordType, BatchType, MutexTypes
  DEF Types, SharedTypes, SyncLock, Lock, outputs, promises, At
<1>7. Building'
  <2>1. pc'[Host] = "create" => pc[Host] = "create"
    BY Roles DEF Types, PcTypes, SyncLock, Go
  <2>2. l'.built = l.built /\ l'.async_mode = l.async_mode
    BY DEF Types, LoggerFields, SyncLock
  <2> QED
    BY <2>1, <2>2, BuildingFrame
<1> QED
  BY <1>1, <1>2, <1>3, <1>4, <1>5, <1>6, <1>7 DEF Types

\* Sync keeps the types.
LEMMA SyncTypes ==
    ASSUME Types, NEW f \in Flushers, Sync(f)
    PROVE  Types'
<1>1. l' \in LoggerFields
  BY DEF Types, LoggerFields, Sync, SyncOutputs
<1>2. QueueTypes'
  BY Roles DEF Types, QueueTypes, QueueFields, Positions, Capacity, PcTypes, Sync, Go
<1>3. PcTypes'
  BY Roles DEF Types, PcTypes, Labels, Sync, Go
<1>6. CallsBegun'
  BY Roles DEF Types, CallsBegun, PcTypes, Borrowers, Sync, Go, At
<1>4. LocalTypes'
  BY Roles, MeetType DEF Types, LocalTypes, Sync, Note, NoteIf, SyncOutputs
<1>5. SharedTypes'
  BY Roles, RecordType, BatchType, MutexTypes, UnlockTypes
  DEF Types, SharedTypes, Sync, SyncOutputs, StillWritten, promises, At
<1>7. Building'
  <2>1. pc'[Host] = "create" => pc[Host] = "create"
    BY Roles DEF Types, PcTypes, Sync, Go
  <2>2. l'.built = l.built /\ l'.async_mode = l.async_mode
    BY DEF Types, LoggerFields, Sync, SyncOutputs
  <2> QED
    BY <2>1, <2>2, BuildingFrame
<1> QED
  BY <1>1, <1>2, <1>3, <1>4, <1>5, <1>6, <1>7 DEF Types

\* Drain keeps the types.
LEMMA DrainTypes ==
    ASSUME Types, Drain
    PROVE  Types'
<1>1. l' \in LoggerFields
  BY DEF Types, LoggerFields, Drain
<1>2. QueueTypes'
  <2>1. q \in QueueFields
    BY DEF Types, QueueTypes
  <2>2. /\ q.cap \in Nat /\ q.fifo \in Seq(Records) /\ Len(q.fifo) \in Nat
        /\ q.published \subseteq Nat /\ q.dequeue_pos \in Nat /\ q.wait_mu_error \in BOOLEAN
    BY <2>1, QueueFieldTypes

  <2>3. batch \in Nat /\ batch <= q.dequeue_pos /\ q.published \subseteq Positions
        /\ Len(q.fifo) <= q.dequeue_pos + q.cap
    BY DEF Types, QueueTypes
  <2>4. batch < Capacity /\ q.dequeue_pos + 1 \in q.published /\ batch' = batch + 1
        /\ pc' = pc /\ slot' = slot
    BY DEF Drain, QueueEmpty
  <2>5. q.dequeue_pos + 1 <= Len(q.fifo)
    BY <2>2, <2>3, <2>4 DEF Positions
  <2> DEFINE n == q.dequeue_pos + 1
  <2>6. n \in Nat /\ q' = [q EXCEPT !.dequeue_pos = n]
    BY <2>2 DEF Drain
  <2> HIDE DEF n
  <2>7. q' \in QueueFields
    BY <2>1, <2>6, QueueUpdates
  <2>8. q'.cap = q.cap /\ q'.fifo = q.fifo /\ q'.published = q.published /\ q'.dequeue_pos = n
    BY <2>1, <2>6 DEF QueueFields
  <2>9. Capacity' = Capacity /\ Capacity \in Nat /\ Positions' = Positions
    BY <2>2, <2>8, SizesAssumption DEF Capacity, Positions
  <2>10. /\ q'.dequeue_pos <= Len(q'.fifo) /\ Len(q'.fifo) <= q'.dequeue_pos + q'.cap
         /\ batch' \in Nat /\ batch' <= q'.dequeue_pos /\ batch' <= Capacity'
    BY <2>2, <2>3, <2>4, <2>5, <2>8, <2>9 DEF n
  <2> QED
    BY <2>3, <2>4, <2>7, <2>8, <2>9, <2>10 DEF Types, QueueTypes
<1>3. PcTypes'
  BY Roles DEF Types, PcTypes, Labels, Drain
<1>6. CallsBegun'
  BY Roles DEF Types, CallsBegun, PcTypes, Borrowers, Drain, At
<1>4. LocalTypes'
  BY Roles DEF Types, LocalTypes, Drain
<1>5. SharedTypes'
  BY Roles, RecordType, BatchType, MutexTypes
  DEF Types, SharedTypes, Drain, outputs, promises, At
<1>7. Building'
  <2>1. pc'[Host] = "create" => pc[Host] = "create"
    BY Roles DEF Types, PcTypes, Drain
  <2>2. l'.built = l.built /\ l'.async_mode = l.async_mode
    BY DEF Types, LoggerFields, Drain
  <2> QED
    BY <2>1, <2>2, BuildingFrame
<1> QED
  BY <1>1, <1>2, <1>3, <1>4, <1>5, <1>6, <1>7 DEF Types

\* DrainEnd keeps the types.
LEMMA DrainEndTypes ==
    ASSUME Types, DrainEnd
    PROVE  Types'
<1>1. l' \in LoggerFields
  BY DEF Types, LoggerFields, DrainEnd
<1>2. QueueTypes'
  BY Roles
  DEF Types, QueueTypes, QueueFields, Positions, Capacity, PcTypes, DrainEnd, Go, locals
<1>3. PcTypes'
  BY Roles DEF Types, PcTypes, Labels, DrainEnd, Go
<1>6. CallsBegun'
  BY Roles DEF Types, CallsBegun, PcTypes, Borrowers, DrainEnd, Go, locals, At
<1>4. LocalTypes'
  BY Roles DEF Types, LocalTypes, DrainEnd, locals
<1>5. SharedTypes'
  BY Roles, RecordType, BatchType, MutexTypes
  DEF Types, SharedTypes, DrainEnd, outputs, promises, At
<1>7. Building'
  <2>1. pc'[Host] = "create" => pc[Host] = "create"
    BY Roles DEF Types, PcTypes, DrainEnd, Go
  <2>2. l'.built = l.built /\ l'.async_mode = l.async_mode
    BY DEF Types, LoggerFields, DrainEnd
  <2> QED
    BY <2>1, <2>2, BuildingFrame
<1> QED
  BY <1>1, <1>2, <1>3, <1>4, <1>5, <1>6, <1>7 DEF Types

\* BatchFormat keeps the types.
LEMMA BatchFormatTypes ==
    ASSUME Types, BatchFormat
    PROVE  Types'
<1>1. l' \in LoggerFields
  BY DEF Types, LoggerFields, BatchFormat
<1>2. QueueTypes'
  BY Roles
  DEF Types, QueueTypes, QueueFields, Positions, Capacity, PcTypes, BatchFormat, Go, locals
<1>3. PcTypes'
  BY Roles DEF Types, PcTypes, Labels, BatchFormat, Go
<1>6. CallsBegun'
  BY Roles DEF Types, CallsBegun, PcTypes, Borrowers, BatchFormat, Go, locals, At
<1>4. LocalTypes'
  BY Roles, MeetType DEF Types, LocalTypes, BatchFormat, locals
<1>5. SharedTypes'
  BY Roles, RecordType, BatchType, MutexTypes DEF Types, SharedTypes, BatchFormat, promises, At
<1>7. Building'
  <2>1. pc'[Host] = "create" => pc[Host] = "create"
    BY Roles DEF Types, PcTypes, BatchFormat, Go
  <2>2. l'.built = l.built /\ l'.async_mode = l.async_mode
    BY DEF Types, LoggerFields, BatchFormat
  <2> QED
    BY <2>1, <2>2, BuildingFrame
<1> QED
  BY <1>1, <1>2, <1>3, <1>4, <1>5, <1>6, <1>7 DEF Types

\* BatchLock keeps the types.
LEMMA BatchLockTypes ==
    ASSUME Types, BatchLock
    PROVE  Types'
<1>1. l' \in LoggerFields
  BY DEF Types, LoggerFields, BatchLock
<1>2. QueueTypes'
  BY Roles
  DEF Types, QueueTypes, QueueFields, Positions, Capacity, PcTypes, BatchLock, Go, locals
<1>3. PcTypes'
  BY Roles DEF Types, PcTypes, Labels, BatchLock, Go
<1>6. CallsBegun'
  BY Roles DEF Types, CallsBegun, PcTypes, Borrowers, BatchLock, Go, locals, At
<1>4. LocalTypes'
  BY Roles, MeetType DEF Types, LocalTypes, BatchLock, Note, locals
<1>5. SharedTypes'
  BY Roles, RecordType, BatchType, MutexTypes
  DEF Types, SharedTypes, BatchLock, Lock, promises, At
<1>7. Building'
  <2>1. pc'[Host] = "create" => pc[Host] = "create"
    BY Roles DEF Types, PcTypes, BatchLock, Go
  <2>2. l'.built = l.built /\ l'.async_mode = l.async_mode
    BY DEF Types, LoggerFields, BatchLock
  <2> QED
    BY <2>1, <2>2, BuildingFrame
<1> QED
  BY <1>1, <1>2, <1>3, <1>4, <1>5, <1>6, <1>7 DEF Types

\* EmitBatch keeps the types.
LEMMA EmitBatchTypes ==
    ASSUME Types, EmitBatch
    PROVE  Types'
<1>1. l' \in LoggerFields
  BY DEF Types, LoggerFields, EmitBatch
<1>2. QueueTypes'
  BY Roles
  DEF Types, QueueTypes, QueueFields, Positions, Capacity, PcTypes, EmitBatch, Go, locals
<1>3. PcTypes'
  BY Roles DEF Types, PcTypes, Labels, EmitBatch, Go
<1>6. CallsBegun'
  BY Roles DEF Types, CallsBegun, PcTypes, Borrowers, EmitBatch, Go, locals, At
<1>4. LocalTypes'
  BY Roles, MeetType DEF Types, LocalTypes, EmitBatch, Note, NoteIf, locals
<1>5. SharedTypes'
  BY Roles, RecordType, BatchType, MutexTypes, UnlockTypes
  DEF Types, SharedTypes, EmitBatch, promises, At
<1>7. Building'
  <2>1. pc'[Host] = "create" => pc[Host] = "create"
    BY Roles DEF Types, PcTypes, EmitBatch, Go
  <2>2. l'.built = l.built /\ l'.async_mode = l.async_mode
    BY DEF Types, LoggerFields, EmitBatch
  <2> QED
    BY <2>1, <2>2, BuildingFrame
<1> QED
  BY <1>1, <1>2, <1>3, <1>4, <1>5, <1>6, <1>7 DEF Types

\* BatchDone keeps the types.
LEMMA BatchDoneTypes ==
    ASSUME Types, BatchDone
    PROVE  Types'
<1>1. l' \in LoggerFields
  <2>1. l \in LoggerFields
    BY DEF Types

  <2> DEFINE n == l.async_completed + batch
  <2>2. n \in Nat
    BY <2>1, LoggerFieldTypes DEF Types, QueueTypes
  <2>3. l' = [l EXCEPT !.async_completed = n]
    BY DEF BatchDone
  <2> HIDE DEF n
  <2> QED
    BY <2>1, <2>2, <2>3, LoggerUpdates
<1>2. QueueTypes'
  <2>1. q' = q /\ slot' = slot /\ batch' = 0
    BY DEF BatchDone
  <2>2. batch \in Nat /\ q \in QueueFields
    BY DEF Types, QueueTypes
  <2>3. \A o \in Producers : pc'[o] = "publish" => pc[o] = "publish"
    BY Roles DEF Types, PcTypes, BatchDone, Go
  <2>4. batch' \in Nat /\ batch' <= batch
    BY <2>1, <2>2
  <2> QED
    BY <2>1, <2>2, <2>3, <2>4, QueueTypesFrame
<1>3. PcTypes'
  BY Roles DEF Types, PcTypes, Labels, BatchDone, Go
<1>6. CallsBegun'
  BY Roles DEF Types, CallsBegun, PcTypes, Borrowers, BatchDone, Go, At
<1>4. LocalTypes'
  BY Roles DEF Types, LocalTypes, BatchDone
<1>5. SharedTypes'
  BY Roles, RecordType, BatchType, MutexTypes
  DEF Types, SharedTypes, BatchDone, outputs, promises, At
<1>7. Building'
  <2>1. pc'[Host] = "create" => pc[Host] = "create"
    BY Roles DEF Types, PcTypes, BatchDone, Go
  <2>2. l'.built = l.built /\ l'.async_mode = l.async_mode
    BY DEF Types, LoggerFields, BatchDone
  <2> QED
    BY <2>1, <2>2, BuildingFrame
<1> QED
  BY <1>1, <1>2, <1>3, <1>4, <1>5, <1>6, <1>7 DEF Types

\* ProgressLock keeps the types.
LEMMA ProgressLockTypes ==
    ASSUME Types, ProgressLock
    PROVE  Types'
<1>1. l' \in LoggerFields
  BY DEF Types, LoggerFields, ProgressLock
<1>2. QueueTypes'
  BY Roles
  DEF Types, QueueTypes, QueueFields, Positions, Capacity, PcTypes, ProgressLock, Go,
      locals
<1>3. PcTypes'
  BY Roles DEF Types, PcTypes, Labels, ProgressLock, Go
<1>6. CallsBegun'
  BY Roles DEF Types, CallsBegun, PcTypes, Borrowers, ProgressLock, Go, locals, At
<1>4. LocalTypes'
  BY Roles, MeetType DEF Types, LocalTypes, ProgressLock, Note, locals
<1>5. SharedTypes'
  BY Roles, RecordType, BatchType, MutexTypes
  DEF Types, SharedTypes, ProgressLock, Lock, outputs, promises, At
<1>7. Building'
  <2>1. pc'[Host] = "create" => pc[Host] = "create"
    BY Roles DEF Types, PcTypes, ProgressLock, Go
  <2>2. l'.built = l.built /\ l'.async_mode = l.async_mode
    BY DEF Types, LoggerFields, ProgressLock
  <2> QED
    BY <2>1, <2>2, BuildingFrame
<1> QED
  BY <1>1, <1>2, <1>3, <1>4, <1>5, <1>6, <1>7 DEF Types

\* Progress keeps the types.
LEMMA ProgressTypes ==
    ASSUME Types, Progress
    PROVE  Types'
<1>1. l' \in LoggerFields
  <2>1. l \in LoggerFields
    BY DEF Types

  <2>2. q.dequeue_pos \in Nat
    BY QueueFieldTypes DEF Types, QueueTypes
  <2>3. l' = [l EXCEPT !.completed_pos = q.dequeue_pos]
    BY DEF Progress
  <2> QED
    BY <2>1, <2>2, <2>3, LoggerUpdates
<1>2. QueueTypes'
  BY Roles
  DEF Types, QueueTypes, QueueFields, Positions, Capacity, PcTypes, Progress, Go, locals
<1>3. PcTypes'
  BY Roles DEF Types, PcTypes, Labels, Progress, Go
<1>6. CallsBegun'
  BY Roles DEF Types, CallsBegun, PcTypes, Borrowers, Progress, Go, locals, At
<1>4. LocalTypes'
  BY Roles, MeetType DEF Types, LocalTypes, Progress, Note, NoteIf, locals
<1>5. SharedTypes'
  BY Roles, RecordType, BatchType, MutexTypes, UnlockTypes
  DEF Types, SharedTypes, Progress, outputs, promises, At
<1>7. Building'
  <2>1. pc'[Host] = "create" => pc[Host] = "create"
    BY Roles DEF Types, PcTypes, Progress, Go
  <2>2. l'.built = l.built /\ l'.async_mode = l.async_mode
    BY DEF Types, LoggerFields, Progress
  <2> QED
    BY <2>1, <2>2, BuildingFrame
<1> QED
  BY <1>1, <1>2, <1>3, <1>4, <1>5, <1>6, <1>7 DEF Types

\* WaitLock keeps the types.
LEMMA WaitLockTypes ==
    ASSUME Types, WaitLock
    PROVE  Types'
<1>1. l' \in LoggerFields
  BY DEF Types, LoggerFields, WaitLock
<1>2. QueueTypes'
  BY Roles
  DEF Types, QueueTypes, QueueFields, Positions, Capacity, PcTypes, WaitLock, Go, locals
<1>3. PcTypes'
  BY Roles DEF Types, PcTypes, Labels, WaitLock, Go
<1>6. CallsBegun'
  BY Roles DEF Types, CallsBegun, PcTypes, Borrowers, WaitLock, Go, locals, At
<1>4. LocalTypes'
  BY Roles, MeetType DEF Types, LocalTypes, WaitLock, Note, locals
<1>5. SharedTypes'
  BY Roles, RecordType, BatchType, MutexTypes
  DEF Types, SharedTypes, WaitLock, Lock, outputs, promises, At
<1>7. Building'
  <2>1. pc'[Host] = "create" => pc[Host] = "create"
    BY Roles DEF Types, PcTypes, WaitLock, Go
  <2>2. l'.built = l.built /\ l'.async_mode = l.async_mode
    BY DEF Types, LoggerFields, WaitLock
  <2> QED
    BY <2>1, <2>2, BuildingFrame
<1> QED
  BY <1>1, <1>2, <1>3, <1>4, <1>5, <1>6, <1>7 DEF Types

\* WaitTest keeps the types.
LEMMA WaitTestTypes ==
    ASSUME Types, WaitTest
    PROVE  Types'
<1>1. l' \in LoggerFields
  BY DEF Types, LoggerFields, WaitTest
<1>2. QueueTypes'
  <2>1. q \in QueueFields
    BY DEF Types, QueueTypes
  <2>2. /\ q.cap \in Nat /\ q.fifo \in Seq(Records) /\ Len(q.fifo) \in Nat
        /\ q.published \subseteq Nat /\ q.dequeue_pos \in Nat /\ q.wait_mu_error \in BOOLEAN
    BY <2>1, QueueFieldTypes

  <2>3. q' = q \/ q' = [q EXCEPT !.consumer_waiting = TRUE]
    BY DEF WaitTest
  <2>4. q' \in QueueFields
    BY <2>1, <2>3, QueueUpdates
  <2>5. /\ q'.cap = q.cap /\ q'.fifo = q.fifo /\ q'.published = q.published
        /\ q'.dequeue_pos = q.dequeue_pos
    BY <2>1, <2>3 DEF QueueFields
  <2>6. slot' = slot /\ batch' = batch /\ batch \in Nat
    BY DEF WaitTest, locals, Types, QueueTypes
  <2>7. \A o \in Producers : pc'[o] = "publish" => pc[o] = "publish"
    BY Roles DEF Types, PcTypes, WaitTest, Go
  <2> QED
    BY <2>4, <2>5, <2>6, <2>7, QueueTypesFrame
<1>3. PcTypes'
  BY Roles DEF Types, PcTypes, Labels, WaitTest, Go
<1>6. CallsBegun'
  BY Roles DEF Types, CallsBegun, PcTypes, Borrowers, WaitTest, Go, locals, At
<1>4. LocalTypes'
  BY Roles DEF Types, LocalTypes, WaitTest, locals
<1>5. SharedTypes'
  BY Roles, RecordType, BatchType, MutexTypes
  DEF Types, SharedTypes, WaitTest, outputs, promises, At
<1>7. Building'
  <2>1. pc'[Host] = "create" => pc[Host] = "create"
    BY Roles DEF Types, PcTypes, WaitTest, Go
  <2>2. l'.built = l.built /\ l'.async_mode = l.async_mode
    BY DEF Types, LoggerFields, WaitTest
  <2> QED
    BY <2>1, <2>2, BuildingFrame
<1> QED
  BY <1>1, <1>2, <1>3, <1>4, <1>5, <1>6, <1>7 DEF Types

\* WaitRetest keeps the types.
LEMMA WaitRetestTypes ==
    ASSUME Types, WaitRetest
    PROVE  Types'
<1>1. l' \in LoggerFields
  BY DEF Types, LoggerFields, WaitRetest
<1>2. QueueTypes'
  BY Roles
  DEF Types, QueueTypes, QueueFields, Positions, Capacity, PcTypes, WaitRetest, Go, locals
<1>3. PcTypes'
  BY Roles DEF Types, PcTypes, Labels, WaitRetest, Go
<1>6. CallsBegun'
  BY Roles DEF Types, CallsBegun, PcTypes, Borrowers, WaitRetest, Go, locals, At
<1>4. LocalTypes'
  BY Roles, MeetType DEF Types, LocalTypes, WaitRetest, Note, locals
<1>5. SharedTypes'
  BY Roles, RecordType, BatchType, MutexTypes
  DEF Types, SharedTypes, WaitRetest, outputs, promises, At
<1>7. Building'
  <2>1. pc'[Host] = "create" => pc[Host] = "create"
    BY Roles DEF Types, PcTypes, WaitRetest, Go
  <2>2. l'.built = l.built /\ l'.async_mode = l.async_mode
    BY DEF Types, LoggerFields, WaitRetest
  <2> QED
    BY <2>1, <2>2, BuildingFrame
<1> QED
  BY <1>1, <1>2, <1>3, <1>4, <1>5, <1>6, <1>7 DEF Types

\* WaitAwake keeps the types.
LEMMA WaitAwakeTypes ==
    ASSUME Types, WaitAwake
    PROVE  Types'
<1>1. l' \in LoggerFields
  BY DEF Types, LoggerFields, WaitAwake
<1>2. QueueTypes'
  BY Roles
  DEF Types, QueueTypes, QueueFields, Positions, Capacity, PcTypes, WaitAwake, Go, locals
<1>3. PcTypes'
  BY Roles DEF Types, PcTypes, Labels, WaitAwake, Go
<1>6. CallsBegun'
  BY Roles DEF Types, CallsBegun, PcTypes, Borrowers, WaitAwake, Go, locals, At
<1>4. LocalTypes'
  BY Roles DEF Types, LocalTypes, WaitAwake, locals
<1>5. SharedTypes'
  BY Roles, RecordType, BatchType, MutexTypes
  DEF Types, SharedTypes, WaitAwake, Lock, outputs, promises, At
<1>7. Building'
  <2>1. pc'[Host] = "create" => pc[Host] = "create"
    BY Roles DEF Types, PcTypes, WaitAwake, Go
  <2>2. l'.built = l.built /\ l'.async_mode = l.async_mode
    BY DEF Types, LoggerFields, WaitAwake
  <2> QED
    BY <2>1, <2>2, BuildingFrame
<1> QED
  BY <1>1, <1>2, <1>3, <1>4, <1>5, <1>6, <1>7 DEF Types

\* WaitEnd keeps the types.
LEMMA WaitEndTypes ==
    ASSUME Types, WaitEnd
    PROVE  Types'
<1>1. l' \in LoggerFields
  BY DEF Types, LoggerFields, WaitEnd
<1>2. QueueTypes'
  BY Roles
  DEF Types, QueueTypes, QueueFields, Positions, Capacity, PcTypes, WaitEnd, Go, locals
<1>3. PcTypes'
  BY Roles DEF Types, PcTypes, Labels, WaitEnd, Go
<1>6. CallsBegun'
  BY Roles DEF Types, CallsBegun, PcTypes, Borrowers, WaitEnd, Go, locals, At
<1>4. LocalTypes'
  BY Roles, MeetType DEF Types, LocalTypes, WaitEnd, Note, NoteIf, locals
<1>5. SharedTypes'
  BY Roles, RecordType, BatchType, MutexTypes, UnlockTypes
  DEF Types, SharedTypes, WaitEnd, outputs, promises, At
<1>7. Building'
  <2>1. pc'[Host] = "create" => pc[Host] = "create"
    BY Roles DEF Types, PcTypes, WaitEnd, Go
  <2>2. l'.built = l.built /\ l'.async_mode = l.async_mode
    BY DEF Types, LoggerFields, WaitEnd
  <2> QED
    BY <2>1, <2>2, BuildingFrame
<1> QED
  BY <1>1, <1>2, <1>3, <1>4, <1>5, <1>6, <1>7 DEF Types

\* Final keeps the types.
LEMMA FinalTypes ==
    ASSUME Types, Final
    PROVE  Types'
<1>1. l' \in LoggerFields
  BY DEF Types, LoggerFields, Final
<1>2. QueueTypes'
  BY Roles DEF Types, QueueTypes, QueueFields, Positions, Capacity, PcTypes, Final, Go, locals
<1>3. PcTypes'
  BY Roles DEF Types, PcTypes, Labels, Final, Go
<1>6. CallsBegun'
  BY Roles DEF Types, CallsBegun, PcTypes, Borrowers, Final, Go, locals, At
<1>4. LocalTypes'
  BY Roles DEF Types, LocalTypes, Final, locals
<1>5. SharedTypes'
  BY Roles, RecordType, BatchType, MutexTypes
  DEF Types, SharedTypes, Final, outputs, promises, At
<1>7. Building'
  <2>1. pc'[Host] = "create" => pc[Host] = "create"
    BY Roles DEF Types, PcTypes, Final, Go
  <2>2. l'.built = l.built /\ l'.async_mode = l.async_mode
    BY DEF Types, LoggerFields, Final
  <2> QED
    BY <2>1, <2>2, BuildingFrame
<1> QED
  BY <1>1, <1>2, <1>3, <1>4, <1>5, <1>6, <1>7 DEF Types

\* FinalLock keeps the types.
LEMMA FinalLockTypes ==
    ASSUME Types, FinalLock
    PROVE  Types'
<1>1. l' \in LoggerFields
  BY DEF Types, LoggerFields, FinalLock
<1>2. QueueTypes'
  BY Roles
  DEF Types, QueueTypes, QueueFields, Positions, Capacity, PcTypes, FinalLock, Go, locals
<1>3. PcTypes'
  BY Roles DEF Types, PcTypes, Labels, FinalLock, Go
<1>6. CallsBegun'
  BY Roles DEF Types, CallsBegun, PcTypes, Borrowers, FinalLock, Go, locals, At
<1>4. LocalTypes'
  BY Roles, MeetType DEF Types, LocalTypes, FinalLock, Note, locals
<1>5. SharedTypes'
  BY Roles, RecordType, BatchType, MutexTypes
  DEF Types, SharedTypes, FinalLock, Lock, outputs, promises, At
<1>7. Building'
  <2>1. pc'[Host] = "create" => pc[Host] = "create"
    BY Roles DEF Types, PcTypes, FinalLock, Go
  <2>2. l'.built = l.built /\ l'.async_mode = l.async_mode
    BY DEF Types, LoggerFields, FinalLock
  <2> QED
    BY <2>1, <2>2, BuildingFrame
<1> QED
  BY <1>1, <1>2, <1>3, <1>4, <1>5, <1>6, <1>7 DEF Types

\* Broadcast keeps the types.
LEMMA BroadcastTypes ==
    ASSUME Types, Broadcast
    PROVE  Types'
<1>1. l' \in LoggerFields
  BY DEF Types, LoggerFields, Broadcast
<1>2. QueueTypes'
  BY Roles
  DEF Types, QueueTypes, QueueFields, Positions, Capacity, PcTypes, Broadcast, Go, locals
<1>3. PcTypes'
  BY Roles DEF Types, PcTypes, Labels, Broadcast, Go
<1>6. CallsBegun'
  BY Roles DEF Types, CallsBegun, PcTypes, Borrowers, Broadcast, Go, locals, At
<1>4. LocalTypes'
  BY Roles, MeetType DEF Types, LocalTypes, Broadcast, Note, NoteIf, locals
<1>5. SharedTypes'
  BY Roles, RecordType, BatchType, MutexTypes, UnlockTypes
  DEF Types, SharedTypes, Broadcast, outputs, promises, At
<1>7. Building'
  <2>1. pc'[Host] = "create" => pc[Host] = "create"
    BY Roles DEF Types, PcTypes, Broadcast, Go
  <2>2. l'.built = l.built /\ l'.async_mode = l.async_mode
    BY DEF Types, LoggerFields, Broadcast
  <2> QED
    BY <2>1, <2>2, BuildingFrame
<1> QED
  BY <1>1, <1>2, <1>3, <1>4, <1>5, <1>6, <1>7 DEF Types

\* Acquire keeps the types.
LEMMA AcquireTypes ==
    ASSUME Types, Acquire
    PROVE  Types'
<1>1. l' \in LoggerFields
  <2>1. l \in LoggerFields
    BY DEF Types

  <2> DEFINE part == Construction[Cardinality(l.built) + 1]
  <2>2. CASE l' = l
    BY <2>1, <2>2
  <2>3. CASE \E hit : l' = [l EXCEPT !.built = @ \cup {part}, !.first_error = @ \/ hit # {}]
    <3>1. PICK hit : l' = [l EXCEPT !.built = @ \cup {part}, !.first_error = @ \/ hit # {}]
      BY <2>3
    <3> DEFINE S == l.built \cup {part}
               b == l.first_error \/ hit # {}
    <3>2. S \in SUBSET Parts
      BY <2>1, NextPartType, LoggerFieldTypes DEF Acquire, At
    <3>3. b \in BOOLEAN
      BY <2>1, LoggerFieldTypes
    <3>4. l' = [l EXCEPT !.built = S, !.first_error = b]
      BY <3>1
    <3> HIDE DEF S, b
    <3> QED
      BY <2>1, <3>2, <3>3, <3>4, LoggerUpdates
  <2> QED
    BY <2>2, <2>3 DEF Acquire
<1>2. QueueTypes'
  BY Roles DEF Types, QueueTypes, QueueFields, Positions, Capacity, PcTypes, Acquire, Go
<1>3. PcTypes'
  <2>1. pc' = pc \/ Go(Host, "rollback")
    BY DEF Acquire
  <2> QED
    BY <2>1, Roles DEF Types, PcTypes, Labels, Go
<1>6. CallsBegun'
  BY Roles DEF Types, CallsBegun, PcTypes, Borrowers, Acquire, Go, At
<1>4. LocalTypes'
  <2>1. /\ noting' = noting \/ Note(Host, "sync")
        /\ result' = result \/ Answer(Host, "uncreated")
    BY DEF Acquire, NoteIf
  <2>2. faults' \in 0..MaxFaults
    BY MeetType DEF Types, LocalTypes, Acquire
  <2>3. calls' = calls /\ kind' = kind /\ slot' = slot /\ target' = target
    BY DEF Acquire
  <2> QED
    BY <2>1, <2>2, <2>3, Roles DEF Types, LocalTypes, Note, Answer
<1>5. SharedTypes'
  BY Roles, RecordType, BatchType, MutexTypes
  DEF Types, SharedTypes, Acquire, outputs, promises, At
<1>7. Building'
  <2>1. CASE pc'[Host] = "create"
    <3>1. PICK hit : l' = [l EXCEPT !.built = @ \cup {Construction[Cardinality(l.built) + 1]},
                                    !.first_error = @ \/ hit # {}]
      BY <2>1, Roles DEF Types, PcTypes, Acquire, Go
    <3>2. l'.built = l.built \cup {Construction[Cardinality(l.built) + 1]} /\ l'.async_mode = l.async_mode
      BY <3>1 DEF Types, LoggerFields
    <3> QED
      BY <3>2, BuildingGrows DEF Acquire, At
  <2> QED
    BY <2>1 DEF Building
<1> QED
  BY <1>1, <1>2, <1>3, <1>4, <1>5, <1>6, <1>7 DEF Types

\* StartWorker keeps the types.
LEMMA StartWorkerTypes ==
    ASSUME Types, StartWorker
    PROVE  Types'
<1>1. l' \in LoggerFields
  <2>1. l \in LoggerFields
    BY DEF Types

  <2>2. l' = l \/ l' = [l EXCEPT !.running = l.async_mode]
    BY DEF StartWorker
  <2>3. l.async_mode \in BOOLEAN
    BY <2>1, LoggerFieldTypes
  <2> QED
    BY <2>1, <2>2, <2>3, LoggerUpdates
<1>2. QueueTypes'
  BY Roles DEF Types, QueueTypes, QueueFields, Positions, Capacity, PcTypes, StartWorker, Go
<1>3. PcTypes'
  BY Roles DEF Types, PcTypes, Labels, StartWorker, Go
<1>6. CallsBegun'
  BY Roles DEF Types, CallsBegun, PcTypes, Borrowers, StartWorker, Go, At
<1>4. LocalTypes'
  BY Roles, MeetType DEF Types, LocalTypes, StartWorker, Answer
<1>5. SharedTypes'
  BY Roles, RecordType, BatchType, MutexTypes
  DEF Types, SharedTypes, StartWorker, outputs, promises, At
<1>7. Building'
  <2>1. pc'[Host] = "create" => pc[Host] = "create"
    BY Roles DEF Types, PcTypes, StartWorker, Go
  <2>2. l'.built = l.built /\ l'.async_mode = l.async_mode
    BY DEF Types, LoggerFields, StartWorker
  <2> QED
    BY <2>1, <2>2, BuildingFrame
<1> QED
  BY <1>1, <1>2, <1>3, <1>4, <1>5, <1>6, <1>7 DEF Types

\* PublishRunning keeps the types.
LEMMA PublishRunningTypes ==
    ASSUME Types, PublishRunning
    PROVE  Types'
<1>1. l' \in LoggerFields
  BY DEF Types, LoggerFields, PublishRunning
<1>2. QueueTypes'
  BY Roles DEF Types, QueueTypes, QueueFields, Positions, Capacity, PcTypes, PublishRunning, Go
<1>3. PcTypes'
  BY Roles DEF Types, PcTypes, Labels, PublishRunning, Go
<1>6. CallsBegun'
  BY Roles DEF Types, CallsBegun, PcTypes, Borrowers, PublishRunning, Go, At
<1>4. LocalTypes'
  BY Roles DEF Types, LocalTypes, PublishRunning, Answer
<1>5. SharedTypes'
  BY Roles, RecordType, BatchType, MutexTypes
  DEF Types, SharedTypes, PublishRunning, outputs, promises, At
<1>7. Building'
  <2>1. pc'[Host] = "create" => pc[Host] = "create"
    BY Roles DEF Types, PcTypes, PublishRunning, Go
  <2>2. l'.built = l.built /\ l'.async_mode = l.async_mode
    BY DEF Types, LoggerFields, PublishRunning
  <2> QED
    BY <2>1, <2>2, BuildingFrame
<1> QED
  BY <1>1, <1>2, <1>3, <1>4, <1>5, <1>6, <1>7 DEF Types

\* Rollback keeps the types.
LEMMA RollbackTypes ==
    ASSUME Types, Rollback
    PROVE  Types'
<1>1. l' \in LoggerFields
  <2>1. l \in LoggerFields
    BY DEF Types

  <2>2. \/ l' = [l EXCEPT !.built = {}]
        \/ l' = [l EXCEPT !.state = "STOPPING", !.lifecycle_error = TRUE]
        \/ l' = [l EXCEPT !.state = "STOPPING", !.running = FALSE]
    BY DEF Rollback
  <2>3. {} \in SUBSET Parts
    OBVIOUS
  <2> QED
    BY <2>1, <2>2, <2>3, LoggerUpdates
<1>2. QueueTypes'
  BY Roles
  DEF Types, QueueTypes, QueueFields, Positions, Capacity, PcTypes, Rollback, Go, locals
<1>3. PcTypes'
  BY Roles DEF Types, PcTypes, Labels, Rollback, Go
<1>6. CallsBegun'
  BY Roles DEF Types, CallsBegun, PcTypes, Borrowers, Rollback, Go, locals, At
<1>4. LocalTypes'
  BY Roles DEF Types, LocalTypes, Rollback, locals
<1>5. SharedTypes'
  BY Roles, RecordType, BatchType, MutexTypes
  DEF Types, SharedTypes, Rollback, outputs, promises, At
<1>7. Building'
  <2>1. pc'[Host] # "create"
    BY Roles DEF Types, PcTypes, Rollback, Go
  <2> QED
    BY <2>1 DEF Building
<1> QED
  BY <1>1, <1>2, <1>3, <1>4, <1>5, <1>6, <1>7 DEF Types

\* Destroy keeps the types.
LEMMA DestroyTypes ==
    ASSUME Types, Destroy
    PROVE  Types'
<1>1. l' \in LoggerFields
  BY DEF Types, LoggerFields, Destroy
<1>2. QueueTypes'
  BY Roles
  DEF Types, QueueTypes, QueueFields, Positions, Capacity, PcTypes, Destroy, Go, locals
<1>3. PcTypes'
  BY Roles DEF Types, PcTypes, Labels, Destroy, Go
<1>6. CallsBegun'
  BY Roles DEF Types, CallsBegun, PcTypes, Borrowers, Destroy, Go, locals, At
<1>4. LocalTypes'
  BY Roles DEF Types, LocalTypes, Destroy, locals
<1>5. SharedTypes'
  BY Roles, RecordType, BatchType, MutexTypes
  DEF Types, SharedTypes, Destroy, outputs, promises, At
<1>7. Building'
  <2>1. pc'[Host] = "create" => pc[Host] = "create"
    BY Roles DEF Types, PcTypes, Destroy, Go
  <2>2. l'.built = l.built /\ l'.async_mode = l.async_mode
    BY DEF Types, LoggerFields, Destroy
  <2> QED
    BY <2>1, <2>2, BuildingFrame
<1> QED
  BY <1>1, <1>2, <1>3, <1>4, <1>5, <1>6, <1>7 DEF Types

\* StopCheck keeps the types.
LEMMA StopCheckTypes ==
    ASSUME Types, StopCheck
    PROVE  Types'
<1>1. l' \in LoggerFields
  BY DEF Types, LoggerFields, StopCheck
<1>2. QueueTypes'
  BY Roles DEF Types, QueueTypes, QueueFields, Positions, Capacity, PcTypes, StopCheck, Go
<1>3. PcTypes'
  BY Roles DEF Types, PcTypes, Labels, StopCheck, Go
<1>6. CallsBegun'
  BY Roles DEF Types, CallsBegun, PcTypes, Borrowers, StopCheck, Go, At
<1>4. LocalTypes'
  BY Roles DEF Types, LocalTypes, StopCheck, Note, Answer
<1>5. SharedTypes'
  BY Roles, RecordType, BatchType, MutexTypes
  DEF Types, SharedTypes, StopCheck, outputs, promises, At
<1>7. Building'
  <2>1. pc'[Host] = "create" => pc[Host] = "create"
    BY Roles DEF Types, PcTypes, StopCheck, Go
  <2>2. l'.built = l.built /\ l'.async_mode = l.async_mode
    BY DEF Types, LoggerFields, StopCheck
  <2> QED
    BY <2>1, <2>2, BuildingFrame
<1> QED
  BY <1>1, <1>2, <1>3, <1>4, <1>5, <1>6, <1>7 DEF Types

\* Join keeps the types.
LEMMA JoinTypes ==
    ASSUME Types, Join
    PROVE  Types'
<1>1. l' \in LoggerFields
  BY DEF Types, LoggerFields, Join
<1>2. QueueTypes'
  BY Roles DEF Types, QueueTypes, QueueFields, Positions, Capacity, PcTypes, Join, Go
<1>3. PcTypes'
  BY Roles DEF Types, PcTypes, Labels, Join, Go
<1>6. CallsBegun'
  BY Roles DEF Types, CallsBegun, PcTypes, Borrowers, Join, Go, At
<1>4. LocalTypes'
  BY Roles, MeetType DEF Types, LocalTypes, Join
<1>5. SharedTypes'
  BY Roles, RecordType, BatchType, MutexTypes
  DEF Types, SharedTypes, Join, outputs, promises, At
<1>7. Building'
  <2>1. pc'[Host] = "create" => pc[Host] = "create"
    BY Roles DEF Types, PcTypes, Join, Go
  <2>2. l'.built = l.built /\ l'.async_mode = l.async_mode
    BY DEF Types, LoggerFields, Join
  <2> QED
    BY <2>1, <2>2, BuildingFrame
<1> QED
  BY <1>1, <1>2, <1>3, <1>4, <1>5, <1>6, <1>7 DEF Types

\* Joined keeps the types.
LEMMA JoinedTypes ==
    ASSUME Types, Joined
    PROVE  Types'
<1>1. l' \in LoggerFields
  BY DEF Types, LoggerFields, Joined
<1>2. QueueTypes'
  BY Roles DEF Types, QueueTypes, QueueFields, Positions, Capacity, PcTypes, Joined, Go
<1>3. PcTypes'
  BY Roles DEF Types, PcTypes, Labels, Joined, Go
<1>6. CallsBegun'
  BY Roles DEF Types, CallsBegun, PcTypes, Borrowers, Joined, Go, At
<1>4. LocalTypes'
  BY Roles, MeetType DEF Types, LocalTypes, Joined, Answer
<1>5. SharedTypes'
  BY Roles, RecordType, BatchType, MutexTypes
  DEF Types, SharedTypes, Joined, Lock, outputs, promises, At
<1>7. Building'
  <2>1. pc'[Host] = "create" => pc[Host] = "create"
    BY Roles DEF Types, PcTypes, Joined, Go
  <2>2. l'.built = l.built /\ l'.async_mode = l.async_mode
    BY DEF Types, LoggerFields, Joined
  <2> QED
    BY <2>1, <2>2, BuildingFrame
<1> QED
  BY <1>1, <1>2, <1>3, <1>4, <1>5, <1>6, <1>7 DEF Types

\* FinalSync keeps the types.
LEMMA FinalSyncTypes ==
    ASSUME Types, FinalSync
    PROVE  Types'
<1>1. l' \in LoggerFields
  BY DEF Types, LoggerFields, FinalSync, SyncOutputs
<1>2. QueueTypes'
  BY Roles DEF Types, QueueTypes, QueueFields, Positions, Capacity, PcTypes, FinalSync, Go
<1>3. PcTypes'
  BY Roles DEF Types, PcTypes, Labels, FinalSync, Go
<1>6. CallsBegun'
  BY Roles DEF Types, CallsBegun, PcTypes, Borrowers, FinalSync, Go, At
<1>4. LocalTypes'
  BY Roles, MeetType DEF Types, LocalTypes, FinalSync, Note, NoteIf, Answer, SyncOutputs
<1>5. SharedTypes'
  BY Roles, RecordType, BatchType, MutexTypes, UnlockTypes
  DEF Types, SharedTypes, FinalSync, SyncOutputs, StillWritten, promises, At
<1>7. Building'
  <2>1. pc'[Host] = "create" => pc[Host] = "create"
    BY Roles DEF Types, PcTypes, FinalSync, Go
  <2>2. l'.built = l.built /\ l'.async_mode = l.async_mode
    BY DEF Types, LoggerFields, FinalSync, SyncOutputs
  <2> QED
    BY <2>1, <2>2, BuildingFrame
<1> QED
  BY <1>1, <1>2, <1>3, <1>4, <1>5, <1>6, <1>7 DEF Types

\* Release keeps the types.
LEMMA ReleaseTypes ==
    ASSUME Types, Release
    PROVE  Types'
<1>1. l' \in LoggerFields
  <2>1. l \in LoggerFields
    BY DEF Types

  <2>2. PICK part : \/ \E s \in {l.state, "STOPPED"} : l' = [l EXCEPT !.built = @ \ {part}, !.state = s]
                    \/ \E b : l' = [l EXCEPT !.lifecycle_error = @ \/ b]
    BY DEF Release
  <2>3. CASE \E s \in {l.state, "STOPPED"} : l' = [l EXCEPT !.built = @ \ {part}, !.state = s]
    <3>1. PICK s \in {l.state, "STOPPED"} : l' = [l EXCEPT !.built = @ \ {part}, !.state = s]
      BY <2>3
    <3>2. s \in {"CREATED", "RUNNING", "STOPPING", "STOPPED"}
      BY <2>1 DEF LoggerFields
    <3> DEFINE S == l.built \ {part}
    <3>3. S \in SUBSET Parts
      BY <2>1, LoggerFieldTypes
    <3>4. l' = [l EXCEPT !.built = S, !.state = s]
      BY <3>1
    <3> HIDE DEF S
    <3> QED
      BY <2>1, <3>2, <3>3, <3>4, LoggerUpdates
  <2>4. CASE \E b : l' = [l EXCEPT !.lifecycle_error = @ \/ b]
    <3>1. PICK b : l' = [l EXCEPT !.lifecycle_error = @ \/ b]
      BY <2>4
    <3> DEFINE c == l.lifecycle_error \/ b
    <3>2. c \in BOOLEAN
      OBVIOUS
    <3>3. l' = [l EXCEPT !.lifecycle_error = c]
      BY <3>1
    <3> HIDE DEF c
    <3> QED
      BY <2>1, <3>2, <3>3, LoggerUpdates
  <2> QED
    BY <2>2, <2>3, <2>4
<1>2. QueueTypes'
  BY Roles DEF Types, QueueTypes, QueueFields, Positions, Capacity, PcTypes, Release, Go
<1>3. PcTypes'
  <2>1. Go(Host, "freed") \/ Go(Host, "destroy") \/ Go(Host, "retained")
    BY DEF Release
  <2> QED
    BY <2>1, Roles DEF Types, PcTypes, Labels, Go
<1>6. CallsBegun'
  BY Roles DEF Types, CallsBegun, PcTypes, Borrowers, Release, Go, At
<1>4. LocalTypes'
  BY Roles, MeetType DEF Types, LocalTypes, Release
<1>5. SharedTypes'
  BY Roles, RecordType, BatchType, MutexTypes
  DEF Types, SharedTypes, Release, outputs, promises, At
<1>7. Building'
  <2>1. pc'[Host] # "create"
    BY Roles DEF Types, PcTypes, Release, Go
  <2> QED
    BY <2>1 DEF Building
<1> QED
  BY <1>1, <1>2, <1>3, <1>4, <1>5, <1>6, <1>7 DEF Types

\* NoteStep keeps the types.
LEMMA NoteStepTypes ==
    ASSUME Types, NEW t \in Threads, NoteStep(t)
    PROVE  Types'
<1>1. l' \in LoggerFields
  <2>1. \/ l' = [l EXCEPT !.synchronization_error = TRUE]
        \/ l' = [l EXCEPT !.lifecycle_error = TRUE]
        \/ l' = [l EXCEPT !.state = "STOPPING", !.running = FALSE]
    BY DEF NoteStep
  <2> QED
    BY <2>1 DEF Types, LoggerFields
<1>2. QueueTypes'
  BY Roles DEF Types, QueueTypes, QueueFields, Positions, Capacity, PcTypes, NoteStep, locals
<1>3. PcTypes'
  BY Roles DEF Types, PcTypes, Labels, NoteStep
<1>6. CallsBegun'
  BY Roles DEF Types, CallsBegun, PcTypes, Borrowers, NoteStep, locals
<1>4. LocalTypes'
  BY Roles DEF Types, LocalTypes, NoteStep, Note, locals
<1>5. SharedTypes'
  BY Roles, RecordType, BatchType, MutexTypes
  DEF Types, SharedTypes, NoteStep, outputs, promises
<1>7. Building'
  <2>1. pc'[Host] = "create" => pc[Host] = "create"
    BY Roles DEF Types, PcTypes, NoteStep
  <2>2. l'.built = l.built /\ l'.async_mode = l.async_mode
    BY DEF Types, LoggerFields, NoteStep
  <2> QED
    BY <2>1, <2>2, BuildingFrame
<1> QED
  BY <1>1, <1>2, <1>3, <1>4, <1>5, <1>6, <1>7 DEF Types

\* Spurious keeps the types.
LEMMA SpuriousTypes ==
    ASSUME Types, NEW t \in Threads, Spurious(t)
    PROVE  Types'
<1>1. l' \in LoggerFields
  BY DEF Types, LoggerFields, Spurious
<1>2. QueueTypes'
  BY Roles DEF Types, QueueTypes, QueueFields, Positions, Capacity, PcTypes, Spurious, locals
<1>3. PcTypes'
  BY Roles DEF Types, PcTypes, Labels, Spurious
<1>6. CallsBegun'
  BY Roles DEF Types, CallsBegun, PcTypes, Borrowers, Spurious, locals
<1>4. LocalTypes'
  BY Roles DEF Types, LocalTypes, Spurious, locals
<1>5. SharedTypes'
  BY Roles, RecordType, BatchType, MutexTypes
  DEF Types, SharedTypes, Spurious, outputs, promises
<1>7. Building'
  <2>1. pc'[Host] = "create" => pc[Host] = "create"
    BY Roles DEF Types, PcTypes, Spurious
  <2>2. l'.built = l.built /\ l'.async_mode = l.async_mode
    BY DEF Types, LoggerFields, Spurious
  <2> QED
    BY <2>1, <2>2, BuildingFrame
<1> QED
  BY <1>1, <1>2, <1>3, <1>4, <1>5, <1>6, <1>7 DEF Types

-----------------------------------------------------------------------------
(* Records                                                                 *)

\* Where a producer's record is in no queue and no count yet, where it has a
\* queue position whose publication or wake-up it has not finished, and all
\* of the asynchronous path.
FreshLabels == {"push", "format", "emit_check", "emit_lock", "emit"}
ReservedLabels == {"publish", "probe", "notify_lock", "notify"}
AsyncLabels == ReservedLabels \cup {"push", "push_failed", "force_lock", "force", "force_failed"}
BatchLabels == {"drain", "batch_format", "batch_lock", "batch_emit", "batch_done"}

\* The positions whose records the worker has counted.
Handled == IF pc[Worker] = "batch_done" THEN q.dequeue_pos ELSE q.dequeue_pos - batch
Counted == emitted \cup failed

\* A record belongs to a call that was begun.
RecordsBegun ==
    /\ \A r \in Counted : r[2] <= calls[r[1]]
    /\ \A i \in Positions : q.fifo[i][2] <= calls[q.fifo[i][1]]
\* The record of a call that has neither queued nor counted it is new.
FreshRecords ==
    \A p \in Producers : pc[p] \in FreshLabels =>
        Record(p) \notin Counted /\ \A i \in Positions : q.fifo[i] # Record(p)
\* No record is queued twice, and the queued records the worker has counted are
\* those of the positions it has handled.
QueuedOnce == \A i, j \in Positions : q.fifo[i] = q.fifo[j] => i = j
CountedInOrder == \A i \in Positions : q.fifo[i] \in Counted <=> i <= Handled
CountedOnce == emitted \cap failed = {}
\* A producer that reserved a position put its record there.
ReservedRecords ==
    \A p \in Producers : pc[p] \in ReservedLabels =>
        slot[p] \in Positions /\ q.fifo[slot[p]] = Record(p)
\* What is durable was written, and so is what counts as emitted until an error
\* is latched (a failed sync may lose what was not durable yet); what was
\* accepted is emitted or queued, and a failure is latched.
WrittenFirst == durable \subseteq written /\ (~l.first_error => emitted \subseteq written)
AcceptedKept == \A r \in accepted : r \in emitted \/ \E i \in Positions : q.fifo[i] = r
FailureLatched == failed # {} => l.first_error
\* The watermark covers only completed batches; the workspace is empty outside
\* the batch loop, and there is no worker before the constructor has all parts.
WatermarkBehind ==
    /\ pc[Host] = "create" => pc[Worker] = "none"
    /\ l.completed_pos <= q.dequeue_pos - batch
    /\ pc[Worker] \notin BatchLabels => batch = 0
\* Only logger_log on an asynchronous logger takes the queue.
QueueUse ==
    /\ ~l.async_mode => q.fifo = << >>
    /\ \A p \in Producers : pc[p] \in AsyncLabels => l.async_mode /\ kind[p] = "log"
\* A confirmed write that answered 0 is durable.
ConfirmedKept ==
    \A p \in Producers : pc[p] = "idle" /\ calls[p] > 0 /\ kind[p] = "sync" /\ result[p] = "ok" =>
        Record(p) \in durable

RecordInv ==
    /\ RecordsBegun /\ FreshRecords /\ QueuedOnce /\ CountedInOrder /\ CountedOnce
    /\ ReservedRecords /\ WrittenFirst /\ AcceptedKept /\ FailureLatched /\ WatermarkBehind
    /\ QueueUse /\ ConfirmedKept

-----------------------------------------------------------------------------
(* Steps that handle no record                                             *)

\* The queue's contents, the counts and the calls of the producers stay; a sync
\* may make more of what was written durable, or lose some of it, and then the
\* error is latched.
KeepFrame ==
    /\ q'.fifo = q.fifo /\ q'.dequeue_pos = q.dequeue_pos /\ batch' = batch
    /\ emitted' = emitted /\ failed' = failed
    /\ durable \subseteq durable'
    /\ \/ written' = written /\ durable' \subseteq durable \cup written
       \/ l'.first_error /\ durable' \subseteq written'
    /\ l'.async_mode = l.async_mode /\ (l.first_error => l'.first_error)
    /\ l'.async_completed = l.async_completed /\ l'.sync_completed = l.sync_completed
    /\ kind' = kind /\ slot' = slot /\ \A p \in Producers : calls'[p] = calls[p]
DataFrame == KeepFrame /\ accepted' = accepted

\* No producer starts or takes up a record or confirms one, and the worker
\* stays inside or outside the accounting of its batch.
RecordSteps ==
    /\ \A p \in Producers :
         /\ pc'[p] \in FreshLabels => pc[p] \in FreshLabels
         /\ pc'[p] \in ReservedLabels => pc[p] \in ReservedLabels
         /\ pc'[p] \in AsyncLabels => pc[p] \in AsyncLabels
         /\ pc'[p] = "idle" =>
              result'[p] # "ok" \/ kind[p] = "log" \/ (pc[p] = "idle" /\ result'[p] = result[p])
    /\ pc'[Worker] = "batch_done" <=> pc[Worker] = "batch_done"
    /\ pc'[Worker] \notin BatchLabels => batch = 0
    /\ pc'[Host] = "create" => pc'[Worker] = "none"
    /\ l'.completed_pos <= q.dequeue_pos - batch

\* Such a step keeps the invariant of the records.
LEMMA RecordFrame ==
    ASSUME Types, RecordInv, KeepFrame, RecordSteps,
           \A r \in accepted' : r \in accepted \/ \E i \in Positions : q.fifo[i] = r
    PROVE  RecordInv'
<1>1. Positions' = Positions /\ Handled' = Handled /\ Counted' = Counted
  BY DEF Positions, Handled, Counted, KeepFrame, RecordSteps
<1>2. \A p \in Producers : Record(p)' = Record(p)
  BY DEF Record, KeepFrame
<1>3. RecordsBegun'
  <2>1. \A r \in Records : calls'[r[1]] = calls[r[1]]
    BY DEF KeepFrame, Records
  <2>2. Counted \subseteq Records /\ \A i \in Positions : q.fifo[i] \in Records
    BY QueueFieldTypes DEF Types, QueueTypes, SharedTypes, Counted, Positions
  <2> QED
    BY <1>1, <2>1, <2>2 DEF RecordInv, RecordsBegun, KeepFrame
<1>4. FreshRecords'
  BY <1>1, <1>2 DEF RecordInv, FreshRecords, KeepFrame, RecordSteps
<1>5. QueuedOnce' /\ CountedInOrder' /\ CountedOnce'
  BY <1>1 DEF RecordInv, QueuedOnce, CountedInOrder, CountedOnce, KeepFrame
<1>6. ReservedRecords'
  BY <1>1, <1>2 DEF RecordInv, ReservedRecords, KeepFrame, RecordSteps
<1>7. WrittenFirst' /\ AcceptedKept' /\ FailureLatched'
  BY <1>1 DEF RecordInv, WrittenFirst, AcceptedKept, FailureLatched, KeepFrame
<1>8. WatermarkBehind' /\ QueueUse'
  BY DEF RecordInv, WatermarkBehind, QueueUse, KeepFrame, RecordSteps
<1>9. ConfirmedKept'
  BY <1>2 DEF RecordInv, ConfirmedKept, KeepFrame, RecordSteps
<1> QED
  BY <1>3, <1>4, <1>5, <1>6, <1>7, <1>8, <1>9 DEF RecordInv

\* Refused handles no record.
LEMMA RefusedData ==
    ASSUME Types, NEW p \in Producers, Refused(p)
    PROVE  DataFrame
<1>1. q'.fifo = q.fifo /\ q'.dequeue_pos = q.dequeue_pos /\ batch' = batch
  BY DEF Types, QueueTypes, QueueFields, Refused
<1>2. /\ l'.async_mode = l.async_mode /\ (l.first_error => l'.first_error)
      /\ l'.async_completed = l.async_completed /\ l'.sync_completed = l.sync_completed
  BY DEF Types, LoggerFields, Refused
<1>3. /\ emitted' = emitted /\ failed' = failed /\ written' = written /\ accepted' = accepted
      /\ durable \subseteq durable' /\ durable' \subseteq durable \cup written
      /\ kind' = kind /\ slot' = slot
  BY DEF Refused, outputs, promises
<1>4. \A o \in Producers : calls'[o] = calls[o]
  BY Roles DEF Refused
<1> QED
  BY <1>1, <1>2, <1>3, <1>4 DEF DataFrame, KeepFrame

\* Refused keeps the invariant of the records.
LEMMA RefusedRecords ==
    ASSUME Types, RecordInv, NEW p \in Producers, Refused(p)
    PROVE  RecordInv'
<1>1. \A o \in Producers :
         /\ pc'[o] \in FreshLabels => pc[o] \in FreshLabels
         /\ pc'[o] \in ReservedLabels => pc[o] \in ReservedLabels
         /\ pc'[o] \in AsyncLabels => pc[o] \in AsyncLabels
         /\ pc'[o] = "idle" =>
              result'[o] # "ok" \/ kind[o] = "log" \/ (pc[o] = "idle" /\ result'[o] = result[o])
  BY Roles
  DEF Types, PcTypes, LocalTypes, FreshLabels, ReservedLabels, AsyncLabels, RecordInv,
      QueueUse, Refused, Go, At, Answer
<1>2. /\ pc'[Worker] = "batch_done" <=> pc[Worker] = "batch_done"
      /\ pc'[Worker] \notin BatchLabels => batch = 0
      /\ pc'[Host] = "create" => pc'[Worker] = "none"
  BY Roles DEF Types, PcTypes, RecordInv, WatermarkBehind, Refused, Go, At
<1>3. l'.completed_pos <= q.dequeue_pos - batch
  BY DEF Types, LoggerFields, RecordInv, WatermarkBehind, Refused
<1> QED
  BY <1>1, <1>2, <1>3, RefusedData, RecordFrame DEF RecordSteps, DataFrame

\* Publish handles no record.
LEMMA PublishData ==
    ASSUME Types, NEW p \in Producers, Publish(p)
    PROVE  DataFrame
<1>1. q'.fifo = q.fifo /\ q'.dequeue_pos = q.dequeue_pos /\ batch' = batch
  BY DEF Types, QueueTypes, QueueFields, Publish, locals
<1>2. /\ l'.async_mode = l.async_mode /\ (l.first_error => l'.first_error)
      /\ l'.async_completed = l.async_completed /\ l'.sync_completed = l.sync_completed
  BY DEF Types, LoggerFields, Publish
<1>3. /\ emitted' = emitted /\ failed' = failed /\ written' = written /\ accepted' = accepted
      /\ durable \subseteq durable' /\ durable' \subseteq durable \cup written
      /\ kind' = kind /\ slot' = slot
  BY DEF Publish, outputs, promises, locals
<1>4. \A o \in Producers : calls'[o] = calls[o]
  BY Roles DEF Publish, locals
<1> QED
  BY <1>1, <1>2, <1>3, <1>4 DEF DataFrame, KeepFrame

\* Publish keeps the invariant of the records.
LEMMA PublishRecords ==
    ASSUME Types, RecordInv, NEW p \in Producers, Publish(p)
    PROVE  RecordInv'
<1>1. \A o \in Producers :
         /\ pc'[o] \in FreshLabels => pc[o] \in FreshLabels
         /\ pc'[o] \in ReservedLabels => pc[o] \in ReservedLabels
         /\ pc'[o] \in AsyncLabels => pc[o] \in AsyncLabels
         /\ pc'[o] = "idle" =>
              result'[o] # "ok" \/ kind[o] = "log" \/ (pc[o] = "idle" /\ result'[o] = result[o])
  BY Roles
  DEF Types, PcTypes, LocalTypes, FreshLabels, ReservedLabels, AsyncLabels, RecordInv,
      QueueUse, Publish, Go, At, locals
<1>2. /\ pc'[Worker] = "batch_done" <=> pc[Worker] = "batch_done"
      /\ pc'[Worker] \notin BatchLabels => batch = 0
      /\ pc'[Host] = "create" => pc'[Worker] = "none"
  BY Roles DEF Types, PcTypes, RecordInv, WatermarkBehind, Publish, Go, At
<1>3. l'.completed_pos <= q.dequeue_pos - batch
  BY DEF Types, LoggerFields, RecordInv, WatermarkBehind, Publish
<1> QED
  BY <1>1, <1>2, <1>3, PublishData, RecordFrame DEF RecordSteps, DataFrame

\* NotifyLock handles no record.
LEMMA NotifyLockData ==
    ASSUME Types, NEW p \in Producers, NotifyLock(p)
    PROVE  DataFrame
<1>1. q'.fifo = q.fifo /\ q'.dequeue_pos = q.dequeue_pos /\ batch' = batch
  BY DEF Types, QueueTypes, QueueFields, NotifyLock, locals
<1>2. /\ l'.async_mode = l.async_mode /\ (l.first_error => l'.first_error)
      /\ l'.async_completed = l.async_completed /\ l'.sync_completed = l.sync_completed
  BY DEF Types, LoggerFields, NotifyLock
<1>3. /\ emitted' = emitted /\ failed' = failed /\ written' = written /\ accepted' = accepted
      /\ durable \subseteq durable' /\ durable' \subseteq durable \cup written
      /\ kind' = kind /\ slot' = slot
  BY DEF NotifyLock, outputs, promises, locals
<1>4. \A o \in Producers : calls'[o] = calls[o]
  BY Roles DEF NotifyLock, locals
<1> QED
  BY <1>1, <1>2, <1>3, <1>4 DEF DataFrame, KeepFrame

\* NotifyLock keeps the invariant of the records.
LEMMA NotifyLockRecords ==
    ASSUME Types, RecordInv, NEW p \in Producers, NotifyLock(p)
    PROVE  RecordInv'
<1>1. \A o \in Producers :
         /\ pc'[o] \in FreshLabels => pc[o] \in FreshLabels
         /\ pc'[o] \in ReservedLabels => pc[o] \in ReservedLabels
         /\ pc'[o] \in AsyncLabels => pc[o] \in AsyncLabels
         /\ pc'[o] = "idle" =>
              result'[o] # "ok" \/ kind[o] = "log" \/ (pc[o] = "idle" /\ result'[o] = result[o])
  BY Roles
  DEF Types, PcTypes, LocalTypes, FreshLabels, ReservedLabels, AsyncLabels, RecordInv,
      QueueUse, NotifyLock, Go, At, locals
<1>2. /\ pc'[Worker] = "batch_done" <=> pc[Worker] = "batch_done"
      /\ pc'[Worker] \notin BatchLabels => batch = 0
      /\ pc'[Host] = "create" => pc'[Worker] = "none"
  BY Roles DEF Types, PcTypes, RecordInv, WatermarkBehind, NotifyLock, Go, At
<1>3. l'.completed_pos <= q.dequeue_pos - batch
  BY DEF Types, LoggerFields, RecordInv, WatermarkBehind, NotifyLock
<1> QED
  BY <1>1, <1>2, <1>3, NotifyLockData, RecordFrame DEF RecordSteps, DataFrame

\* PushFailed handles no record.
LEMMA PushFailedData ==
    ASSUME Types, NEW p \in Producers, PushFailed(p)
    PROVE  DataFrame
<1>1. q'.fifo = q.fifo /\ q'.dequeue_pos = q.dequeue_pos /\ batch' = batch
  BY DEF Types, QueueTypes, QueueFields, PushFailed
<1>2. /\ l'.async_mode = l.async_mode /\ (l.first_error => l'.first_error)
      /\ l'.async_completed = l.async_completed /\ l'.sync_completed = l.sync_completed
  BY DEF Types, LoggerFields, PushFailed
<1>3. /\ emitted' = emitted /\ failed' = failed /\ written' = written /\ accepted' = accepted
      /\ durable \subseteq durable' /\ durable' \subseteq durable \cup written
      /\ kind' = kind /\ slot' = slot
  BY DEF PushFailed, outputs, promises
<1>4. \A o \in Producers : calls'[o] = calls[o]
  BY Roles DEF PushFailed
<1> QED
  BY <1>1, <1>2, <1>3, <1>4 DEF DataFrame, KeepFrame

\* PushFailed keeps the invariant of the records.
LEMMA PushFailedRecords ==
    ASSUME Types, RecordInv, NEW p \in Producers, PushFailed(p)
    PROVE  RecordInv'
<1>1. \A o \in Producers :
         /\ pc'[o] \in FreshLabels => pc[o] \in FreshLabels
         /\ pc'[o] \in ReservedLabels => pc[o] \in ReservedLabels
         /\ pc'[o] \in AsyncLabels => pc[o] \in AsyncLabels
         /\ pc'[o] = "idle" =>
              result'[o] # "ok" \/ kind[o] = "log" \/ (pc[o] = "idle" /\ result'[o] = result[o])
  BY Roles
  DEF Types, PcTypes, LocalTypes, FreshLabels, ReservedLabels, AsyncLabels, RecordInv,
      QueueUse, PushFailed, Go, At, Answer
<1>2. /\ pc'[Worker] = "batch_done" <=> pc[Worker] = "batch_done"
      /\ pc'[Worker] \notin BatchLabels => batch = 0
      /\ pc'[Host] = "create" => pc'[Worker] = "none"
  BY Roles DEF Types, PcTypes, RecordInv, WatermarkBehind, PushFailed, Go, At
<1>3. l'.completed_pos <= q.dequeue_pos - batch
  BY DEF Types, LoggerFields, RecordInv, WatermarkBehind, PushFailed
<1> QED
  BY <1>1, <1>2, <1>3, PushFailedData, RecordFrame DEF RecordSteps, DataFrame

\* ForceLock handles no record.
LEMMA ForceLockData ==
    ASSUME Types, NEW t \in Producers \cup {Host}, ForceLock(t)
    PROVE  DataFrame
<1>1. q'.fifo = q.fifo /\ q'.dequeue_pos = q.dequeue_pos /\ batch' = batch
  BY DEF Types, QueueTypes, QueueFields, ForceLock, locals
<1>2. /\ l'.async_mode = l.async_mode /\ (l.first_error => l'.first_error)
      /\ l'.async_completed = l.async_completed /\ l'.sync_completed = l.sync_completed
  BY DEF Types, LoggerFields, ForceLock
<1>3. /\ emitted' = emitted /\ failed' = failed /\ written' = written /\ accepted' = accepted
      /\ durable \subseteq durable' /\ durable' \subseteq durable \cup written
      /\ kind' = kind /\ slot' = slot
  BY DEF ForceLock, outputs, promises, locals
<1>4. \A o \in Producers : calls'[o] = calls[o]
  BY Roles DEF ForceLock, locals
<1> QED
  BY <1>1, <1>2, <1>3, <1>4 DEF DataFrame, KeepFrame

\* ForceLock keeps the invariant of the records.
LEMMA ForceLockRecords ==
    ASSUME Types, RecordInv, NEW t \in Producers \cup {Host}, ForceLock(t)
    PROVE  RecordInv'
<1>1. \A o \in Producers :
         /\ pc'[o] \in FreshLabels => pc[o] \in FreshLabels
         /\ pc'[o] \in ReservedLabels => pc[o] \in ReservedLabels
         /\ pc'[o] \in AsyncLabels => pc[o] \in AsyncLabels
         /\ pc'[o] = "idle" =>
              result'[o] # "ok" \/ kind[o] = "log" \/ (pc[o] = "idle" /\ result'[o] = result[o])
  BY Roles
  DEF Types, PcTypes, LocalTypes, FreshLabels, ReservedLabels, AsyncLabels, RecordInv,
      QueueUse, ForceLock, Go, At, locals
<1>2. /\ pc'[Worker] = "batch_done" <=> pc[Worker] = "batch_done"
      /\ pc'[Worker] \notin BatchLabels => batch = 0
      /\ pc'[Host] = "create" => pc'[Worker] = "none"
  BY Roles DEF Types, PcTypes, RecordInv, WatermarkBehind, ForceLock, Go, At
<1>3. l'.completed_pos <= q.dequeue_pos - batch
  BY DEF Types, LoggerFields, RecordInv, WatermarkBehind, ForceLock
<1> QED
  BY <1>1, <1>2, <1>3, ForceLockData, RecordFrame DEF RecordSteps, DataFrame

\* WakeForce handles no record.
LEMMA WakeForceData ==
    ASSUME Types, NEW t \in Producers \cup {Host}, WakeForce(t)
    PROVE  DataFrame
<1>1. q'.fifo = q.fifo /\ q'.dequeue_pos = q.dequeue_pos /\ batch' = batch
  BY DEF Types, QueueTypes, QueueFields, WakeForce
<1>2. /\ l'.async_mode = l.async_mode /\ (l.first_error => l'.first_error)
      /\ l'.async_completed = l.async_completed /\ l'.sync_completed = l.sync_completed
  BY DEF Types, LoggerFields, WakeForce
<1>3. /\ emitted' = emitted /\ failed' = failed /\ written' = written /\ accepted' = accepted
      /\ durable \subseteq durable' /\ durable' \subseteq durable \cup written
      /\ kind' = kind /\ slot' = slot
  BY DEF WakeForce, outputs, promises
<1>4. \A o \in Producers : calls'[o] = calls[o]
  BY Roles DEF WakeForce
<1> QED
  BY <1>1, <1>2, <1>3, <1>4 DEF DataFrame, KeepFrame

\* WakeForce keeps the invariant of the records.
LEMMA WakeForceRecords ==
    ASSUME Types, RecordInv, NEW t \in Producers \cup {Host}, WakeForce(t)
    PROVE  RecordInv'
<1>1. \A o \in Producers :
         /\ pc'[o] \in FreshLabels => pc[o] \in FreshLabels
         /\ pc'[o] \in ReservedLabels => pc[o] \in ReservedLabels
         /\ pc'[o] \in AsyncLabels => pc[o] \in AsyncLabels
         /\ pc'[o] = "idle" =>
              result'[o] # "ok" \/ kind[o] = "log" \/ (pc[o] = "idle" /\ result'[o] = result[o])
  BY Roles
  DEF Types, PcTypes, LocalTypes, FreshLabels, ReservedLabels, AsyncLabels, RecordInv,
      QueueUse, WakeForce, Go, At
<1>2. /\ pc'[Worker] = "batch_done" <=> pc[Worker] = "batch_done"
      /\ pc'[Worker] \notin BatchLabels => batch = 0
      /\ pc'[Host] = "create" => pc'[Worker] = "none"
  BY Roles DEF Types, PcTypes, RecordInv, WatermarkBehind, WakeForce, Go, At
<1>3. l'.completed_pos <= q.dequeue_pos - batch
  BY DEF Types, LoggerFields, RecordInv, WatermarkBehind, WakeForce
<1> QED
  BY <1>1, <1>2, <1>3, WakeForceData, RecordFrame DEF RecordSteps, DataFrame

\* ForceFailed handles no record.
LEMMA ForceFailedData ==
    ASSUME Types, NEW t \in Producers \cup {Host}, ForceFailed(t)
    PROVE  DataFrame
<1>1. q'.fifo = q.fifo /\ q'.dequeue_pos = q.dequeue_pos /\ batch' = batch
  BY DEF Types, QueueTypes, QueueFields, ForceFailed
<1>2. /\ l'.async_mode = l.async_mode /\ (l.first_error => l'.first_error)
      /\ l'.async_completed = l.async_completed /\ l'.sync_completed = l.sync_completed
  BY DEF Types, LoggerFields, ForceFailed
<1>3. /\ emitted' = emitted /\ failed' = failed /\ written' = written /\ accepted' = accepted
      /\ durable \subseteq durable' /\ durable' \subseteq durable \cup written
      /\ kind' = kind /\ slot' = slot
  BY DEF ForceFailed, outputs, promises
<1>4. \A o \in Producers : calls'[o] = calls[o]
  BY Roles DEF ForceFailed
<1> QED
  BY <1>1, <1>2, <1>3, <1>4 DEF DataFrame, KeepFrame

\* ForceFailed keeps the invariant of the records.
LEMMA ForceFailedRecords ==
    ASSUME Types, RecordInv, NEW t \in Producers \cup {Host}, ForceFailed(t)
    PROVE  RecordInv'
<1>1. \A o \in Producers :
         /\ pc'[o] \in FreshLabels => pc[o] \in FreshLabels
         /\ pc'[o] \in ReservedLabels => pc[o] \in ReservedLabels
         /\ pc'[o] \in AsyncLabels => pc[o] \in AsyncLabels
         /\ pc'[o] = "idle" =>
              result'[o] # "ok" \/ kind[o] = "log" \/ (pc[o] = "idle" /\ result'[o] = result[o])
  BY Roles
  DEF Types, PcTypes, LocalTypes, FreshLabels, ReservedLabels, AsyncLabels, RecordInv,
      QueueUse, ForceFailed, Go, At
<1>2. /\ pc'[Worker] = "batch_done" <=> pc[Worker] = "batch_done"
      /\ pc'[Worker] \notin BatchLabels => batch = 0
      /\ pc'[Host] = "create" => pc'[Worker] = "none"
  BY Roles DEF Types, PcTypes, RecordInv, WatermarkBehind, ForceFailed, Go, At
<1>3. l'.completed_pos <= q.dequeue_pos - batch
  BY DEF Types, LoggerFields, RecordInv, WatermarkBehind, ForceFailed
<1> QED
  BY <1>1, <1>2, <1>3, ForceFailedData, RecordFrame DEF RecordSteps, DataFrame

\* EnterFlush handles no record.
LEMMA EnterFlushData ==
    ASSUME Types, NEW f \in Flushers, EnterFlush(f)
    PROVE  DataFrame
<1>1. q'.fifo = q.fifo /\ q'.dequeue_pos = q.dequeue_pos /\ batch' = batch
  BY DEF Types, QueueTypes, QueueFields, EnterFlush
<1>2. /\ l'.async_mode = l.async_mode /\ (l.first_error => l'.first_error)
      /\ l'.async_completed = l.async_completed /\ l'.sync_completed = l.sync_completed
  BY DEF Types, LoggerFields, EnterFlush
<1>3. /\ emitted' = emitted /\ failed' = failed /\ written' = written /\ accepted' = accepted
      /\ durable \subseteq durable' /\ durable' \subseteq durable \cup written
      /\ kind' = kind /\ slot' = slot
  BY DEF EnterFlush, outputs
<1>4. \A o \in Producers : calls'[o] = calls[o]
  BY Roles DEF Types, LocalTypes, EnterFlush
<1> QED
  BY <1>1, <1>2, <1>3, <1>4 DEF DataFrame, KeepFrame

\* EnterFlush keeps the invariant of the records.
LEMMA EnterFlushRecords ==
    ASSUME Types, RecordInv, NEW f \in Flushers, EnterFlush(f)
    PROVE  RecordInv'
<1>1. \A o \in Producers :
         /\ pc'[o] \in FreshLabels => pc[o] \in FreshLabels
         /\ pc'[o] \in ReservedLabels => pc[o] \in ReservedLabels
         /\ pc'[o] \in AsyncLabels => pc[o] \in AsyncLabels
         /\ pc'[o] = "idle" =>
              result'[o] # "ok" \/ kind[o] = "log" \/ (pc[o] = "idle" /\ result'[o] = result[o])
  BY Roles DEF Types, PcTypes, LocalTypes, EnterFlush, Go, At, Answer
<1>2. /\ pc'[Worker] = "batch_done" <=> pc[Worker] = "batch_done"
      /\ pc'[Worker] \notin BatchLabels => batch = 0
      /\ pc'[Host] = "create" => pc'[Worker] = "none"
  BY Roles DEF Types, PcTypes, RecordInv, WatermarkBehind, EnterFlush, Go, At
<1>3. l'.completed_pos <= q.dequeue_pos - batch
  BY DEF Types, LoggerFields, RecordInv, WatermarkBehind, EnterFlush
<1> QED
  BY <1>1, <1>2, <1>3, EnterFlushData, RecordFrame DEF RecordSteps, DataFrame

\* FlushCheck handles no record.
LEMMA FlushCheckData ==
    ASSUME Types, NEW f \in Flushers, FlushCheck(f)
    PROVE  DataFrame
<1>1. q'.fifo = q.fifo /\ q'.dequeue_pos = q.dequeue_pos /\ batch' = batch
  BY DEF Types, QueueTypes, QueueFields, FlushCheck
<1>2. /\ l'.async_mode = l.async_mode /\ (l.first_error => l'.first_error)
      /\ l'.async_completed = l.async_completed /\ l'.sync_completed = l.sync_completed
  BY DEF Types, LoggerFields, FlushCheck
<1>3. /\ emitted' = emitted /\ failed' = failed /\ written' = written /\ accepted' = accepted
      /\ durable \subseteq durable' /\ durable' \subseteq durable \cup written
      /\ kind' = kind /\ slot' = slot
  BY DEF FlushCheck, outputs, promises
<1>4. \A o \in Producers : calls'[o] = calls[o]
  BY Roles DEF FlushCheck
<1> QED
  BY <1>1, <1>2, <1>3, <1>4 DEF DataFrame, KeepFrame

\* FlushCheck keeps the invariant of the records.
LEMMA FlushCheckRecords ==
    ASSUME Types, RecordInv, NEW f \in Flushers, FlushCheck(f)
    PROVE  RecordInv'
<1>1. \A o \in Producers :
         /\ pc'[o] \in FreshLabels => pc[o] \in FreshLabels
         /\ pc'[o] \in ReservedLabels => pc[o] \in ReservedLabels
         /\ pc'[o] \in AsyncLabels => pc[o] \in AsyncLabels
         /\ pc'[o] = "idle" =>
              result'[o] # "ok" \/ kind[o] = "log" \/ (pc[o] = "idle" /\ result'[o] = result[o])
  BY Roles DEF Types, PcTypes, LocalTypes, FlushCheck, Go, At, Answer
<1>2. /\ pc'[Worker] = "batch_done" <=> pc[Worker] = "batch_done"
      /\ pc'[Worker] \notin BatchLabels => batch = 0
      /\ pc'[Host] = "create" => pc'[Worker] = "none"
  BY Roles DEF Types, PcTypes, RecordInv, WatermarkBehind, FlushCheck, Go, At
<1>3. l'.completed_pos <= q.dequeue_pos - batch
  BY DEF Types, LoggerFields, RecordInv, WatermarkBehind, FlushCheck
<1> QED
  BY <1>1, <1>2, <1>3, FlushCheckData, RecordFrame DEF RecordSteps, DataFrame

\* FlushTarget handles no record.
LEMMA FlushTargetData ==
    ASSUME Types, NEW f \in Flushers, FlushTarget(f)
    PROVE  DataFrame
<1>1. q'.fifo = q.fifo /\ q'.dequeue_pos = q.dequeue_pos /\ batch' = batch
  BY DEF Types, QueueTypes, QueueFields, FlushTarget
<1>2. /\ l'.async_mode = l.async_mode /\ (l.first_error => l'.first_error)
      /\ l'.async_completed = l.async_completed /\ l'.sync_completed = l.sync_completed
  BY DEF Types, LoggerFields, FlushTarget
<1>3. /\ emitted' = emitted /\ failed' = failed /\ written' = written /\ accepted' = accepted
      /\ durable \subseteq durable' /\ durable' \subseteq durable \cup written
      /\ kind' = kind /\ slot' = slot
  BY DEF FlushTarget, outputs, promises
<1>4. \A o \in Producers : calls'[o] = calls[o]
  BY Roles DEF FlushTarget
<1> QED
  BY <1>1, <1>2, <1>3, <1>4 DEF DataFrame, KeepFrame

\* FlushTarget keeps the invariant of the records.
LEMMA FlushTargetRecords ==
    ASSUME Types, RecordInv, NEW f \in Flushers, FlushTarget(f)
    PROVE  RecordInv'
<1>1. \A o \in Producers :
         /\ pc'[o] \in FreshLabels => pc[o] \in FreshLabels
         /\ pc'[o] \in ReservedLabels => pc[o] \in ReservedLabels
         /\ pc'[o] \in AsyncLabels => pc[o] \in AsyncLabels
         /\ pc'[o] = "idle" =>
              result'[o] # "ok" \/ kind[o] = "log" \/ (pc[o] = "idle" /\ result'[o] = result[o])
  BY Roles DEF Types, PcTypes, LocalTypes, FlushTarget, Go, At
<1>2. /\ pc'[Worker] = "batch_done" <=> pc[Worker] = "batch_done"
      /\ pc'[Worker] \notin BatchLabels => batch = 0
      /\ pc'[Host] = "create" => pc'[Worker] = "none"
  BY Roles DEF Types, PcTypes, RecordInv, WatermarkBehind, FlushTarget, Go, At
<1>3. l'.completed_pos <= q.dequeue_pos - batch
  BY DEF Types, LoggerFields, RecordInv, WatermarkBehind, FlushTarget
<1> QED
  BY <1>1, <1>2, <1>3, FlushTargetData, RecordFrame DEF RecordSteps, DataFrame

\* FlushLock handles no record.
LEMMA FlushLockData ==
    ASSUME Types, NEW f \in Flushers, FlushLock(f)
    PROVE  DataFrame
<1>1. q'.fifo = q.fifo /\ q'.dequeue_pos = q.dequeue_pos /\ batch' = batch
  BY DEF Types, QueueTypes, QueueFields, FlushLock
<1>2. /\ l'.async_mode = l.async_mode /\ (l.first_error => l'.first_error)
      /\ l'.async_completed = l.async_completed /\ l'.sync_completed = l.sync_completed
  BY DEF Types, LoggerFields, FlushLock
<1>3. /\ emitted' = emitted /\ failed' = failed /\ written' = written /\ accepted' = accepted
      /\ durable \subseteq durable' /\ durable' \subseteq durable \cup written
      /\ kind' = kind /\ slot' = slot
  BY DEF FlushLock, outputs, promises
<1>4. \A o \in Producers : calls'[o] = calls[o]
  BY Roles DEF FlushLock
<1> QED
  BY <1>1, <1>2, <1>3, <1>4 DEF DataFrame, KeepFrame

\* FlushLock keeps the invariant of the records.
LEMMA FlushLockRecords ==
    ASSUME Types, RecordInv, NEW f \in Flushers, FlushLock(f)
    PROVE  RecordInv'
<1>1. \A o \in Producers :
         /\ pc'[o] \in FreshLabels => pc[o] \in FreshLabels
         /\ pc'[o] \in ReservedLabels => pc[o] \in ReservedLabels
         /\ pc'[o] \in AsyncLabels => pc[o] \in AsyncLabels
         /\ pc'[o] = "idle" =>
              result'[o] # "ok" \/ kind[o] = "log" \/ (pc[o] = "idle" /\ result'[o] = result[o])
  BY Roles DEF Types, PcTypes, LocalTypes, FlushLock, Go, At, Answer
<1>2. /\ pc'[Worker] = "batch_done" <=> pc[Worker] = "batch_done"
      /\ pc'[Worker] \notin BatchLabels => batch = 0
      /\ pc'[Host] = "create" => pc'[Worker] = "none"
  BY Roles DEF Types, PcTypes, RecordInv, WatermarkBehind, FlushLock, Go, At
<1>3. l'.completed_pos <= q.dequeue_pos - batch
  BY DEF Types, LoggerFields, RecordInv, WatermarkBehind, FlushLock
<1> QED
  BY <1>1, <1>2, <1>3, FlushLockData, RecordFrame DEF RecordSteps, DataFrame

\* FlushTest handles no record.
LEMMA FlushTestData ==
    ASSUME Types, NEW f \in Flushers, FlushTest(f)
    PROVE  DataFrame
<1>1. q'.fifo = q.fifo /\ q'.dequeue_pos = q.dequeue_pos /\ batch' = batch
  BY DEF Types, QueueTypes, QueueFields, FlushTest
<1>2. /\ l'.async_mode = l.async_mode /\ (l.first_error => l'.first_error)
      /\ l'.async_completed = l.async_completed /\ l'.sync_completed = l.sync_completed
  BY DEF Types, LoggerFields, FlushTest
<1>3. /\ emitted' = emitted /\ failed' = failed /\ written' = written /\ accepted' = accepted
      /\ durable \subseteq durable' /\ durable' \subseteq durable \cup written
      /\ kind' = kind /\ slot' = slot
  BY DEF FlushTest, outputs, promises
<1>4. \A o \in Producers : calls'[o] = calls[o]
  BY Roles DEF FlushTest
<1> QED
  BY <1>1, <1>2, <1>3, <1>4 DEF DataFrame, KeepFrame

\* FlushTest keeps the invariant of the records.
LEMMA FlushTestRecords ==
    ASSUME Types, RecordInv, NEW f \in Flushers, FlushTest(f)
    PROVE  RecordInv'
<1>1. \A o \in Producers :
         /\ pc'[o] \in FreshLabels => pc[o] \in FreshLabels
         /\ pc'[o] \in ReservedLabels => pc[o] \in ReservedLabels
         /\ pc'[o] \in AsyncLabels => pc[o] \in AsyncLabels
         /\ pc'[o] = "idle" =>
              result'[o] # "ok" \/ kind[o] = "log" \/ (pc[o] = "idle" /\ result'[o] = result[o])
  BY Roles DEF Types, PcTypes, LocalTypes, FlushTest, Go, At, Answer
<1>2. /\ pc'[Worker] = "batch_done" <=> pc[Worker] = "batch_done"
      /\ pc'[Worker] \notin BatchLabels => batch = 0
      /\ pc'[Host] = "create" => pc'[Worker] = "none"
  BY Roles DEF Types, PcTypes, RecordInv, WatermarkBehind, FlushTest, Go, At
<1>3. l'.completed_pos <= q.dequeue_pos - batch
  BY DEF Types, LoggerFields, RecordInv, WatermarkBehind, FlushTest
<1> QED
  BY <1>1, <1>2, <1>3, FlushTestData, RecordFrame DEF RecordSteps, DataFrame

\* FlushAwake handles no record.
LEMMA FlushAwakeData ==
    ASSUME Types, NEW f \in Flushers, FlushAwake(f)
    PROVE  DataFrame
<1>1. q'.fifo = q.fifo /\ q'.dequeue_pos = q.dequeue_pos /\ batch' = batch
  BY DEF Types, QueueTypes, QueueFields, FlushAwake, locals
<1>2. /\ l'.async_mode = l.async_mode /\ (l.first_error => l'.first_error)
      /\ l'.async_completed = l.async_completed /\ l'.sync_completed = l.sync_completed
  BY DEF Types, LoggerFields, FlushAwake
<1>3. /\ emitted' = emitted /\ failed' = failed /\ written' = written /\ accepted' = accepted
      /\ durable \subseteq durable' /\ durable' \subseteq durable \cup written
      /\ kind' = kind /\ slot' = slot
  BY DEF FlushAwake, outputs, promises, locals
<1>4. \A o \in Producers : calls'[o] = calls[o]
  BY Roles DEF FlushAwake, locals
<1> QED
  BY <1>1, <1>2, <1>3, <1>4 DEF DataFrame, KeepFrame

\* FlushAwake keeps the invariant of the records.
LEMMA FlushAwakeRecords ==
    ASSUME Types, RecordInv, NEW f \in Flushers, FlushAwake(f)
    PROVE  RecordInv'
<1>1. \A o \in Producers :
         /\ pc'[o] \in FreshLabels => pc[o] \in FreshLabels
         /\ pc'[o] \in ReservedLabels => pc[o] \in ReservedLabels
         /\ pc'[o] \in AsyncLabels => pc[o] \in AsyncLabels
         /\ pc'[o] = "idle" =>
              result'[o] # "ok" \/ kind[o] = "log" \/ (pc[o] = "idle" /\ result'[o] = result[o])
  BY Roles DEF Types, PcTypes, LocalTypes, FlushAwake, Go, At, locals
<1>2. /\ pc'[Worker] = "batch_done" <=> pc[Worker] = "batch_done"
      /\ pc'[Worker] \notin BatchLabels => batch = 0
      /\ pc'[Host] = "create" => pc'[Worker] = "none"
  BY Roles DEF Types, PcTypes, RecordInv, WatermarkBehind, FlushAwake, Go, At
<1>3. l'.completed_pos <= q.dequeue_pos - batch
  BY DEF Types, LoggerFields, RecordInv, WatermarkBehind, FlushAwake
<1> QED
  BY <1>1, <1>2, <1>3, FlushAwakeData, RecordFrame DEF RecordSteps, DataFrame

\* FlushError handles no record.
LEMMA FlushErrorData ==
    ASSUME Types, NEW f \in Flushers, FlushError(f)
    PROVE  DataFrame
<1>1. q'.fifo = q.fifo /\ q'.dequeue_pos = q.dequeue_pos /\ batch' = batch
  BY DEF Types, QueueTypes, QueueFields, FlushError
<1>2. /\ l'.async_mode = l.async_mode /\ (l.first_error => l'.first_error)
      /\ l'.async_completed = l.async_completed /\ l'.sync_completed = l.sync_completed
  BY DEF Types, LoggerFields, FlushError
<1>3. /\ emitted' = emitted /\ failed' = failed /\ written' = written /\ accepted' = accepted
      /\ durable \subseteq durable' /\ durable' \subseteq durable \cup written
      /\ kind' = kind /\ slot' = slot
  BY DEF FlushError, outputs, promises
<1>4. \A o \in Producers : calls'[o] = calls[o]
  BY Roles DEF FlushError
<1> QED
  BY <1>1, <1>2, <1>3, <1>4 DEF DataFrame, KeepFrame

\* FlushError keeps the invariant of the records.
LEMMA FlushErrorRecords ==
    ASSUME Types, RecordInv, NEW f \in Flushers, FlushError(f)
    PROVE  RecordInv'
<1>1. \A o \in Producers :
         /\ pc'[o] \in FreshLabels => pc[o] \in FreshLabels
         /\ pc'[o] \in ReservedLabels => pc[o] \in ReservedLabels
         /\ pc'[o] \in AsyncLabels => pc[o] \in AsyncLabels
         /\ pc'[o] = "idle" =>
              result'[o] # "ok" \/ kind[o] = "log" \/ (pc[o] = "idle" /\ result'[o] = result[o])
  BY Roles DEF Types, PcTypes, LocalTypes, FlushError, Go, At, Answer
<1>2. /\ pc'[Worker] = "batch_done" <=> pc[Worker] = "batch_done"
      /\ pc'[Worker] \notin BatchLabels => batch = 0
      /\ pc'[Host] = "create" => pc'[Worker] = "none"
  BY Roles DEF Types, PcTypes, RecordInv, WatermarkBehind, FlushError, Go, At
<1>3. l'.completed_pos <= q.dequeue_pos - batch
  BY DEF Types, LoggerFields, RecordInv, WatermarkBehind, FlushError
<1> QED
  BY <1>1, <1>2, <1>3, FlushErrorData, RecordFrame DEF RecordSteps, DataFrame

\* SyncCheck handles no record.
LEMMA SyncCheckData ==
    ASSUME Types, NEW f \in Flushers, SyncCheck(f)
    PROVE  DataFrame
<1>1. q'.fifo = q.fifo /\ q'.dequeue_pos = q.dequeue_pos /\ batch' = batch
  BY DEF Types, QueueTypes, QueueFields, SyncCheck
<1>2. /\ l'.async_mode = l.async_mode /\ (l.first_error => l'.first_error)
      /\ l'.async_completed = l.async_completed /\ l'.sync_completed = l.sync_completed
  BY DEF Types, LoggerFields, SyncCheck
<1>3. /\ emitted' = emitted /\ failed' = failed /\ written' = written /\ accepted' = accepted
      /\ durable \subseteq durable' /\ durable' \subseteq durable \cup written
      /\ kind' = kind /\ slot' = slot
  BY DEF SyncCheck, outputs, promises
<1>4. \A o \in Producers : calls'[o] = calls[o]
  BY Roles DEF SyncCheck
<1> QED
  BY <1>1, <1>2, <1>3, <1>4 DEF DataFrame, KeepFrame

\* SyncCheck keeps the invariant of the records.
LEMMA SyncCheckRecords ==
    ASSUME Types, RecordInv, NEW f \in Flushers, SyncCheck(f)
    PROVE  RecordInv'
<1>1. \A o \in Producers :
         /\ pc'[o] \in FreshLabels => pc[o] \in FreshLabels
         /\ pc'[o] \in ReservedLabels => pc[o] \in ReservedLabels
         /\ pc'[o] \in AsyncLabels => pc[o] \in AsyncLabels
         /\ pc'[o] = "idle" =>
              result'[o] # "ok" \/ kind[o] = "log" \/ (pc[o] = "idle" /\ result'[o] = result[o])
  BY Roles DEF Types, PcTypes, LocalTypes, SyncCheck, Go, At, Answer
<1>2. /\ pc'[Worker] = "batch_done" <=> pc[Worker] = "batch_done"
      /\ pc'[Worker] \notin BatchLabels => batch = 0
      /\ pc'[Host] = "create" => pc'[Worker] = "none"
  BY Roles DEF Types, PcTypes, RecordInv, WatermarkBehind, SyncCheck, Go, At
<1>3. l'.completed_pos <= q.dequeue_pos - batch
  BY DEF Types, LoggerFields, RecordInv, WatermarkBehind, SyncCheck
<1> QED
  BY <1>1, <1>2, <1>3, SyncCheckData, RecordFrame DEF RecordSteps, DataFrame

\* SyncLock handles no record.
LEMMA SyncLockData ==
    ASSUME Types, NEW f \in Flushers, SyncLock(f)
    PROVE  DataFrame
<1>1. q'.fifo = q.fifo /\ q'.dequeue_pos = q.dequeue_pos /\ batch' = batch
  BY DEF Types, QueueTypes, QueueFields, SyncLock
<1>2. /\ l'.async_mode = l.async_mode /\ (l.first_error => l'.first_error)
      /\ l'.async_completed = l.async_completed /\ l'.sync_completed = l.sync_completed
  BY DEF Types, LoggerFields, SyncLock
<1>3. /\ emitted' = emitted /\ failed' = failed /\ written' = written /\ accepted' = accepted
      /\ durable \subseteq durable' /\ durable' \subseteq durable \cup written
      /\ kind' = kind /\ slot' = slot
  BY DEF SyncLock, outputs, promises
<1>4. \A o \in Producers : calls'[o] = calls[o]
  BY Roles DEF SyncLock
<1> QED
  BY <1>1, <1>2, <1>3, <1>4 DEF DataFrame, KeepFrame

\* SyncLock keeps the invariant of the records.
LEMMA SyncLockRecords ==
    ASSUME Types, RecordInv, NEW f \in Flushers, SyncLock(f)
    PROVE  RecordInv'
<1>1. \A o \in Producers :
         /\ pc'[o] \in FreshLabels => pc[o] \in FreshLabels
         /\ pc'[o] \in ReservedLabels => pc[o] \in ReservedLabels
         /\ pc'[o] \in AsyncLabels => pc[o] \in AsyncLabels
         /\ pc'[o] = "idle" =>
              result'[o] # "ok" \/ kind[o] = "log" \/ (pc[o] = "idle" /\ result'[o] = result[o])
  BY Roles DEF Types, PcTypes, LocalTypes, SyncLock, Go, At, Answer
<1>2. /\ pc'[Worker] = "batch_done" <=> pc[Worker] = "batch_done"
      /\ pc'[Worker] \notin BatchLabels => batch = 0
      /\ pc'[Host] = "create" => pc'[Worker] = "none"
  BY Roles DEF Types, PcTypes, RecordInv, WatermarkBehind, SyncLock, Go, At
<1>3. l'.completed_pos <= q.dequeue_pos - batch
  BY DEF Types, LoggerFields, RecordInv, WatermarkBehind, SyncLock
<1> QED
  BY <1>1, <1>2, <1>3, SyncLockData, RecordFrame DEF RecordSteps, DataFrame

\* What a sync leaves durable was written, and it loses nothing unless an error
\* is latched.
LEMMA SyncedOutputs ==
    ASSUME Types, RecordInv, NEW t, NEW hit, SyncOutputs(t, hit)
    PROVE  durable \subseteq durable' /\ (written' = written \/ l'.first_error) /\ durable' \subseteq written'
<1>1. durable \subseteq written
  BY DEF RecordInv, WrittenFirst
<1>2. CASE <<"io", "fsync">> \in hit
  <2>1. l'.first_error /\ durable' = durable
    BY <1>2 DEF Types, LoggerFields, SyncOutputs
  <2>2. PICK lost \in SUBSET (written \ durable) : written' = written \ lost
    BY <1>2 DEF SyncOutputs, StillWritten
  <2> QED
    BY <1>1, <2>1, <2>2
<1>3. CASE <<"io", "fsync">> \notin hit
  BY <1>1, <1>3 DEF SyncOutputs, StillWritten
<1> QED
  BY <1>2, <1>3

\* Sync handles no record.
LEMMA SyncData ==
    ASSUME Types, RecordInv, NEW f \in Flushers, Sync(f)
    PROVE  DataFrame
<1>1. q'.fifo = q.fifo /\ q'.dequeue_pos = q.dequeue_pos /\ batch' = batch
  BY DEF Types, QueueTypes, QueueFields, Sync
<1>2. /\ l'.async_mode = l.async_mode /\ (l.first_error => l'.first_error)
      /\ l'.async_completed = l.async_completed /\ l'.sync_completed = l.sync_completed
  BY DEF Types, LoggerFields, Sync, SyncOutputs
<1>3. /\ emitted' = emitted /\ failed' = failed /\ accepted' = accepted
      /\ kind' = kind /\ slot' = slot
  BY DEF Sync, promises
<1>5. PICK hit : SyncOutputs(f, hit)
  BY DEF Sync
<1>6. durable \subseteq durable' /\ (written' = written \/ l'.first_error) /\ durable' \subseteq written'
  BY <1>5, SyncedOutputs
<1>4. \A o \in Producers : calls'[o] = calls[o]
  BY Roles DEF Sync
<1> QED
  BY <1>1, <1>2, <1>3, <1>4, <1>6 DEF DataFrame, KeepFrame

\* Sync keeps the invariant of the records.
LEMMA SyncRecords ==
    ASSUME Types, RecordInv, NEW f \in Flushers, Sync(f)
    PROVE  RecordInv'
<1>1. \A o \in Producers :
         /\ pc'[o] \in FreshLabels => pc[o] \in FreshLabels
         /\ pc'[o] \in ReservedLabels => pc[o] \in ReservedLabels
         /\ pc'[o] \in AsyncLabels => pc[o] \in AsyncLabels
         /\ pc'[o] = "idle" =>
              result'[o] # "ok" \/ kind[o] = "log" \/ (pc[o] = "idle" /\ result'[o] = result[o])
  BY Roles DEF Types, PcTypes, LocalTypes, Sync, Go, At, SyncOutputs
<1>2. /\ pc'[Worker] = "batch_done" <=> pc[Worker] = "batch_done"
      /\ pc'[Worker] \notin BatchLabels => batch = 0
      /\ pc'[Host] = "create" => pc'[Worker] = "none"
  BY Roles DEF Types, PcTypes, RecordInv, WatermarkBehind, Sync, Go, At
<1>3. l'.completed_pos <= q.dequeue_pos - batch
  BY DEF Types, LoggerFields, RecordInv, WatermarkBehind, Sync, SyncOutputs
<1> QED
  BY <1>1, <1>2, <1>3, SyncData, RecordFrame DEF RecordSteps, DataFrame

\* DrainEnd handles no record.
LEMMA DrainEndData ==
    ASSUME Types, DrainEnd
    PROVE  DataFrame
<1>1. q'.fifo = q.fifo /\ q'.dequeue_pos = q.dequeue_pos /\ batch' = batch
  BY DEF Types, QueueTypes, QueueFields, DrainEnd, locals
<1>2. /\ l'.async_mode = l.async_mode /\ (l.first_error => l'.first_error)
      /\ l'.async_completed = l.async_completed /\ l'.sync_completed = l.sync_completed
  BY DEF Types, LoggerFields, DrainEnd
<1>3. /\ emitted' = emitted /\ failed' = failed /\ written' = written /\ accepted' = accepted
      /\ durable \subseteq durable' /\ durable' \subseteq durable \cup written
      /\ kind' = kind /\ slot' = slot
  BY DEF DrainEnd, outputs, promises, locals
<1>4. \A o \in Producers : calls'[o] = calls[o]
  BY Roles DEF DrainEnd, locals
<1> QED
  BY <1>1, <1>2, <1>3, <1>4 DEF DataFrame, KeepFrame

\* DrainEnd keeps the invariant of the records.
LEMMA DrainEndRecords ==
    ASSUME Types, RecordInv, DrainEnd
    PROVE  RecordInv'
<1>1. \A o \in Producers :
         /\ pc'[o] \in FreshLabels => pc[o] \in FreshLabels
         /\ pc'[o] \in ReservedLabels => pc[o] \in ReservedLabels
         /\ pc'[o] \in AsyncLabels => pc[o] \in AsyncLabels
         /\ pc'[o] = "idle" =>
              result'[o] # "ok" \/ kind[o] = "log" \/ (pc[o] = "idle" /\ result'[o] = result[o])
  BY Roles DEF Types, PcTypes, LocalTypes, DrainEnd, Go, At, locals
<1>2. /\ pc'[Worker] = "batch_done" <=> pc[Worker] = "batch_done"
      /\ pc'[Worker] \notin BatchLabels => batch = 0
      /\ pc'[Host] = "create" => pc'[Worker] = "none"
  BY Roles DEF Types, PcTypes, RecordInv, WatermarkBehind, BatchLabels, DrainEnd, Go, At
<1>3. l'.completed_pos <= q.dequeue_pos - batch
  BY DEF Types, LoggerFields, RecordInv, WatermarkBehind, DrainEnd
<1> QED
  BY <1>1, <1>2, <1>3, DrainEndData, RecordFrame DEF RecordSteps, DataFrame

\* ProgressLock handles no record.
LEMMA ProgressLockData ==
    ASSUME Types, ProgressLock
    PROVE  DataFrame
<1>1. q'.fifo = q.fifo /\ q'.dequeue_pos = q.dequeue_pos /\ batch' = batch
  BY DEF Types, QueueTypes, QueueFields, ProgressLock, locals
<1>2. /\ l'.async_mode = l.async_mode /\ (l.first_error => l'.first_error)
      /\ l'.async_completed = l.async_completed /\ l'.sync_completed = l.sync_completed
  BY DEF Types, LoggerFields, ProgressLock
<1>3. /\ emitted' = emitted /\ failed' = failed /\ written' = written /\ accepted' = accepted
      /\ durable \subseteq durable' /\ durable' \subseteq durable \cup written
      /\ kind' = kind /\ slot' = slot
  BY DEF ProgressLock, outputs, promises, locals
<1>4. \A o \in Producers : calls'[o] = calls[o]
  BY Roles DEF ProgressLock, locals
<1> QED
  BY <1>1, <1>2, <1>3, <1>4 DEF DataFrame, KeepFrame

\* ProgressLock keeps the invariant of the records.
LEMMA ProgressLockRecords ==
    ASSUME Types, RecordInv, ProgressLock
    PROVE  RecordInv'
<1>1. \A o \in Producers :
         /\ pc'[o] \in FreshLabels => pc[o] \in FreshLabels
         /\ pc'[o] \in ReservedLabels => pc[o] \in ReservedLabels
         /\ pc'[o] \in AsyncLabels => pc[o] \in AsyncLabels
         /\ pc'[o] = "idle" =>
              result'[o] # "ok" \/ kind[o] = "log" \/ (pc[o] = "idle" /\ result'[o] = result[o])
  BY Roles DEF Types, PcTypes, LocalTypes, ProgressLock, Go, At, locals
<1>2. /\ pc'[Worker] = "batch_done" <=> pc[Worker] = "batch_done"
      /\ pc'[Worker] \notin BatchLabels => batch = 0
      /\ pc'[Host] = "create" => pc'[Worker] = "none"
  BY Roles DEF Types, PcTypes, RecordInv, WatermarkBehind, BatchLabels, ProgressLock, Go, At
<1>3. l'.completed_pos <= q.dequeue_pos - batch
  BY DEF Types, LoggerFields, RecordInv, WatermarkBehind, ProgressLock
<1> QED
  BY <1>1, <1>2, <1>3, ProgressLockData, RecordFrame DEF RecordSteps, DataFrame

\* Progress handles no record.
LEMMA ProgressData ==
    ASSUME Types, Progress
    PROVE  DataFrame
<1>1. q'.fifo = q.fifo /\ q'.dequeue_pos = q.dequeue_pos /\ batch' = batch
  BY DEF Types, QueueTypes, QueueFields, Progress, locals
<1>2. /\ l'.async_mode = l.async_mode /\ (l.first_error => l'.first_error)
      /\ l'.async_completed = l.async_completed /\ l'.sync_completed = l.sync_completed
  BY DEF Types, LoggerFields, Progress
<1>3. /\ emitted' = emitted /\ failed' = failed /\ written' = written /\ accepted' = accepted
      /\ durable \subseteq durable' /\ durable' \subseteq durable \cup written
      /\ kind' = kind /\ slot' = slot
  BY DEF Progress, outputs, promises, locals
<1>4. \A o \in Producers : calls'[o] = calls[o]
  BY Roles DEF Progress, locals
<1> QED
  BY <1>1, <1>2, <1>3, <1>4 DEF DataFrame, KeepFrame

\* Progress keeps the invariant of the records.
LEMMA ProgressRecords ==
    ASSUME Types, RecordInv, Progress
    PROVE  RecordInv'
<1>1. \A o \in Producers :
         /\ pc'[o] \in FreshLabels => pc[o] \in FreshLabels
         /\ pc'[o] \in ReservedLabels => pc[o] \in ReservedLabels
         /\ pc'[o] \in AsyncLabels => pc[o] \in AsyncLabels
         /\ pc'[o] = "idle" =>
              result'[o] # "ok" \/ kind[o] = "log" \/ (pc[o] = "idle" /\ result'[o] = result[o])
  BY Roles DEF Types, PcTypes, LocalTypes, Progress, Go, At, locals
<1>2. /\ pc'[Worker] = "batch_done" <=> pc[Worker] = "batch_done"
      /\ pc'[Worker] \notin BatchLabels => batch = 0
      /\ pc'[Host] = "create" => pc'[Worker] = "none"
  BY Roles DEF Types, PcTypes, RecordInv, WatermarkBehind, BatchLabels, Progress, Go, At
<1>3. l'.completed_pos <= q.dequeue_pos - batch
  BY QueueFieldTypes
  DEF Types, LoggerFields, RecordInv, WatermarkBehind, BatchLabels, QueueTypes, Progress,
      At
<1> QED
  BY <1>1, <1>2, <1>3, ProgressData, RecordFrame DEF RecordSteps, DataFrame

\* WaitLock handles no record.
LEMMA WaitLockData ==
    ASSUME Types, WaitLock
    PROVE  DataFrame
<1>1. q'.fifo = q.fifo /\ q'.dequeue_pos = q.dequeue_pos /\ batch' = batch
  BY DEF Types, QueueTypes, QueueFields, WaitLock, locals
<1>2. /\ l'.async_mode = l.async_mode /\ (l.first_error => l'.first_error)
      /\ l'.async_completed = l.async_completed /\ l'.sync_completed = l.sync_completed
  BY DEF Types, LoggerFields, WaitLock
<1>3. /\ emitted' = emitted /\ failed' = failed /\ written' = written /\ accepted' = accepted
      /\ durable \subseteq durable' /\ durable' \subseteq durable \cup written
      /\ kind' = kind /\ slot' = slot
  BY DEF WaitLock, outputs, promises, locals
<1>4. \A o \in Producers : calls'[o] = calls[o]
  BY Roles DEF WaitLock, locals
<1> QED
  BY <1>1, <1>2, <1>3, <1>4 DEF DataFrame, KeepFrame

\* WaitLock keeps the invariant of the records.
LEMMA WaitLockRecords ==
    ASSUME Types, RecordInv, WaitLock
    PROVE  RecordInv'
<1>1. \A o \in Producers :
         /\ pc'[o] \in FreshLabels => pc[o] \in FreshLabels
         /\ pc'[o] \in ReservedLabels => pc[o] \in ReservedLabels
         /\ pc'[o] \in AsyncLabels => pc[o] \in AsyncLabels
         /\ pc'[o] = "idle" =>
              result'[o] # "ok" \/ kind[o] = "log" \/ (pc[o] = "idle" /\ result'[o] = result[o])
  BY Roles DEF Types, PcTypes, LocalTypes, WaitLock, Go, At, locals
<1>2. /\ pc'[Worker] = "batch_done" <=> pc[Worker] = "batch_done"
      /\ pc'[Worker] \notin BatchLabels => batch = 0
      /\ pc'[Host] = "create" => pc'[Worker] = "none"
  BY Roles DEF Types, PcTypes, RecordInv, WatermarkBehind, BatchLabels, WaitLock, Go, At
<1>3. l'.completed_pos <= q.dequeue_pos - batch
  BY DEF Types, LoggerFields, RecordInv, WatermarkBehind, WaitLock
<1> QED
  BY <1>1, <1>2, <1>3, WaitLockData, RecordFrame DEF RecordSteps, DataFrame

\* WaitTest handles no record.
LEMMA WaitTestData ==
    ASSUME Types, WaitTest
    PROVE  DataFrame
<1>1. q'.fifo = q.fifo /\ q'.dequeue_pos = q.dequeue_pos /\ batch' = batch
  BY DEF Types, QueueTypes, QueueFields, WaitTest, locals
<1>2. /\ l'.async_mode = l.async_mode /\ (l.first_error => l'.first_error)
      /\ l'.async_completed = l.async_completed /\ l'.sync_completed = l.sync_completed
  BY DEF Types, LoggerFields, WaitTest
<1>3. /\ emitted' = emitted /\ failed' = failed /\ written' = written /\ accepted' = accepted
      /\ durable \subseteq durable' /\ durable' \subseteq durable \cup written
      /\ kind' = kind /\ slot' = slot
  BY DEF WaitTest, outputs, promises, locals
<1>4. \A o \in Producers : calls'[o] = calls[o]
  BY Roles DEF WaitTest, locals
<1> QED
  BY <1>1, <1>2, <1>3, <1>4 DEF DataFrame, KeepFrame

\* WaitTest keeps the invariant of the records.
LEMMA WaitTestRecords ==
    ASSUME Types, RecordInv, WaitTest
    PROVE  RecordInv'
<1>1. \A o \in Producers :
         /\ pc'[o] \in FreshLabels => pc[o] \in FreshLabels
         /\ pc'[o] \in ReservedLabels => pc[o] \in ReservedLabels
         /\ pc'[o] \in AsyncLabels => pc[o] \in AsyncLabels
         /\ pc'[o] = "idle" =>
              result'[o] # "ok" \/ kind[o] = "log" \/ (pc[o] = "idle" /\ result'[o] = result[o])
  BY Roles DEF Types, PcTypes, LocalTypes, WaitTest, Go, At, locals
<1>2. /\ pc'[Worker] = "batch_done" <=> pc[Worker] = "batch_done"
      /\ pc'[Worker] \notin BatchLabels => batch = 0
      /\ pc'[Host] = "create" => pc'[Worker] = "none"
  BY Roles DEF Types, PcTypes, RecordInv, WatermarkBehind, BatchLabels, WaitTest, Go, At
<1>3. l'.completed_pos <= q.dequeue_pos - batch
  BY DEF Types, LoggerFields, RecordInv, WatermarkBehind, WaitTest
<1> QED
  BY <1>1, <1>2, <1>3, WaitTestData, RecordFrame DEF RecordSteps, DataFrame

\* WaitRetest handles no record.
LEMMA WaitRetestData ==
    ASSUME Types, WaitRetest
    PROVE  DataFrame
<1>1. q'.fifo = q.fifo /\ q'.dequeue_pos = q.dequeue_pos /\ batch' = batch
  BY DEF Types, QueueTypes, QueueFields, WaitRetest, locals
<1>2. /\ l'.async_mode = l.async_mode /\ (l.first_error => l'.first_error)
      /\ l'.async_completed = l.async_completed /\ l'.sync_completed = l.sync_completed
  BY DEF Types, LoggerFields, WaitRetest
<1>3. /\ emitted' = emitted /\ failed' = failed /\ written' = written /\ accepted' = accepted
      /\ durable \subseteq durable' /\ durable' \subseteq durable \cup written
      /\ kind' = kind /\ slot' = slot
  BY DEF WaitRetest, outputs, promises, locals
<1>4. \A o \in Producers : calls'[o] = calls[o]
  BY Roles DEF WaitRetest, locals
<1> QED
  BY <1>1, <1>2, <1>3, <1>4 DEF DataFrame, KeepFrame

\* WaitRetest keeps the invariant of the records.
LEMMA WaitRetestRecords ==
    ASSUME Types, RecordInv, WaitRetest
    PROVE  RecordInv'
<1>1. \A o \in Producers :
         /\ pc'[o] \in FreshLabels => pc[o] \in FreshLabels
         /\ pc'[o] \in ReservedLabels => pc[o] \in ReservedLabels
         /\ pc'[o] \in AsyncLabels => pc[o] \in AsyncLabels
         /\ pc'[o] = "idle" =>
              result'[o] # "ok" \/ kind[o] = "log" \/ (pc[o] = "idle" /\ result'[o] = result[o])
  BY Roles DEF Types, PcTypes, LocalTypes, WaitRetest, Go, At, locals
<1>2. /\ pc'[Worker] = "batch_done" <=> pc[Worker] = "batch_done"
      /\ pc'[Worker] \notin BatchLabels => batch = 0
      /\ pc'[Host] = "create" => pc'[Worker] = "none"
  BY Roles DEF Types, PcTypes, RecordInv, WatermarkBehind, BatchLabels, WaitRetest, Go, At
<1>3. l'.completed_pos <= q.dequeue_pos - batch
  BY DEF Types, LoggerFields, RecordInv, WatermarkBehind, WaitRetest
<1> QED
  BY <1>1, <1>2, <1>3, WaitRetestData, RecordFrame DEF RecordSteps, DataFrame

\* WaitAwake handles no record.
LEMMA WaitAwakeData ==
    ASSUME Types, WaitAwake
    PROVE  DataFrame
<1>1. q'.fifo = q.fifo /\ q'.dequeue_pos = q.dequeue_pos /\ batch' = batch
  BY DEF Types, QueueTypes, QueueFields, WaitAwake, locals
<1>2. /\ l'.async_mode = l.async_mode /\ (l.first_error => l'.first_error)
      /\ l'.async_completed = l.async_completed /\ l'.sync_completed = l.sync_completed
  BY DEF Types, LoggerFields, WaitAwake
<1>3. /\ emitted' = emitted /\ failed' = failed /\ written' = written /\ accepted' = accepted
      /\ durable \subseteq durable' /\ durable' \subseteq durable \cup written
      /\ kind' = kind /\ slot' = slot
  BY DEF WaitAwake, outputs, promises, locals
<1>4. \A o \in Producers : calls'[o] = calls[o]
  BY Roles DEF WaitAwake, locals
<1> QED
  BY <1>1, <1>2, <1>3, <1>4 DEF DataFrame, KeepFrame

\* WaitAwake keeps the invariant of the records.
LEMMA WaitAwakeRecords ==
    ASSUME Types, RecordInv, WaitAwake
    PROVE  RecordInv'
<1>1. \A o \in Producers :
         /\ pc'[o] \in FreshLabels => pc[o] \in FreshLabels
         /\ pc'[o] \in ReservedLabels => pc[o] \in ReservedLabels
         /\ pc'[o] \in AsyncLabels => pc[o] \in AsyncLabels
         /\ pc'[o] = "idle" =>
              result'[o] # "ok" \/ kind[o] = "log" \/ (pc[o] = "idle" /\ result'[o] = result[o])
  BY Roles DEF Types, PcTypes, LocalTypes, WaitAwake, Go, At, locals
<1>2. /\ pc'[Worker] = "batch_done" <=> pc[Worker] = "batch_done"
      /\ pc'[Worker] \notin BatchLabels => batch = 0
      /\ pc'[Host] = "create" => pc'[Worker] = "none"
  BY Roles DEF Types, PcTypes, RecordInv, WatermarkBehind, BatchLabels, WaitAwake, Go, At
<1>3. l'.completed_pos <= q.dequeue_pos - batch
  BY DEF Types, LoggerFields, RecordInv, WatermarkBehind, WaitAwake
<1> QED
  BY <1>1, <1>2, <1>3, WaitAwakeData, RecordFrame DEF RecordSteps, DataFrame

\* WaitEnd handles no record.
LEMMA WaitEndData ==
    ASSUME Types, WaitEnd
    PROVE  DataFrame
<1>1. q'.fifo = q.fifo /\ q'.dequeue_pos = q.dequeue_pos /\ batch' = batch
  BY DEF Types, QueueTypes, QueueFields, WaitEnd, locals
<1>2. /\ l'.async_mode = l.async_mode /\ (l.first_error => l'.first_error)
      /\ l'.async_completed = l.async_completed /\ l'.sync_completed = l.sync_completed
  BY DEF Types, LoggerFields, WaitEnd
<1>3. /\ emitted' = emitted /\ failed' = failed /\ written' = written /\ accepted' = accepted
      /\ durable \subseteq durable' /\ durable' \subseteq durable \cup written
      /\ kind' = kind /\ slot' = slot
  BY DEF WaitEnd, outputs, promises, locals
<1>4. \A o \in Producers : calls'[o] = calls[o]
  BY Roles DEF WaitEnd, locals
<1> QED
  BY <1>1, <1>2, <1>3, <1>4 DEF DataFrame, KeepFrame

\* WaitEnd keeps the invariant of the records.
LEMMA WaitEndRecords ==
    ASSUME Types, RecordInv, WaitEnd
    PROVE  RecordInv'
<1>1. \A o \in Producers :
         /\ pc'[o] \in FreshLabels => pc[o] \in FreshLabels
         /\ pc'[o] \in ReservedLabels => pc[o] \in ReservedLabels
         /\ pc'[o] \in AsyncLabels => pc[o] \in AsyncLabels
         /\ pc'[o] = "idle" =>
              result'[o] # "ok" \/ kind[o] = "log" \/ (pc[o] = "idle" /\ result'[o] = result[o])
  BY Roles DEF Types, PcTypes, LocalTypes, WaitEnd, Go, At, locals
<1>2. /\ pc'[Worker] = "batch_done" <=> pc[Worker] = "batch_done"
      /\ pc'[Worker] \notin BatchLabels => batch = 0
      /\ pc'[Host] = "create" => pc'[Worker] = "none"
  BY Roles DEF Types, PcTypes, RecordInv, WatermarkBehind, BatchLabels, WaitEnd, Go, At
<1>3. l'.completed_pos <= q.dequeue_pos - batch
  BY DEF Types, LoggerFields, RecordInv, WatermarkBehind, WaitEnd
<1> QED
  BY <1>1, <1>2, <1>3, WaitEndData, RecordFrame DEF RecordSteps, DataFrame

\* Final handles no record.
LEMMA FinalData ==
    ASSUME Types, Final
    PROVE  DataFrame
<1>1. q'.fifo = q.fifo /\ q'.dequeue_pos = q.dequeue_pos /\ batch' = batch
  BY DEF Types, QueueTypes, QueueFields, Final, locals
<1>2. /\ l'.async_mode = l.async_mode /\ (l.first_error => l'.first_error)
      /\ l'.async_completed = l.async_completed /\ l'.sync_completed = l.sync_completed
  BY DEF Types, LoggerFields, Final
<1>3. /\ emitted' = emitted /\ failed' = failed /\ written' = written /\ accepted' = accepted
      /\ durable \subseteq durable' /\ durable' \subseteq durable \cup written
      /\ kind' = kind /\ slot' = slot
  BY DEF Final, outputs, promises, locals
<1>4. \A o \in Producers : calls'[o] = calls[o]
  BY Roles DEF Final, locals
<1> QED
  BY <1>1, <1>2, <1>3, <1>4 DEF DataFrame, KeepFrame

\* Final keeps the invariant of the records.
LEMMA FinalRecords ==
    ASSUME Types, RecordInv, Final
    PROVE  RecordInv'
<1>1. \A o \in Producers :
         /\ pc'[o] \in FreshLabels => pc[o] \in FreshLabels
         /\ pc'[o] \in ReservedLabels => pc[o] \in ReservedLabels
         /\ pc'[o] \in AsyncLabels => pc[o] \in AsyncLabels
         /\ pc'[o] = "idle" =>
              result'[o] # "ok" \/ kind[o] = "log" \/ (pc[o] = "idle" /\ result'[o] = result[o])
  BY Roles DEF Types, PcTypes, LocalTypes, Final, Go, At, locals
<1>2. /\ pc'[Worker] = "batch_done" <=> pc[Worker] = "batch_done"
      /\ pc'[Worker] \notin BatchLabels => batch = 0
      /\ pc'[Host] = "create" => pc'[Worker] = "none"
  BY Roles DEF Types, PcTypes, RecordInv, WatermarkBehind, BatchLabels, Final, Go, At
<1>3. l'.completed_pos <= q.dequeue_pos - batch
  BY DEF Types, LoggerFields, RecordInv, WatermarkBehind, Final
<1> QED
  BY <1>1, <1>2, <1>3, FinalData, RecordFrame DEF RecordSteps, DataFrame

\* FinalLock handles no record.
LEMMA FinalLockData ==
    ASSUME Types, FinalLock
    PROVE  DataFrame
<1>1. q'.fifo = q.fifo /\ q'.dequeue_pos = q.dequeue_pos /\ batch' = batch
  BY DEF Types, QueueTypes, QueueFields, FinalLock, locals
<1>2. /\ l'.async_mode = l.async_mode /\ (l.first_error => l'.first_error)
      /\ l'.async_completed = l.async_completed /\ l'.sync_completed = l.sync_completed
  BY DEF Types, LoggerFields, FinalLock
<1>3. /\ emitted' = emitted /\ failed' = failed /\ written' = written /\ accepted' = accepted
      /\ durable \subseteq durable' /\ durable' \subseteq durable \cup written
      /\ kind' = kind /\ slot' = slot
  BY DEF FinalLock, outputs, promises, locals
<1>4. \A o \in Producers : calls'[o] = calls[o]
  BY Roles DEF FinalLock, locals
<1> QED
  BY <1>1, <1>2, <1>3, <1>4 DEF DataFrame, KeepFrame

\* FinalLock keeps the invariant of the records.
LEMMA FinalLockRecords ==
    ASSUME Types, RecordInv, FinalLock
    PROVE  RecordInv'
<1>1. \A o \in Producers :
         /\ pc'[o] \in FreshLabels => pc[o] \in FreshLabels
         /\ pc'[o] \in ReservedLabels => pc[o] \in ReservedLabels
         /\ pc'[o] \in AsyncLabels => pc[o] \in AsyncLabels
         /\ pc'[o] = "idle" =>
              result'[o] # "ok" \/ kind[o] = "log" \/ (pc[o] = "idle" /\ result'[o] = result[o])
  BY Roles DEF Types, PcTypes, LocalTypes, FinalLock, Go, At, locals
<1>2. /\ pc'[Worker] = "batch_done" <=> pc[Worker] = "batch_done"
      /\ pc'[Worker] \notin BatchLabels => batch = 0
      /\ pc'[Host] = "create" => pc'[Worker] = "none"
  BY Roles DEF Types, PcTypes, RecordInv, WatermarkBehind, BatchLabels, FinalLock, Go, At
<1>3. l'.completed_pos <= q.dequeue_pos - batch
  BY DEF Types, LoggerFields, RecordInv, WatermarkBehind, FinalLock
<1> QED
  BY <1>1, <1>2, <1>3, FinalLockData, RecordFrame DEF RecordSteps, DataFrame

\* Broadcast handles no record.
LEMMA BroadcastData ==
    ASSUME Types, Broadcast
    PROVE  DataFrame
<1>1. q'.fifo = q.fifo /\ q'.dequeue_pos = q.dequeue_pos /\ batch' = batch
  BY DEF Types, QueueTypes, QueueFields, Broadcast, locals
<1>2. /\ l'.async_mode = l.async_mode /\ (l.first_error => l'.first_error)
      /\ l'.async_completed = l.async_completed /\ l'.sync_completed = l.sync_completed
  BY DEF Types, LoggerFields, Broadcast
<1>3. /\ emitted' = emitted /\ failed' = failed /\ written' = written /\ accepted' = accepted
      /\ durable \subseteq durable' /\ durable' \subseteq durable \cup written
      /\ kind' = kind /\ slot' = slot
  BY DEF Broadcast, outputs, promises, locals
<1>4. \A o \in Producers : calls'[o] = calls[o]
  BY Roles DEF Broadcast, locals
<1> QED
  BY <1>1, <1>2, <1>3, <1>4 DEF DataFrame, KeepFrame

\* Broadcast keeps the invariant of the records.
LEMMA BroadcastRecords ==
    ASSUME Types, RecordInv, Broadcast
    PROVE  RecordInv'
<1>1. \A o \in Producers :
         /\ pc'[o] \in FreshLabels => pc[o] \in FreshLabels
         /\ pc'[o] \in ReservedLabels => pc[o] \in ReservedLabels
         /\ pc'[o] \in AsyncLabels => pc[o] \in AsyncLabels
         /\ pc'[o] = "idle" =>
              result'[o] # "ok" \/ kind[o] = "log" \/ (pc[o] = "idle" /\ result'[o] = result[o])
  BY Roles DEF Types, PcTypes, LocalTypes, Broadcast, Go, At, locals
<1>2. /\ pc'[Worker] = "batch_done" <=> pc[Worker] = "batch_done"
      /\ pc'[Worker] \notin BatchLabels => batch = 0
      /\ pc'[Host] = "create" => pc'[Worker] = "none"
  BY Roles DEF Types, PcTypes, RecordInv, WatermarkBehind, BatchLabels, Broadcast, Go, At
<1>3. l'.completed_pos <= q.dequeue_pos - batch
  BY DEF Types, LoggerFields, RecordInv, WatermarkBehind, Broadcast
<1> QED
  BY <1>1, <1>2, <1>3, BroadcastData, RecordFrame DEF RecordSteps, DataFrame

\* Acquire handles no record.
LEMMA AcquireData ==
    ASSUME Types, Acquire
    PROVE  DataFrame
<1>1. q'.fifo = q.fifo /\ q'.dequeue_pos = q.dequeue_pos /\ batch' = batch
  BY DEF Types, QueueTypes, QueueFields, Acquire
<1>2. /\ l'.async_mode = l.async_mode /\ (l.first_error => l'.first_error)
      /\ l'.async_completed = l.async_completed /\ l'.sync_completed = l.sync_completed
  BY DEF Types, LoggerFields, Acquire
<1>3. /\ emitted' = emitted /\ failed' = failed /\ written' = written /\ accepted' = accepted
      /\ durable \subseteq durable' /\ durable' \subseteq durable \cup written
      /\ kind' = kind /\ slot' = slot
  BY DEF Acquire, outputs, promises
<1>4. \A o \in Producers : calls'[o] = calls[o]
  BY Roles DEF Acquire
<1> QED
  BY <1>1, <1>2, <1>3, <1>4 DEF DataFrame, KeepFrame

\* Acquire keeps the invariant of the records.
LEMMA AcquireRecords ==
    ASSUME Types, RecordInv, Acquire
    PROVE  RecordInv'
<1>1. \A o \in Producers :
         /\ pc'[o] \in FreshLabels => pc[o] \in FreshLabels
         /\ pc'[o] \in ReservedLabels => pc[o] \in ReservedLabels
         /\ pc'[o] \in AsyncLabels => pc[o] \in AsyncLabels
         /\ pc'[o] = "idle" =>
              result'[o] # "ok" \/ kind[o] = "log" \/ (pc[o] = "idle" /\ result'[o] = result[o])
  BY Roles DEF Types, PcTypes, LocalTypes, Acquire, Go, At, Answer
<1>2. /\ pc'[Worker] = "batch_done" <=> pc[Worker] = "batch_done"
      /\ pc'[Worker] \notin BatchLabels => batch = 0
      /\ pc'[Host] = "create" => pc'[Worker] = "none"
  BY Roles DEF Types, PcTypes, RecordInv, WatermarkBehind, Acquire, Go, At
<1>3. l'.completed_pos <= q.dequeue_pos - batch
  BY DEF Types, LoggerFields, RecordInv, WatermarkBehind, Acquire
<1> QED
  BY <1>1, <1>2, <1>3, AcquireData, RecordFrame DEF RecordSteps, DataFrame

\* StartWorker handles no record.
LEMMA StartWorkerData ==
    ASSUME Types, StartWorker
    PROVE  DataFrame
<1>1. q'.fifo = q.fifo /\ q'.dequeue_pos = q.dequeue_pos /\ batch' = batch
  BY DEF Types, QueueTypes, QueueFields, StartWorker
<1>2. /\ l'.async_mode = l.async_mode /\ (l.first_error => l'.first_error)
      /\ l'.async_completed = l.async_completed /\ l'.sync_completed = l.sync_completed
  BY DEF Types, LoggerFields, StartWorker
<1>3. /\ emitted' = emitted /\ failed' = failed /\ written' = written /\ accepted' = accepted
      /\ durable \subseteq durable' /\ durable' \subseteq durable \cup written
      /\ kind' = kind /\ slot' = slot
  BY DEF StartWorker, outputs, promises
<1>4. \A o \in Producers : calls'[o] = calls[o]
  BY Roles DEF StartWorker
<1> QED
  BY <1>1, <1>2, <1>3, <1>4 DEF DataFrame, KeepFrame

\* StartWorker keeps the invariant of the records.
LEMMA StartWorkerRecords ==
    ASSUME Types, RecordInv, StartWorker
    PROVE  RecordInv'
<1>1. \A o \in Producers :
         /\ pc'[o] \in FreshLabels => pc[o] \in FreshLabels
         /\ pc'[o] \in ReservedLabels => pc[o] \in ReservedLabels
         /\ pc'[o] \in AsyncLabels => pc[o] \in AsyncLabels
         /\ pc'[o] = "idle" =>
              result'[o] # "ok" \/ kind[o] = "log" \/ (pc[o] = "idle" /\ result'[o] = result[o])
  BY Roles DEF Types, PcTypes, LocalTypes, StartWorker, Go, At, Answer
<1>2. /\ pc'[Worker] = "batch_done" <=> pc[Worker] = "batch_done"
      /\ pc'[Worker] \notin BatchLabels => batch = 0
      /\ pc'[Host] = "create" => pc'[Worker] = "none"
  BY Roles DEF Types, PcTypes, RecordInv, WatermarkBehind, BatchLabels, StartWorker, Go, At
<1>3. l'.completed_pos <= q.dequeue_pos - batch
  BY DEF Types, LoggerFields, RecordInv, WatermarkBehind, StartWorker
<1> QED
  BY <1>1, <1>2, <1>3, StartWorkerData, RecordFrame DEF RecordSteps, DataFrame

\* PublishRunning handles no record.
LEMMA PublishRunningData ==
    ASSUME Types, PublishRunning
    PROVE  DataFrame
<1>1. q'.fifo = q.fifo /\ q'.dequeue_pos = q.dequeue_pos /\ batch' = batch
  BY DEF Types, QueueTypes, QueueFields, PublishRunning
<1>2. /\ l'.async_mode = l.async_mode /\ (l.first_error => l'.first_error)
      /\ l'.async_completed = l.async_completed /\ l'.sync_completed = l.sync_completed
  BY DEF Types, LoggerFields, PublishRunning
<1>3. /\ emitted' = emitted /\ failed' = failed /\ written' = written /\ accepted' = accepted
      /\ durable \subseteq durable' /\ durable' \subseteq durable \cup written
      /\ kind' = kind /\ slot' = slot
  BY DEF PublishRunning, outputs, promises
<1>4. \A o \in Producers : calls'[o] = calls[o]
  BY Roles DEF PublishRunning
<1> QED
  BY <1>1, <1>2, <1>3, <1>4 DEF DataFrame, KeepFrame

\* PublishRunning keeps the invariant of the records.
LEMMA PublishRunningRecords ==
    ASSUME Types, RecordInv, PublishRunning
    PROVE  RecordInv'
<1>1. \A o \in Producers :
         /\ pc'[o] \in FreshLabels => pc[o] \in FreshLabels
         /\ pc'[o] \in ReservedLabels => pc[o] \in ReservedLabels
         /\ pc'[o] \in AsyncLabels => pc[o] \in AsyncLabels
         /\ pc'[o] = "idle" =>
              result'[o] # "ok" \/ kind[o] = "log" \/ (pc[o] = "idle" /\ result'[o] = result[o])
  BY Roles DEF Types, PcTypes, LocalTypes, PublishRunning, Go, At, Answer
<1>2. /\ pc'[Worker] = "batch_done" <=> pc[Worker] = "batch_done"
      /\ pc'[Worker] \notin BatchLabels => batch = 0
      /\ pc'[Host] = "create" => pc'[Worker] = "none"
  BY Roles DEF Types, PcTypes, RecordInv, WatermarkBehind, PublishRunning, Go, At
<1>3. l'.completed_pos <= q.dequeue_pos - batch
  BY DEF Types, LoggerFields, RecordInv, WatermarkBehind, PublishRunning
<1> QED
  BY <1>1, <1>2, <1>3, PublishRunningData, RecordFrame DEF RecordSteps, DataFrame

\* Rollback handles no record.
LEMMA RollbackData ==
    ASSUME Types, Rollback
    PROVE  DataFrame
<1>1. q'.fifo = q.fifo /\ q'.dequeue_pos = q.dequeue_pos /\ batch' = batch
  BY DEF Types, QueueTypes, QueueFields, Rollback, locals
<1>2. /\ l'.async_mode = l.async_mode /\ (l.first_error => l'.first_error)
      /\ l'.async_completed = l.async_completed /\ l'.sync_completed = l.sync_completed
  BY DEF Types, LoggerFields, Rollback
<1>3. /\ emitted' = emitted /\ failed' = failed /\ written' = written /\ accepted' = accepted
      /\ durable \subseteq durable' /\ durable' \subseteq durable \cup written
      /\ kind' = kind /\ slot' = slot
  BY DEF Rollback, outputs, promises, locals
<1>4. \A o \in Producers : calls'[o] = calls[o]
  BY Roles DEF Rollback, locals
<1> QED
  BY <1>1, <1>2, <1>3, <1>4 DEF DataFrame, KeepFrame

\* Rollback keeps the invariant of the records.
LEMMA RollbackRecords ==
    ASSUME Types, RecordInv, Rollback
    PROVE  RecordInv'
<1>1. \A o \in Producers :
         /\ pc'[o] \in FreshLabels => pc[o] \in FreshLabels
         /\ pc'[o] \in ReservedLabels => pc[o] \in ReservedLabels
         /\ pc'[o] \in AsyncLabels => pc[o] \in AsyncLabels
         /\ pc'[o] = "idle" =>
              result'[o] # "ok" \/ kind[o] = "log" \/ (pc[o] = "idle" /\ result'[o] = result[o])
  BY Roles DEF Types, PcTypes, LocalTypes, Rollback, Go, At, locals
<1>2. /\ pc'[Worker] = "batch_done" <=> pc[Worker] = "batch_done"
      /\ pc'[Worker] \notin BatchLabels => batch = 0
      /\ pc'[Host] = "create" => pc'[Worker] = "none"
  BY Roles DEF Types, PcTypes, RecordInv, WatermarkBehind, Rollback, Go, At
<1>3. l'.completed_pos <= q.dequeue_pos - batch
  BY DEF Types, LoggerFields, RecordInv, WatermarkBehind, Rollback
<1> QED
  BY <1>1, <1>2, <1>3, RollbackData, RecordFrame DEF RecordSteps, DataFrame

\* Destroy handles no record.
LEMMA DestroyData ==
    ASSUME Types, Destroy
    PROVE  DataFrame
<1>1. q'.fifo = q.fifo /\ q'.dequeue_pos = q.dequeue_pos /\ batch' = batch
  BY DEF Types, QueueTypes, QueueFields, Destroy, locals
<1>2. /\ l'.async_mode = l.async_mode /\ (l.first_error => l'.first_error)
      /\ l'.async_completed = l.async_completed /\ l'.sync_completed = l.sync_completed
  BY DEF Types, LoggerFields, Destroy
<1>3. /\ emitted' = emitted /\ failed' = failed /\ written' = written /\ accepted' = accepted
      /\ durable \subseteq durable' /\ durable' \subseteq durable \cup written
      /\ kind' = kind /\ slot' = slot
  BY DEF Destroy, outputs, promises, locals
<1>4. \A o \in Producers : calls'[o] = calls[o]
  BY Roles DEF Destroy, locals
<1> QED
  BY <1>1, <1>2, <1>3, <1>4 DEF DataFrame, KeepFrame

\* Destroy keeps the invariant of the records.
LEMMA DestroyRecords ==
    ASSUME Types, RecordInv, Destroy
    PROVE  RecordInv'
<1>1. \A o \in Producers :
         /\ pc'[o] \in FreshLabels => pc[o] \in FreshLabels
         /\ pc'[o] \in ReservedLabels => pc[o] \in ReservedLabels
         /\ pc'[o] \in AsyncLabels => pc[o] \in AsyncLabels
         /\ pc'[o] = "idle" =>
              result'[o] # "ok" \/ kind[o] = "log" \/ (pc[o] = "idle" /\ result'[o] = result[o])
  BY Roles DEF Types, PcTypes, LocalTypes, Destroy, Go, At, locals
<1>2. /\ pc'[Worker] = "batch_done" <=> pc[Worker] = "batch_done"
      /\ pc'[Worker] \notin BatchLabels => batch = 0
      /\ pc'[Host] = "create" => pc'[Worker] = "none"
  BY Roles DEF Types, PcTypes, RecordInv, WatermarkBehind, Destroy, Go, At
<1>3. l'.completed_pos <= q.dequeue_pos - batch
  BY DEF Types, LoggerFields, RecordInv, WatermarkBehind, Destroy
<1> QED
  BY <1>1, <1>2, <1>3, DestroyData, RecordFrame DEF RecordSteps, DataFrame

\* StopCheck handles no record.
LEMMA StopCheckData ==
    ASSUME Types, StopCheck
    PROVE  DataFrame
<1>1. q'.fifo = q.fifo /\ q'.dequeue_pos = q.dequeue_pos /\ batch' = batch
  BY DEF Types, QueueTypes, QueueFields, StopCheck
<1>2. /\ l'.async_mode = l.async_mode /\ (l.first_error => l'.first_error)
      /\ l'.async_completed = l.async_completed /\ l'.sync_completed = l.sync_completed
  BY DEF Types, LoggerFields, StopCheck
<1>3. /\ emitted' = emitted /\ failed' = failed /\ written' = written /\ accepted' = accepted
      /\ durable \subseteq durable' /\ durable' \subseteq durable \cup written
      /\ kind' = kind /\ slot' = slot
  BY DEF StopCheck, outputs, promises
<1>4. \A o \in Producers : calls'[o] = calls[o]
  BY Roles DEF StopCheck
<1> QED
  BY <1>1, <1>2, <1>3, <1>4 DEF DataFrame, KeepFrame

\* StopCheck keeps the invariant of the records.
LEMMA StopCheckRecords ==
    ASSUME Types, RecordInv, StopCheck
    PROVE  RecordInv'
<1>1. \A o \in Producers :
         /\ pc'[o] \in FreshLabels => pc[o] \in FreshLabels
         /\ pc'[o] \in ReservedLabels => pc[o] \in ReservedLabels
         /\ pc'[o] \in AsyncLabels => pc[o] \in AsyncLabels
         /\ pc'[o] = "idle" =>
              result'[o] # "ok" \/ kind[o] = "log" \/ (pc[o] = "idle" /\ result'[o] = result[o])
  BY Roles DEF Types, PcTypes, LocalTypes, StopCheck, Go, At, Answer
<1>2. /\ pc'[Worker] = "batch_done" <=> pc[Worker] = "batch_done"
      /\ pc'[Worker] \notin BatchLabels => batch = 0
      /\ pc'[Host] = "create" => pc'[Worker] = "none"
  BY Roles DEF Types, PcTypes, RecordInv, WatermarkBehind, StopCheck, Go, At
<1>3. l'.completed_pos <= q.dequeue_pos - batch
  BY DEF Types, LoggerFields, RecordInv, WatermarkBehind, StopCheck
<1> QED
  BY <1>1, <1>2, <1>3, StopCheckData, RecordFrame DEF RecordSteps, DataFrame

\* Join handles no record.
LEMMA JoinData ==
    ASSUME Types, Join
    PROVE  DataFrame
<1>1. q'.fifo = q.fifo /\ q'.dequeue_pos = q.dequeue_pos /\ batch' = batch
  BY DEF Types, QueueTypes, QueueFields, Join
<1>2. /\ l'.async_mode = l.async_mode /\ (l.first_error => l'.first_error)
      /\ l'.async_completed = l.async_completed /\ l'.sync_completed = l.sync_completed
  BY DEF Types, LoggerFields, Join
<1>3. /\ emitted' = emitted /\ failed' = failed /\ written' = written /\ accepted' = accepted
      /\ durable \subseteq durable' /\ durable' \subseteq durable \cup written
      /\ kind' = kind /\ slot' = slot
  BY DEF Join, outputs, promises
<1>4. \A o \in Producers : calls'[o] = calls[o]
  BY Roles DEF Join
<1> QED
  BY <1>1, <1>2, <1>3, <1>4 DEF DataFrame, KeepFrame

\* Join keeps the invariant of the records.
LEMMA JoinRecords ==
    ASSUME Types, RecordInv, Join
    PROVE  RecordInv'
<1>1. \A o \in Producers :
         /\ pc'[o] \in FreshLabels => pc[o] \in FreshLabels
         /\ pc'[o] \in ReservedLabels => pc[o] \in ReservedLabels
         /\ pc'[o] \in AsyncLabels => pc[o] \in AsyncLabels
         /\ pc'[o] = "idle" =>
              result'[o] # "ok" \/ kind[o] = "log" \/ (pc[o] = "idle" /\ result'[o] = result[o])
  BY Roles DEF Types, PcTypes, LocalTypes, Join, Go, At
<1>2. /\ pc'[Worker] = "batch_done" <=> pc[Worker] = "batch_done"
      /\ pc'[Worker] \notin BatchLabels => batch = 0
      /\ pc'[Host] = "create" => pc'[Worker] = "none"
  BY Roles DEF Types, PcTypes, RecordInv, WatermarkBehind, Join, Go, At
<1>3. l'.completed_pos <= q.dequeue_pos - batch
  BY DEF Types, LoggerFields, RecordInv, WatermarkBehind, Join
<1> QED
  BY <1>1, <1>2, <1>3, JoinData, RecordFrame DEF RecordSteps, DataFrame

\* Joined handles no record.
LEMMA JoinedData ==
    ASSUME Types, Joined
    PROVE  DataFrame
<1>1. q'.fifo = q.fifo /\ q'.dequeue_pos = q.dequeue_pos /\ batch' = batch
  BY DEF Types, QueueTypes, QueueFields, Joined
<1>2. /\ l'.async_mode = l.async_mode /\ (l.first_error => l'.first_error)
      /\ l'.async_completed = l.async_completed /\ l'.sync_completed = l.sync_completed
  BY DEF Types, LoggerFields, Joined
<1>3. /\ emitted' = emitted /\ failed' = failed /\ written' = written /\ accepted' = accepted
      /\ durable \subseteq durable' /\ durable' \subseteq durable \cup written
      /\ kind' = kind /\ slot' = slot
  BY DEF Joined, outputs, promises
<1>4. \A o \in Producers : calls'[o] = calls[o]
  BY Roles DEF Joined
<1> QED
  BY <1>1, <1>2, <1>3, <1>4 DEF DataFrame, KeepFrame

\* Joined keeps the invariant of the records.
LEMMA JoinedRecords ==
    ASSUME Types, RecordInv, Joined
    PROVE  RecordInv'
<1>1. \A o \in Producers :
         /\ pc'[o] \in FreshLabels => pc[o] \in FreshLabels
         /\ pc'[o] \in ReservedLabels => pc[o] \in ReservedLabels
         /\ pc'[o] \in AsyncLabels => pc[o] \in AsyncLabels
         /\ pc'[o] = "idle" =>
              result'[o] # "ok" \/ kind[o] = "log" \/ (pc[o] = "idle" /\ result'[o] = result[o])
  BY Roles DEF Types, PcTypes, LocalTypes, Joined, Go, At, Answer
<1>2. /\ pc'[Worker] = "batch_done" <=> pc[Worker] = "batch_done"
      /\ pc'[Worker] \notin BatchLabels => batch = 0
      /\ pc'[Host] = "create" => pc'[Worker] = "none"
  BY Roles DEF Types, PcTypes, RecordInv, WatermarkBehind, Joined, Go, At
<1>3. l'.completed_pos <= q.dequeue_pos - batch
  BY DEF Types, LoggerFields, RecordInv, WatermarkBehind, Joined
<1> QED
  BY <1>1, <1>2, <1>3, JoinedData, RecordFrame DEF RecordSteps, DataFrame

\* FinalSync handles no record.
LEMMA FinalSyncData ==
    ASSUME Types, RecordInv, FinalSync
    PROVE  DataFrame
<1>1. q'.fifo = q.fifo /\ q'.dequeue_pos = q.dequeue_pos /\ batch' = batch
  BY DEF Types, QueueTypes, QueueFields, FinalSync
<1>2. /\ l'.async_mode = l.async_mode /\ (l.first_error => l'.first_error)
      /\ l'.async_completed = l.async_completed /\ l'.sync_completed = l.sync_completed
  BY DEF Types, LoggerFields, FinalSync, SyncOutputs
<1>3. /\ emitted' = emitted /\ failed' = failed /\ accepted' = accepted
      /\ kind' = kind /\ slot' = slot
  BY DEF FinalSync, promises
<1>6. durable \subseteq durable' /\ (written' = written \/ l'.first_error) /\ durable' \subseteq written'
  <2>1. CASE durable' = durable /\ written' = written
    BY <2>1 DEF RecordInv, WrittenFirst
  <2>2. CASE \E hit : SyncOutputs(Host, hit)
    BY <2>2, SyncedOutputs
  <2> QED
    BY <2>1, <2>2 DEF FinalSync
<1>4. \A o \in Producers : calls'[o] = calls[o]
  BY Roles DEF FinalSync
<1> QED
  BY <1>1, <1>2, <1>3, <1>4, <1>6 DEF DataFrame, KeepFrame

\* FinalSync keeps the invariant of the records.
LEMMA FinalSyncRecords ==
    ASSUME Types, RecordInv, FinalSync
    PROVE  RecordInv'
<1>1. \A o \in Producers :
         /\ pc'[o] \in FreshLabels => pc[o] \in FreshLabels
         /\ pc'[o] \in ReservedLabels => pc[o] \in ReservedLabels
         /\ pc'[o] \in AsyncLabels => pc[o] \in AsyncLabels
         /\ pc'[o] = "idle" =>
              result'[o] # "ok" \/ kind[o] = "log" \/ (pc[o] = "idle" /\ result'[o] = result[o])
  BY Roles DEF Types, PcTypes, LocalTypes, FinalSync, Go, At, Answer, SyncOutputs
<1>2. /\ pc'[Worker] = "batch_done" <=> pc[Worker] = "batch_done"
      /\ pc'[Worker] \notin BatchLabels => batch = 0
      /\ pc'[Host] = "create" => pc'[Worker] = "none"
  BY Roles DEF Types, PcTypes, RecordInv, WatermarkBehind, FinalSync, Go, At
<1>3. l'.completed_pos <= q.dequeue_pos - batch
  BY DEF Types, LoggerFields, RecordInv, WatermarkBehind, FinalSync, SyncOutputs
<1> QED
  BY <1>1, <1>2, <1>3, FinalSyncData, RecordFrame DEF RecordSteps, DataFrame

\* Release handles no record.
LEMMA ReleaseData ==
    ASSUME Types, Release
    PROVE  DataFrame
<1>1. q'.fifo = q.fifo /\ q'.dequeue_pos = q.dequeue_pos /\ batch' = batch
  BY DEF Types, QueueTypes, QueueFields, Release
<1>2. /\ l'.async_mode = l.async_mode /\ (l.first_error => l'.first_error)
      /\ l'.async_completed = l.async_completed /\ l'.sync_completed = l.sync_completed
  BY DEF Types, LoggerFields, Release
<1>3. /\ emitted' = emitted /\ failed' = failed /\ written' = written /\ accepted' = accepted
      /\ durable \subseteq durable' /\ durable' \subseteq durable \cup written
      /\ kind' = kind /\ slot' = slot
  BY DEF Release, outputs, promises
<1>4. \A o \in Producers : calls'[o] = calls[o]
  BY Roles DEF Release
<1> QED
  BY <1>1, <1>2, <1>3, <1>4 DEF DataFrame, KeepFrame

\* Release keeps the invariant of the records.
LEMMA ReleaseRecords ==
    ASSUME Types, RecordInv, Release
    PROVE  RecordInv'
<1>1. \A o \in Producers :
         /\ pc'[o] \in FreshLabels => pc[o] \in FreshLabels
         /\ pc'[o] \in ReservedLabels => pc[o] \in ReservedLabels
         /\ pc'[o] \in AsyncLabels => pc[o] \in AsyncLabels
         /\ pc'[o] = "idle" =>
              result'[o] # "ok" \/ kind[o] = "log" \/ (pc[o] = "idle" /\ result'[o] = result[o])
  BY Roles DEF Types, PcTypes, LocalTypes, Release, Go, At
<1>2. /\ pc'[Worker] = "batch_done" <=> pc[Worker] = "batch_done"
      /\ pc'[Worker] \notin BatchLabels => batch = 0
      /\ pc'[Host] = "create" => pc'[Worker] = "none"
  BY Roles DEF Types, PcTypes, RecordInv, WatermarkBehind, Release, Go, At
<1>3. l'.completed_pos <= q.dequeue_pos - batch
  BY DEF Types, LoggerFields, RecordInv, WatermarkBehind, Release
<1> QED
  BY <1>1, <1>2, <1>3, ReleaseData, RecordFrame DEF RecordSteps, DataFrame

\* NoteStep handles no record.
LEMMA NoteStepData ==
    ASSUME Types, NEW t \in Threads, NoteStep(t)
    PROVE  DataFrame
<1>1. q'.fifo = q.fifo /\ q'.dequeue_pos = q.dequeue_pos /\ batch' = batch
  BY DEF Types, QueueTypes, QueueFields, NoteStep, locals
<1>2. /\ l'.async_mode = l.async_mode /\ (l.first_error => l'.first_error)
      /\ l'.async_completed = l.async_completed /\ l'.sync_completed = l.sync_completed
  BY DEF Types, LoggerFields, NoteStep
<1>3. /\ emitted' = emitted /\ failed' = failed /\ written' = written /\ accepted' = accepted
      /\ durable \subseteq durable' /\ durable' \subseteq durable \cup written
      /\ kind' = kind /\ slot' = slot
  BY DEF NoteStep, outputs, promises, locals
<1>4. \A o \in Producers : calls'[o] = calls[o]
  BY Roles DEF NoteStep, locals
<1> QED
  BY <1>1, <1>2, <1>3, <1>4 DEF DataFrame, KeepFrame

\* NoteStep keeps the invariant of the records.
LEMMA NoteStepRecords ==
    ASSUME Types, RecordInv, NEW t \in Threads, NoteStep(t)
    PROVE  RecordInv'
<1>1. \A o \in Producers :
         /\ pc'[o] \in FreshLabels => pc[o] \in FreshLabels
         /\ pc'[o] \in ReservedLabels => pc[o] \in ReservedLabels
         /\ pc'[o] \in AsyncLabels => pc[o] \in AsyncLabels
         /\ pc'[o] = "idle" =>
              result'[o] # "ok" \/ kind[o] = "log" \/ (pc[o] = "idle" /\ result'[o] = result[o])
  BY Roles DEF Types, PcTypes, LocalTypes, NoteStep, locals
<1>2. /\ pc'[Worker] = "batch_done" <=> pc[Worker] = "batch_done"
      /\ pc'[Worker] \notin BatchLabels => batch = 0
      /\ pc'[Host] = "create" => pc'[Worker] = "none"
  BY Roles DEF Types, PcTypes, RecordInv, WatermarkBehind, NoteStep
<1>3. l'.completed_pos <= q.dequeue_pos - batch
  BY DEF Types, LoggerFields, RecordInv, WatermarkBehind, NoteStep
<1> QED
  BY <1>1, <1>2, <1>3, NoteStepData, RecordFrame DEF RecordSteps, DataFrame

\* Spurious handles no record.
LEMMA SpuriousData ==
    ASSUME Types, NEW t \in Threads, Spurious(t)
    PROVE  DataFrame
<1>1. q'.fifo = q.fifo /\ q'.dequeue_pos = q.dequeue_pos /\ batch' = batch
  BY DEF Types, QueueTypes, QueueFields, Spurious, locals
<1>2. /\ l'.async_mode = l.async_mode /\ (l.first_error => l'.first_error)
      /\ l'.async_completed = l.async_completed /\ l'.sync_completed = l.sync_completed
  BY DEF Types, LoggerFields, Spurious
<1>3. /\ emitted' = emitted /\ failed' = failed /\ written' = written /\ accepted' = accepted
      /\ durable \subseteq durable' /\ durable' \subseteq durable \cup written
      /\ kind' = kind /\ slot' = slot
  BY DEF Spurious, outputs, promises, locals
<1>4. \A o \in Producers : calls'[o] = calls[o]
  BY Roles DEF Spurious, locals
<1> QED
  BY <1>1, <1>2, <1>3, <1>4 DEF DataFrame, KeepFrame

\* Spurious keeps the invariant of the records.
LEMMA SpuriousRecords ==
    ASSUME Types, RecordInv, NEW t \in Threads, Spurious(t)
    PROVE  RecordInv'
<1>1. \A o \in Producers :
         /\ pc'[o] \in FreshLabels => pc[o] \in FreshLabels
         /\ pc'[o] \in ReservedLabels => pc[o] \in ReservedLabels
         /\ pc'[o] \in AsyncLabels => pc[o] \in AsyncLabels
         /\ pc'[o] = "idle" =>
              result'[o] # "ok" \/ kind[o] = "log" \/ (pc[o] = "idle" /\ result'[o] = result[o])
  BY Roles DEF Types, PcTypes, LocalTypes, Spurious, locals
<1>2. /\ pc'[Worker] = "batch_done" <=> pc[Worker] = "batch_done"
      /\ pc'[Worker] \notin BatchLabels => batch = 0
      /\ pc'[Host] = "create" => pc'[Worker] = "none"
  BY Roles DEF Types, PcTypes, RecordInv, WatermarkBehind, Spurious
<1>3. l'.completed_pos <= q.dequeue_pos - batch
  BY DEF Types, LoggerFields, RecordInv, WatermarkBehind, Spurious
<1> QED
  BY <1>1, <1>2, <1>3, SpuriousData, RecordFrame DEF RecordSteps, DataFrame

-----------------------------------------------------------------------------
(* Steps that handle records                                               *)

\* Records of different producers differ, and the record of a call is a record.
LEMMA RecordsDiffer ==
    ASSUME NEW p \in Producers, NEW o \in Producers, o # p
    PROVE  Record(o) # Record(p)
BY DEF Record

\* What the queue and the counts hold are records.
LEMMA RecordPlaces ==
    ASSUME Types
    PROVE  /\ Counted \subseteq Records
           /\ Len(q.fifo) \in Nat /\ \A i \in Positions : i \in Nat /\ q.fifo[i] \in Records
           /\ q.dequeue_pos \in Nat /\ batch \in Nat /\ batch <= q.dequeue_pos
           /\ q.dequeue_pos <= Len(q.fifo)
BY QueueFieldTypes DEF Types, QueueTypes, SharedTypes, Counted, Positions

\* Counting the record of a producer's own write, as emitted or as failed, keeps
\* the invariant of the records.
LEMMA CountOwn ==
    ASSUME Types, RecordInv, NEW p \in Producers, pc[p] \in FreshLabels,
           pc' = [pc EXCEPT ![p] = "idle"],
           q' = q, batch' = batch, calls' = calls, kind' = kind, slot' = slot,
           \/ emitted' = emitted \cup {Record(p)} /\ failed' = failed
              /\ accepted' = accepted \cup {Record(p)}
           \/ failed' = failed \cup {Record(p)} /\ emitted' = emitted /\ accepted' = accepted,
           ~l'.first_error => emitted' \subseteq written',
           durable \subseteq durable', durable' \subseteq written',
           l'.async_mode = l.async_mode, l'.completed_pos = l.completed_pos,
           l.first_error \/ failed' # failed => l'.first_error,
           \A o \in Producers \ {p} : result'[o] = result[o],
           result'[p] = "ok" /\ kind[p] = "sync" => Record(p) \in durable'
    PROVE  RecordInv'
<1>1. \A o \in Producers \ {p} : pc'[o] = pc[o]
  BY Roles DEF Types, PcTypes
<1>2. pc'[p] = "idle" /\ pc'[Worker] = pc[Worker] /\ pc'[Host] = pc[Host]
  BY Roles DEF Types, PcTypes
<1>3. Positions' = Positions /\ Handled' = Handled /\ Counted' = Counted \cup {Record(p)}
      /\ \A o \in Producers : Record(o)' = Record(o)
  BY <1>2 DEF Positions, Handled, Counted, Record
<1>4. Record(p) \notin Counted /\ \A i \in Positions : q.fifo[i] # Record(p)
  BY DEF RecordInv, FreshRecords
<1>5. RecordsBegun'
  <2>1. Record(p)[2] <= calls[Record(p)[1]]
    <3>1. calls[p] \in Int
      BY Roles, SizesAssumption DEF Types, LocalTypes
    <3> QED
      BY <3>1 DEF Record
  <2> QED
    BY <1>3, <2>1 DEF RecordInv, RecordsBegun
<1>6. FreshRecords'
  BY <1>1, <1>2, <1>3, RecordsDiffer DEF RecordInv, FreshRecords, FreshLabels
<1>7. QueuedOnce' /\ CountedInOrder'
  BY <1>3, <1>4 DEF RecordInv, QueuedOnce, CountedInOrder
<1>8. CountedOnce'
  BY <1>4 DEF RecordInv, CountedOnce, Counted
<1>9. ReservedRecords'
  BY <1>1, <1>2, <1>3 DEF RecordInv, ReservedRecords, ReservedLabels
<1>10. WrittenFirst' /\ AcceptedKept' /\ FailureLatched'
  BY <1>3 DEF RecordInv, WrittenFirst, AcceptedKept, FailureLatched
<1>11. WatermarkBehind' /\ QueueUse'
  BY <1>1, <1>2 DEF RecordInv, WatermarkBehind, QueueUse, AsyncLabels, ReservedLabels
<1>12. ConfirmedKept'
  BY <1>1, <1>2, <1>3 DEF RecordInv, ConfirmedKept
<1> QED
  BY <1>5, <1>6, <1>7, <1>8, <1>9, <1>10, <1>11, <1>12 DEF RecordInv

\* A record that does not reach the outputs is counted as failed.
LEMMA UnsentRecords ==
    ASSUME Types, RecordInv, NEW p \in Producers, pc[p] \in FreshLabels, Unsent(p),
           q' = q, batch' = batch, calls' = calls, kind' = kind, slot' = slot,
           accepted' = accepted
    PROVE  RecordInv'
<1>1. /\ l'.async_mode = l.async_mode /\ l'.completed_pos = l.completed_pos /\ l'.first_error
  BY DEF Types, LoggerFields, Unsent
<1>2. /\ pc' = [pc EXCEPT ![p] = "idle"] /\ failed' = failed \cup {Record(p)}
      /\ emitted' = emitted /\ written' = written /\ durable' = durable
  BY DEF Unsent, Go
<1>3. result'[p] = "error" /\ \A o \in Producers \ {p} : result'[o] = result[o]
  BY Roles DEF Types, LocalTypes, Unsent, Answer
<1>4. durable \subseteq written
  BY DEF RecordInv, WrittenFirst
<1> QED
  BY <1>1, <1>2, <1>3, <1>4, CountOwn

\* FormatStatus keeps the invariant of the records.
LEMMA FormatStatusRecords ==
    ASSUME Types, RecordInv, NEW p \in Producers, FormatStatus(p)
    PROVE  RecordInv'
<1>1. /\ q' = q /\ batch' = batch /\ calls' = calls /\ kind' = kind /\ slot' = slot
      /\ accepted' = accepted /\ pc[p] = "format"
  BY DEF FormatStatus, promises, At
<1>2. CASE Unsent(p)
  BY <1>1, <1>2, UnsentRecords DEF FreshLabels
<1>3. CASE l' = l /\ UNCHANGED outputs /\ ~Unsent(p)
  <2>1. KeepFrame
    BY <1>1, <1>3 DEF KeepFrame, outputs
  <2>2. \A o \in Producers :
         /\ pc'[o] \in FreshLabels => pc[o] \in FreshLabels
         /\ pc'[o] \in ReservedLabels => pc[o] \in ReservedLabels
         /\ pc'[o] \in AsyncLabels => pc[o] \in AsyncLabels
         /\ pc'[o] = "idle" =>
              result'[o] # "ok" \/ kind[o] = "log" \/ (pc[o] = "idle" /\ result'[o] = result[o])
    BY <1>1, <1>3, Roles
    DEF Types, PcTypes, LocalTypes, FormatStatus, Go, Answer, FreshLabels, ReservedLabels,
        AsyncLabels
  <2>3. pc'[Worker] = pc[Worker] /\ pc'[Host] = pc[Host]
    BY <1>3, Roles DEF Types, PcTypes, FormatStatus, Go
  <2>4. RecordSteps
    BY <1>1, <1>3, <2>2, <2>3 DEF RecordSteps, RecordInv, WatermarkBehind
  <2> QED
    BY <1>1, <2>1, <2>4, RecordFrame
<1> QED
  BY <1>2, <1>3 DEF FormatStatus, outputs

\* EmitCheck keeps the invariant of the records.
LEMMA EmitCheckRecords ==
    ASSUME Types, RecordInv, NEW p \in Producers, EmitCheck(p)
    PROVE  RecordInv'
<1>1. /\ q' = q /\ batch' = batch /\ calls' = calls /\ kind' = kind /\ slot' = slot
      /\ accepted' = accepted /\ pc[p] = "emit_check"
  BY DEF EmitCheck, promises, At
<1>2. CASE Unsent(p)
  BY <1>1, <1>2, UnsentRecords DEF FreshLabels
<1>3. CASE l' = l /\ UNCHANGED outputs /\ ~Unsent(p)
  <2>1. KeepFrame
    BY <1>1, <1>3 DEF KeepFrame, outputs
  <2>2. \A o \in Producers :
         /\ pc'[o] \in FreshLabels => pc[o] \in FreshLabels
         /\ pc'[o] \in ReservedLabels => pc[o] \in ReservedLabels
         /\ pc'[o] \in AsyncLabels => pc[o] \in AsyncLabels
         /\ pc'[o] = "idle" =>
              result'[o] # "ok" \/ kind[o] = "log" \/ (pc[o] = "idle" /\ result'[o] = result[o])
    BY <1>1, <1>3, Roles
    DEF Types, PcTypes, LocalTypes, EmitCheck, Go, Answer, FreshLabels, ReservedLabels,
        AsyncLabels
  <2>3. pc'[Worker] = pc[Worker] /\ pc'[Host] = pc[Host]
    BY <1>3, Roles DEF Types, PcTypes, EmitCheck, Go
  <2>4. RecordSteps
    BY <1>1, <1>3, <2>2, <2>3 DEF RecordSteps, RecordInv, WatermarkBehind
  <2> QED
    BY <1>1, <2>1, <2>4, RecordFrame
<1> QED
  BY <1>2, <1>3 DEF EmitCheck, outputs

\* EmitLock keeps the invariant of the records.
LEMMA EmitLockRecords ==
    ASSUME Types, RecordInv, NEW p \in Producers, EmitLock(p)
    PROVE  RecordInv'
<1>1. /\ q' = q /\ batch' = batch /\ calls' = calls /\ kind' = kind /\ slot' = slot
      /\ accepted' = accepted /\ pc[p] = "emit_lock"
  BY DEF EmitLock, promises, At
<1>2. CASE Unsent(p)
  BY <1>1, <1>2, UnsentRecords DEF FreshLabels
<1>3. CASE l' = l /\ UNCHANGED outputs /\ ~Unsent(p)
  <2>1. KeepFrame
    BY <1>1, <1>3 DEF KeepFrame, outputs
  <2>2. \A o \in Producers :
         /\ pc'[o] \in FreshLabels => pc[o] \in FreshLabels
         /\ pc'[o] \in ReservedLabels => pc[o] \in ReservedLabels
         /\ pc'[o] \in AsyncLabels => pc[o] \in AsyncLabels
         /\ pc'[o] = "idle" =>
              result'[o] # "ok" \/ kind[o] = "log" \/ (pc[o] = "idle" /\ result'[o] = result[o])
    BY <1>1, <1>3, Roles
    DEF Types, PcTypes, LocalTypes, EmitLock, Go, Answer, FreshLabels, ReservedLabels,
        AsyncLabels
  <2>3. pc'[Worker] = pc[Worker] /\ pc'[Host] = pc[Host]
    BY <1>3, Roles DEF Types, PcTypes, EmitLock, Go
  <2>4. RecordSteps
    BY <1>1, <1>3, <2>2, <2>3 DEF RecordSteps, RecordInv, WatermarkBehind
  <2> QED
    BY <1>1, <2>1, <2>4, RecordFrame
<1> QED
  BY <1>2, <1>3 DEF EmitLock, outputs

\* EmitStatus keeps the invariant of the records: a record is emitted only if
\* nothing failed, and a confirmed one only if its sync covered it.
LEMMA EmitStatusRecords ==
    ASSUME Types, RecordInv, NEW p \in Producers, EmitStatus(p)
    PROVE  RecordInv'
<1>1. /\ q' = q /\ batch' = batch /\ calls' = calls /\ kind' = kind /\ slot' = slot
      /\ pc[p] = "emit" /\ pc' = [pc EXCEPT ![p] = "idle"]
  BY DEF EmitStatus, At, Go
<1>2. PICK hit \in SUBSET {<<"io", "write">>, <<"io", "fsync">>, <<"unlock", "emit_mu">>} :
         /\ StillWritten(IF <<"io", "write">> \in hit THEN written ELSE written \cup {Record(p)},
                         hit)
         /\ durable' = IF kind[p] = "sync" /\ {<<"io", "write">>, <<"io", "fsync">>} \cap hit = {}
                       THEN written' ELSE durable
         /\ IF hit = {}
            THEN emitted' = emitted \cup {Record(p)} /\ UNCHANGED failed
            ELSE failed' = failed \cup {Record(p)} /\ UNCHANGED emitted
         /\ l' = [l EXCEPT !.first_error = @ \/ hit # {}, !.sync_completed = @ + 1]
         /\ IF hit = {} THEN Accept(p) ELSE Answer(p, "error") /\ UNCHANGED accepted
  BY DEF EmitStatus
<1>3. /\ l'.async_mode = l.async_mode /\ l'.completed_pos = l.completed_pos
      /\ (l.first_error \/ hit # {} => l'.first_error)
  BY <1>2 DEF Types, LoggerFields
<1>4. durable \subseteq written /\ (~l.first_error => emitted \subseteq written)
  BY DEF RecordInv, WrittenFirst
<1> DEFINE given == IF <<"io", "write">> \in hit THEN written ELSE written \cup {Record(p)}
<1>9. durable \subseteq written' /\ (hit = {} => written' = written \cup {Record(p)})
  <2>1. CASE <<"io", "fsync">> \in hit
    <3>1. PICK lost \in SUBSET (given \ durable) : written' = given \ lost
      BY <1>2, <2>1 DEF StillWritten
    <3> QED
      BY <1>4, <2>1, <3>1
  <2>2. CASE <<"io", "fsync">> \notin hit
    BY <1>2, <1>4, <2>2 DEF StillWritten
  <2> QED
    BY <2>1, <2>2
<1>5. /\ durable \subseteq durable' /\ durable' \subseteq written'
      /\ (~l'.first_error => emitted' \subseteq written')
  BY <1>2, <1>3, <1>4, <1>9
<1>6. \A o \in Producers \ {p} : result'[o] = result[o]
  BY <1>2, Roles DEF Types, LocalTypes, Accept, Answer
<1>7. CASE hit = {}
  <2>1. emitted' = emitted \cup {Record(p)} /\ failed' = failed /\ accepted' = accepted \cup {Record(p)}
    BY <1>2, <1>7 DEF Accept
  <2>2. kind[p] = "sync" => Record(p) \in durable'
    BY <1>2, <1>7, <1>9
  <2> QED
    BY <1>1, <1>3, <1>5, <1>6, <2>1, <2>2, CountOwn DEF FreshLabels
<1>8. CASE hit # {}
  <2>1. failed' = failed \cup {Record(p)} /\ emitted' = emitted /\ accepted' = accepted
    BY <1>2, <1>8
  <2>2. result'[p] = "error"
    BY <1>2, <1>8, Roles DEF Types, LocalTypes, Answer
  <2> QED
    BY <1>1, <1>3, <1>5, <1>6, <1>8, <2>1, <2>2, CountOwn DEF FreshLabels
<1> QED
  BY <1>7, <1>8

\* The batch holds the records of the positions consumed last; none is counted
\* before the batch is.
LEMMA BatchUncounted ==
    ASSUME Types, RecordInv, pc[Worker] # "batch_done"
    PROVE  /\ Batch \cap Counted = {}
           /\ \A r \in Batch : \E i \in Positions : r = q.fifo[i] /\ i <= q.dequeue_pos
           /\ \A i \in Positions : q.fifo[i] \in Counted \cup Batch <=> i <= q.dequeue_pos
<1>1. /\ Len(q.fifo) \in Nat /\ q.dequeue_pos \in Nat /\ batch \in Nat
      /\ batch <= q.dequeue_pos /\ q.dequeue_pos <= Len(q.fifo)
  BY RecordPlaces
<1> DEFINE lo == q.dequeue_pos - batch
           hi == q.dequeue_pos
<1>2. Handled = lo /\ lo \in Int /\ hi \in Int /\ 0 <= lo /\ lo <= hi /\ hi <= Len(q.fifo)
  BY <1>1 DEF Handled
<1>3. Batch = {q.fifo[i] : i \in (lo + 1)..hi}
  BY DEF Batch
<1>4. \A i \in (lo + 1)..hi : i \in Positions /\ i > lo
  BY <1>1, <1>2 DEF Positions
<1>5. \A i \in Positions : i \in Int /\ (q.fifo[i] \in Counted <=> i <= lo)
  BY <1>1, <1>2 DEF RecordInv, CountedInOrder, Positions
<1>6. \A i, j \in Positions : q.fifo[i] = q.fifo[j] => i = j
  BY DEF RecordInv, QueuedOnce
<1> HIDE DEF lo, hi
<1>7. Batch \cap Counted = {}
  BY <1>2, <1>3, <1>4, <1>5
<1>8. \A i \in Positions : q.fifo[i] \in Batch <=> lo < i /\ i <= hi
  BY <1>2, <1>3, <1>4, <1>5, <1>6
<1>9. \A i \in Positions : q.fifo[i] \in Counted \cup Batch <=> i <= hi
  BY <1>2, <1>5, <1>8
<1>10. \A r \in Batch : \E i \in Positions : r = q.fifo[i] /\ i <= hi
  BY <1>2, <1>3, <1>4
<1> QED
  BY <1>7, <1>9, <1>10 DEF hi

\* Counting a batch, its records emitted or failed, keeps the invariant of the
\* records.
LEMMA CountBatch ==
    ASSUME Types, RecordInv, pc[Worker] \in BatchLabels \ {"batch_done"},
           pc' = [pc EXCEPT ![Worker] = "batch_done"],
           q' = q, batch' = batch, calls' = calls, kind' = kind, slot' = slot, result' = result,
           accepted' = accepted, durable' = durable,
           NEW bad \in SUBSET Batch, failed' = failed \cup bad,
           emitted' = emitted \/ emitted' = emitted \cup (Batch \ bad),
           emitted' \cup failed' = Counted \cup Batch,
           written \subseteq written', ~l'.first_error => emitted' \subseteq written',
           l'.async_mode = l.async_mode, l'.completed_pos = l.completed_pos,
           l.first_error \/ bad # {} => l'.first_error
    PROVE  RecordInv'
<1>1. \A p \in Producers : pc'[p] = pc[p]
  BY Roles DEF Types, PcTypes
<1>2. pc'[Worker] = "batch_done" /\ pc[Worker] # "batch_done" /\ pc'[Host] = pc[Host]
  BY Roles DEF Types, PcTypes
<1>3. Positions' = Positions /\ Handled' = q.dequeue_pos /\ Counted' = Counted \cup Batch
      /\ \A o \in Producers : Record(o)' = Record(o)
  BY <1>2 DEF Positions, Handled, Counted, Record
<1>4. /\ Batch \cap Counted = {}
      /\ \A r \in Batch : \E i \in Positions : r = q.fifo[i]
      /\ \A i \in Positions : q.fifo[i] \in Counted \cup Batch <=> i <= q.dequeue_pos
  BY <1>2, BatchUncounted
<1>5. RecordsBegun'
  BY <1>3, <1>4 DEF RecordInv, RecordsBegun
<1>6. FreshRecords'
  BY <1>1, <1>3, <1>4 DEF RecordInv, FreshRecords
<1>7. QueuedOnce' /\ CountedInOrder'
  BY <1>3, <1>4 DEF RecordInv, QueuedOnce, CountedInOrder
<1>8. CountedOnce'
  BY <1>4 DEF RecordInv, CountedOnce, Counted
<1>9. ReservedRecords'
  BY <1>1, <1>3 DEF RecordInv, ReservedRecords
<1>10. WrittenFirst' /\ AcceptedKept' /\ FailureLatched'
  BY <1>3 DEF RecordInv, WrittenFirst, AcceptedKept, FailureLatched
<1>11. WatermarkBehind' /\ QueueUse'
  BY <1>1, <1>2 DEF RecordInv, WatermarkBehind, QueueUse, BatchLabels
<1>12. ConfirmedKept'
  BY <1>1, <1>3 DEF RecordInv, ConfirmedKept
<1> QED
  BY <1>5, <1>6, <1>7, <1>8, <1>9, <1>10, <1>11, <1>12 DEF RecordInv

\* A batch that fails before it is written is counted as failed.
LEMMA BatchFails ==
    ASSUME Types, RecordInv, pc[Worker] \in BatchLabels \ {"batch_done"},
           pc' = [pc EXCEPT ![Worker] = "batch_done"],
           failed' = failed \cup Batch, l' = [l EXCEPT !.first_error = TRUE],
           q' = q, batch' = batch, calls' = calls, kind' = kind, slot' = slot, result' = result,
           accepted' = accepted, durable' = durable, emitted' = emitted, written' = written
    PROVE  RecordInv'
<1>1. l'.async_mode = l.async_mode /\ l'.completed_pos = l.completed_pos /\ l'.first_error
  BY DEF Types, LoggerFields
<1>2. emitted' \cup failed' = Counted \cup Batch /\ Batch \in SUBSET Batch
  BY DEF Counted
<1> QED
  BY <1>1, <1>2, CountBatch

\* BatchFormat keeps the invariant of the records.
LEMMA BatchFormatRecords ==
    ASSUME Types, RecordInv, BatchFormat
    PROVE  RecordInv'
<1>1. /\ q' = q /\ batch' = batch /\ calls' = calls /\ kind' = kind /\ slot' = slot
      /\ result' = result /\ accepted' = accepted /\ durable' = durable
      /\ emitted' = emitted /\ written' = written /\ pc[Worker] = "batch_format"
  BY DEF BatchFormat, promises, locals, At
<1>2. CASE failed' = failed \cup Batch /\ l' = [l EXCEPT !.first_error = TRUE] /\ Go(Worker, "batch_done")
  BY <1>1, <1>2, BatchFails DEF BatchLabels, Go
<1>3. CASE l' = l /\ failed' = failed /\ \E x \in {"batch_lock", "batch_emit"} : Go(Worker, x)
  <2>1. KeepFrame
    BY <1>1, <1>3 DEF KeepFrame
  <2>2. \A o \in Producers : pc'[o] = pc[o]
    BY <1>3, Roles DEF Types, PcTypes, Go
  <2>3. pc'[Worker] \in {"batch_lock", "batch_emit"} /\ pc'[Host] = pc[Host]
    BY <1>3, Roles DEF Types, PcTypes, Go
  <2>4. RecordSteps
    BY <1>1, <1>3, <2>2, <2>3 DEF RecordSteps, RecordInv, WatermarkBehind, BatchLabels
  <2> QED
    BY <1>1, <2>1, <2>4, RecordFrame
<1> QED
  BY <1>2, <1>3 DEF BatchFormat

\* BatchLock keeps the invariant of the records.
LEMMA BatchLockRecords ==
    ASSUME Types, RecordInv, BatchLock
    PROVE  RecordInv'
<1>1. /\ q' = q /\ batch' = batch /\ calls' = calls /\ kind' = kind /\ slot' = slot
      /\ result' = result /\ accepted' = accepted /\ durable' = durable
      /\ emitted' = emitted /\ written' = written /\ pc[Worker] = "batch_lock"
  BY DEF BatchLock, promises, locals, At
<1>2. CASE failed' = failed \cup Batch /\ l' = [l EXCEPT !.first_error = TRUE] /\ Go(Worker, "batch_done")
  BY <1>1, <1>2, BatchFails DEF BatchLabels, Go
<1>3. CASE l' = l /\ failed' = failed /\ \E x \in {"batch_lock", "batch_emit"} : Go(Worker, x)
  <2>1. KeepFrame
    BY <1>1, <1>3 DEF KeepFrame
  <2>2. \A o \in Producers : pc'[o] = pc[o]
    BY <1>3, Roles DEF Types, PcTypes, Go
  <2>3. pc'[Worker] \in {"batch_lock", "batch_emit"} /\ pc'[Host] = pc[Host]
    BY <1>3, Roles DEF Types, PcTypes, Go
  <2>4. RecordSteps
    BY <1>1, <1>3, <2>2, <2>3 DEF RecordSteps, RecordInv, WatermarkBehind, BatchLabels
  <2> QED
    BY <1>1, <2>1, <2>4, RecordFrame
<1> QED
  BY <1>2, <1>3 DEF BatchLock

\* EmitBatch keeps the invariant of the records: what it counts as emitted it
\* wrote, and what failed is latched.
LEMMA EmitBatchRecords ==
    ASSUME Types, RecordInv, EmitBatch
    PROVE  RecordInv'
<1>1. /\ q' = q /\ batch' = batch /\ calls' = calls /\ kind' = kind /\ slot' = slot
      /\ result' = result /\ accepted' = accepted /\ durable' = durable
      /\ pc[Worker] = "batch_emit" /\ pc' = [pc EXCEPT ![Worker] = "batch_done"]
  BY DEF EmitBatch, promises, locals, At, Go
<1>2. PICK hit \in SUBSET {<<"io", "write">>, <<"unlock", "emit_mu">>}, lost \in SUBSET Batch :
         /\ <<"io", "write">> \in hit <=> lost # {}
         /\ written' = written \cup (Batch \ lost)
         /\ LET bad == IF <<"unlock", "emit_mu">> \in hit THEN Batch ELSE lost
            IN  failed' = failed \cup bad /\ emitted' = emitted \cup (Batch \ bad)
         /\ l' = [l EXCEPT !.first_error = @ \/ hit # {}]
  BY DEF EmitBatch
<1> DEFINE bad == IF <<"unlock", "emit_mu">> \in hit THEN Batch ELSE lost
<1>3. /\ bad \in SUBSET Batch /\ failed' = failed \cup bad /\ emitted' = emitted \cup (Batch \ bad)
      /\ (bad # {} => hit # {}) /\ lost \subseteq bad
  BY <1>2
<1>4. /\ l'.async_mode = l.async_mode /\ l'.completed_pos = l.completed_pos
      /\ (l.first_error \/ hit # {} => l'.first_error)
  BY <1>2 DEF Types, LoggerFields
<1> HIDE DEF bad
<1>5. emitted' \cup failed' = Counted \cup Batch
  BY <1>3 DEF Counted
<1>6. written \subseteq written' /\ (~l'.first_error => emitted' \subseteq written')
  BY <1>2, <1>3, <1>4 DEF RecordInv, WrittenFirst
<1> QED
  BY <1>1, <1>3, <1>4, <1>5, <1>6, CountBatch DEF BatchLabels

\* EnterLog keeps the invariant of the records: the record of the new call is new.
LEMMA EnterLogRecords ==
    ASSUME Types, RecordInv, NEW p \in Producers, EnterLog(p)
    PROVE  RecordInv'
<1>1. /\ q' = q /\ batch' = batch /\ slot' = slot /\ l' = l /\ accepted' = accepted
      /\ emitted' = emitted /\ failed' = failed /\ written' = written /\ durable' = durable
      /\ pc[p] = "idle" /\ calls' = [calls EXCEPT ![p] = @ + 1]
  BY DEF EnterLog, promises, outputs, At
<1>2. /\ calls[p] \in Nat /\ calls'[p] = calls[p] + 1
      /\ \A b \in Borrowers : calls[b] \in Nat /\ (b # p => calls'[b] = calls[b])
  BY <1>1, Roles, SizesAssumption DEF Types, LocalTypes
<1>3. /\ pc'[Worker] = pc[Worker] /\ pc'[Host] = pc[Host]
      /\ \A o \in Producers \ {p} : pc'[o] = pc[o] /\ kind'[o] = kind[o] /\ result'[o] = result[o]
  BY Roles DEF Types, PcTypes, LocalTypes, EnterLog, Go, Answer
<1>4. \/ pc'[p] = "idle" /\ result'[p] = "error" /\ kind'[p] = kind[p]
      \/ pc'[p] = "format"
      \/ pc'[p] = "push" /\ l.async_mode /\ kind'[p] = "log"
  BY Roles, ModeAssumption DEF Types, PcTypes, LocalTypes, EnterLog, Go, Answer, At
<1>5. Positions' = Positions /\ Handled' = Handled /\ Counted' = Counted
  BY <1>1, <1>3 DEF Positions, Handled, Counted
<1>6. \A o \in Producers \ {p} : Record(o)' = Record(o)
  BY <1>2, Roles DEF Record
<1>7. Record(p)' = <<p, calls[p] + 1>>
  BY <1>2 DEF Record
<1>8. \A r \in Records : r[1] \in Producers /\ r[2] \in Nat /\ calls[r[1]] <= calls'[r[1]]
                         /\ calls[r[1]] \in Nat /\ calls'[r[1]] \in Nat
  BY <1>2, Roles, SizesAssumption DEF Records
<1>9. Counted \subseteq Records /\ \A i \in Positions : q.fifo[i] \in Records
  BY RecordPlaces
<1>10. RecordsBegun'
  <2>1. \A r \in Records : r[2] <= calls[r[1]] => r[2] <= calls'[r[1]]
    BY <1>8
  <2> QED
    BY <1>1, <1>5, <1>9, <2>1 DEF RecordInv, RecordsBegun
<1>11. FreshRecords'
  <2>1. \A r \in Records : r[2] <= calls[r[1]] => r # <<p, calls[p] + 1>>
    BY <1>2 DEF Records
  <2>2. Record(p)' \notin Counted /\ \A i \in Positions : q.fifo[i] # Record(p)'
    BY <1>7, <1>9, <2>1 DEF RecordInv, RecordsBegun
  <2> QED
    BY <1>1, <1>3, <1>5, <1>6, <2>2 DEF RecordInv, FreshRecords
<1>12. QueuedOnce' /\ CountedInOrder' /\ CountedOnce'
  BY <1>1, <1>5 DEF RecordInv, QueuedOnce, CountedInOrder, CountedOnce
<1>13. ReservedRecords'
  BY <1>1, <1>3, <1>4, <1>5, <1>6 DEF RecordInv, ReservedRecords, ReservedLabels
<1>14. WrittenFirst' /\ AcceptedKept' /\ FailureLatched'
  BY <1>1, <1>5 DEF RecordInv, WrittenFirst, AcceptedKept, FailureLatched
<1>15. WatermarkBehind' /\ QueueUse'
  BY <1>1, <1>3, <1>4 DEF RecordInv, WatermarkBehind, QueueUse, AsyncLabels, ReservedLabels
<1>16. ConfirmedKept'
  BY <1>1, <1>2, <1>3, <1>4, <1>6, Roles DEF RecordInv, ConfirmedKept
<1> QED
  BY <1>10, <1>11, <1>12, <1>13, <1>14, <1>15, <1>16 DEF RecordInv

\* What a push does to the queue.
LEMMA PushEffect ==
    ASSUME Types, NEW p \in Producers, Push(p)
    PROVE  /\ Len(q'.fifo) = Len(q.fifo) + 1 /\ Positions' = Positions \cup {Len(q.fifo) + 1}
           /\ Len(q.fifo) + 1 \notin Positions
           /\ \A i \in Positions : q'.fifo[i] = q.fifo[i]
           /\ q'.fifo[Len(q.fifo) + 1] = Record(p)
           /\ q'.dequeue_pos = q.dequeue_pos
<1>1. Record(p) \in Records
  BY RecordType DEF Push, At
<1>2. q.fifo \in Seq(Records) /\ Len(q.fifo) \in Nat
  BY QueueFieldTypes DEF Types, QueueTypes
<1>3. q'.fifo = Append(q.fifo, Record(p)) /\ q'.dequeue_pos = q.dequeue_pos
  BY DEF Types, QueueTypes, QueueFields, Push
<1>4. /\ Len(q'.fifo) = Len(q.fifo) + 1
      /\ \A i \in 1..Len(q.fifo) : q'.fifo[i] = q.fifo[i]
      /\ q'.fifo[Len(q.fifo) + 1] = Record(p)
  BY <1>1, <1>2, <1>3
<1>5. 1..(Len(q.fifo) + 1) = 1..Len(q.fifo) \cup {Len(q.fifo) + 1} /\ Len(q.fifo) + 1 \notin 1..Len(q.fifo)
  BY <1>2
<1> QED
  BY <1>3, <1>4, <1>5 DEF Positions

\* Push keeps the invariant of the records.
LEMMA PushRecords ==
    ASSUME Types, RecordInv, NEW p \in Producers, Push(p)
    PROVE  RecordInv'
<1>1. /\ batch' = batch /\ calls' = calls /\ kind' = kind /\ result' = result /\ l' = l
      /\ accepted' = accepted /\ emitted' = emitted /\ failed' = failed /\ written' = written
      /\ durable' = durable /\ pc[p] = "push" /\ pc' = [pc EXCEPT ![p] = "publish"]
      /\ slot' = [slot EXCEPT ![p] = Len(q.fifo) + 1]
  BY DEF Push, promises, outputs, At, Go
<1> DEFINE n == Len(q.fifo) + 1
<1>2. /\ Positions' = Positions \cup {n} /\ n \notin Positions
      /\ \A i \in Positions : q'.fifo[i] = q.fifo[i]
      /\ q'.fifo[n] = Record(p) /\ q'.dequeue_pos = q.dequeue_pos
  BY PushEffect
<1>3. pc'[p] = "publish" /\ slot'[p] = n
      /\ \A o \in Producers \ {p} : pc'[o] = pc[o] /\ slot'[o] = slot[o]
  BY <1>1, Roles DEF Types, PcTypes, LocalTypes
<1>4. pc'[Worker] = pc[Worker] /\ pc'[Host] = pc[Host]
  BY <1>1, Roles DEF Types, PcTypes
<1>5. Handled' = Handled /\ Counted' = Counted /\ \A o \in Producers : Record(o)' = Record(o)
  BY <1>1, <1>2, <1>4 DEF Handled, Counted, Record
<1>6. n \in Nat /\ Handled \in Int /\ Handled < n
  BY RecordPlaces DEF Handled
<1>7. Record(p) \notin Counted /\ \A i \in Positions : q.fifo[i] # Record(p)
  BY <1>1 DEF RecordInv, FreshRecords, FreshLabels
<1>8. l.async_mode /\ kind[p] = "log"
  BY <1>1 DEF RecordInv, QueueUse, AsyncLabels
<1>9. calls[p] \in Int /\ Record(p)[2] = calls[p] /\ Record(p)[1] = p
  BY Roles, SizesAssumption DEF Types, LocalTypes, Record
<1> HIDE DEF n
<1>10. RecordsBegun'
  BY <1>1, <1>2, <1>5, <1>9 DEF RecordInv, RecordsBegun
<1>11. FreshRecords'
  BY <1>2, <1>3, <1>5, RecordsDiffer DEF RecordInv, FreshRecords, FreshLabels
<1>12. QueuedOnce'
  BY <1>2, <1>7 DEF RecordInv, QueuedOnce
<1>13. CountedInOrder'
  BY <1>2, <1>5, <1>6, <1>7 DEF RecordInv, CountedInOrder
<1>14. CountedOnce' /\ WrittenFirst' /\ FailureLatched'
  BY <1>1 DEF RecordInv, CountedOnce, WrittenFirst, FailureLatched
<1>15. AcceptedKept'
  BY <1>1, <1>2 DEF RecordInv, AcceptedKept
<1>16. ReservedRecords'
  BY <1>2, <1>3, <1>5 DEF RecordInv, ReservedRecords
<1>17. WatermarkBehind' /\ QueueUse'
  BY <1>1, <1>2, <1>3, <1>4, <1>8 DEF RecordInv, WatermarkBehind, QueueUse
<1>18. ConfirmedKept'
  BY <1>1, <1>3, <1>5 DEF RecordInv, ConfirmedKept
<1> QED
  BY <1>10, <1>11, <1>12, <1>13, <1>14, <1>15, <1>16, <1>17, <1>18 DEF RecordInv

\* Drain keeps the invariant of the records.
LEMMA DrainRecords ==
    ASSUME Types, RecordInv, Drain
    PROVE  RecordInv'
<1>1. /\ batch' = batch + 1 /\ calls' = calls /\ kind' = kind /\ result' = result /\ l' = l
      /\ accepted' = accepted /\ emitted' = emitted /\ failed' = failed /\ written' = written
      /\ durable' = durable /\ pc[Worker] = "drain" /\ pc' = pc /\ slot' = slot
  BY DEF Drain, promises, outputs, At
<1>2. q'.fifo = q.fifo /\ q'.dequeue_pos = q.dequeue_pos + 1
  BY DEF Types, QueueTypes, QueueFields, Drain
<1>3. q.dequeue_pos \in Nat /\ batch \in Nat
  BY RecordPlaces
<1>4. q'.dequeue_pos - batch' = q.dequeue_pos - batch
  BY <1>1, <1>2, <1>3
<1>5. Positions' = Positions /\ Handled' = Handled /\ Counted' = Counted
      /\ \A o \in Producers : Record(o)' = Record(o)
  BY <1>1, <1>2, <1>4 DEF Positions, Handled, Counted, Record
<1>6. RecordsBegun' /\ FreshRecords' /\ QueuedOnce' /\ CountedInOrder' /\ CountedOnce'
  BY <1>1, <1>2, <1>5 DEF RecordInv, RecordsBegun, FreshRecords, QueuedOnce, CountedInOrder,
     CountedOnce
<1>7. ReservedRecords' /\ WrittenFirst' /\ AcceptedKept' /\ FailureLatched' /\ QueueUse'
  BY <1>1, <1>2, <1>5 DEF RecordInv, ReservedRecords, WrittenFirst, AcceptedKept,
     FailureLatched, QueueUse
<1>8. WatermarkBehind' /\ ConfirmedKept'
  BY <1>1, <1>4, <1>5 DEF RecordInv, WatermarkBehind, BatchLabels, ConfirmedKept
<1> QED
  BY <1>6, <1>7, <1>8 DEF RecordInv

\* BatchDone keeps the invariant of the records.
LEMMA BatchDoneRecords ==
    ASSUME Types, RecordInv, BatchDone
    PROVE  RecordInv'
<1>1. /\ batch' = 0 /\ q' = q /\ calls' = calls /\ kind' = kind /\ result' = result
      /\ accepted' = accepted /\ emitted' = emitted /\ failed' = failed /\ written' = written
      /\ durable' = durable /\ pc[Worker] = "batch_done" /\ slot' = slot
  BY DEF BatchDone, promises, outputs, At
<1>2. /\ l'.async_mode = l.async_mode /\ l'.completed_pos = l.completed_pos
      /\ l'.first_error = l.first_error /\ l.completed_pos \in Nat
  BY DEF Types, LoggerFields, BatchDone
<1>3. /\ pc'[Worker] # "batch_done" /\ pc'[Host] = pc[Host] /\ \A o \in Producers : pc'[o] = pc[o]
  BY Roles DEF Types, PcTypes, BatchDone, Go
<1>4. q.dequeue_pos \in Nat /\ batch \in Nat
  BY RecordPlaces
<1>5. Positions' = Positions /\ Handled' = Handled /\ Counted' = Counted
      /\ \A o \in Producers : Record(o)' = Record(o)
  BY <1>1, <1>3, <1>4 DEF Positions, Handled, Counted, Record
<1>6. RecordsBegun' /\ FreshRecords' /\ QueuedOnce' /\ CountedInOrder' /\ CountedOnce'
  BY <1>1, <1>3, <1>5 DEF RecordInv, RecordsBegun, FreshRecords, QueuedOnce, CountedInOrder,
     CountedOnce
<1>7. ReservedRecords' /\ WrittenFirst' /\ AcceptedKept' /\ FailureLatched' /\ QueueUse'
  BY <1>1, <1>2, <1>3, <1>5 DEF RecordInv, ReservedRecords, WrittenFirst, AcceptedKept,
     FailureLatched, QueueUse
<1>8. WatermarkBehind' /\ ConfirmedKept'
  BY <1>1, <1>2, <1>3, <1>4, <1>5 DEF RecordInv, WatermarkBehind, ConfirmedKept
<1> QED
  BY <1>6, <1>7, <1>8 DEF RecordInv

\* Probe keeps the invariant of the records: what it accepts is queued.
LEMMA ProbeRecords ==
    ASSUME Types, RecordInv, NEW p \in Producers, Probe(p)
    PROVE  RecordInv'
<1>1. pc[p] \in ReservedLabels
  BY DEF Probe, At, ReservedLabels
<1>2. slot[p] \in Positions /\ q.fifo[slot[p]] = Record(p) /\ kind[p] = "log"
  BY <1>1 DEF RecordInv, ReservedRecords, QueueUse, AsyncLabels
<1>3. KeepFrame
  <2>1. q'.fifo = q.fifo /\ q'.dequeue_pos = q.dequeue_pos /\ batch' = batch
    BY DEF Types, QueueTypes, QueueFields, Probe
  <2>2. /\ l'.async_mode = l.async_mode /\ (l.first_error => l'.first_error)
        /\ l'.async_completed = l.async_completed /\ l'.sync_completed = l.sync_completed
    BY DEF Types, LoggerFields, Probe
  <2> QED
    BY <2>1, <2>2 DEF KeepFrame, Probe, outputs
<1>4. \A o \in Producers : o # p => pc'[o] = pc[o] /\ result'[o] = result[o]
  BY Roles DEF Types, PcTypes, LocalTypes, Probe, Go, Accept, Answer
<1>5. pc'[p] \in {"idle", "notify_lock", "push_failed"} /\ pc'[Worker] = pc[Worker] /\ pc'[Host] = pc[Host]
  BY Roles DEF Types, PcTypes, Probe, Go
<1>6. l'.completed_pos = l.completed_pos
  BY DEF Types, LoggerFields, Probe
<1>7. RecordSteps
  BY <1>1, <1>2, <1>4, <1>5, <1>6 DEF RecordSteps, RecordInv, WatermarkBehind, FreshLabels,
     ReservedLabels, AsyncLabels
<1>8. accepted' \subseteq accepted \cup {Record(p)}
  BY DEF Probe, Accept
<1> QED
  BY <1>2, <1>3, <1>7, <1>8, RecordFrame

\* Notify keeps the invariant of the records: what it accepts is queued.
LEMMA NotifyRecords ==
    ASSUME Types, RecordInv, NEW p \in Producers, Notify(p)
    PROVE  RecordInv'
<1>1. pc[p] \in ReservedLabels
  BY DEF Notify, At, ReservedLabels
<1>2. slot[p] \in Positions /\ q.fifo[slot[p]] = Record(p) /\ kind[p] = "log"
  BY <1>1 DEF RecordInv, ReservedRecords, QueueUse, AsyncLabels
<1>3. KeepFrame
  <2>1. q'.fifo = q.fifo /\ q'.dequeue_pos = q.dequeue_pos /\ batch' = batch
    BY DEF Types, QueueTypes, QueueFields, Notify
  <2>2. /\ l'.async_mode = l.async_mode /\ (l.first_error => l'.first_error)
        /\ l'.async_completed = l.async_completed /\ l'.sync_completed = l.sync_completed
    BY DEF Types, LoggerFields, Notify
  <2> QED
    BY <2>1, <2>2 DEF KeepFrame, Notify, outputs
<1>4. \A o \in Producers : o # p => pc'[o] = pc[o] /\ result'[o] = result[o]
  BY Roles DEF Types, PcTypes, LocalTypes, Notify, Go, Accept, Answer
<1>5. pc'[p] \in {"idle", "notify_lock", "push_failed"} /\ pc'[Worker] = pc[Worker] /\ pc'[Host] = pc[Host]
  BY Roles DEF Types, PcTypes, Notify, Go
<1>6. l'.completed_pos = l.completed_pos
  BY DEF Types, LoggerFields, Notify
<1>7. RecordSteps
  BY <1>1, <1>2, <1>4, <1>5, <1>6 DEF RecordSteps, RecordInv, WatermarkBehind, FreshLabels,
     ReservedLabels, AsyncLabels
<1>8. accepted' \subseteq accepted \cup {Record(p)}
  BY DEF Notify, Accept
<1> QED
  BY <1>2, <1>3, <1>7, <1>8, RecordFrame

-----------------------------------------------------------------------------
(* The types and the records, as invariants of the specification           *)

\* The initial states have the types.
LEMMA InitTypes ==
    ASSUME Init
    PROVE  Types
<1>1. PICK mode \in AsyncModes : l =
           [state |-> "CREATED", async_mode |-> mode, built |-> {}, running |-> FALSE, first_error |-> FALSE,
            lifecycle_error |-> FALSE, synchronization_error |-> FALSE,
            completed_pos |-> 0, enqueued |-> 0, dropped |-> 0,
            sync_fallbacks |-> 0, async_completed |-> 0, sync_completed |-> 0]
  BY DEF Init
<1>2. l \in LoggerFields
  BY <1>1 DEF LoggerFields
<1>3. PICK cap \in Caps \cup {0} : q =
           [cap |-> cap, fifo |-> << >>, published |-> {}, dequeue_pos |-> 0,
            consumer_waiting |-> FALSE, wait_mu_error |-> FALSE]
  BY DEF Init
<1>4. q \in QueueFields
  BY <1>3 DEF QueueFields
<1>5. pc = [t \in Threads |-> CASE t = Host -> "create" [] t = Worker -> "none" [] OTHER -> "idle"]
  BY DEF Init
<1>6. pc[Host] = "create" /\ pc[Worker] = "none" /\ (\A b \in Borrowers : pc[b] = "idle")
      /\ pc = [t \in Threads |-> pc[t]]
  BY <1>5, Roles DEF Borrowers
<1>7. QueueTypes
  <2>1. q.cap \in Nat /\ q.fifo = << >> /\ q.published = {} /\ q.dequeue_pos = 0
    BY <1>3, <1>4, QueueFieldTypes
  <2>2. Len(q.fifo) = 0
    BY <2>1
  <2>3. Capacity \in Nat
    BY <2>1, SizesAssumption DEF Capacity
  <2>4. batch = 0
    BY DEF Init
  <2>5. \A p \in Producers : pc[p] = "publish" => slot[p] \in Positions
    BY <1>6, Roles
  <2>6. q.published \subseteq Positions
    BY <2>1
  <2>7. /\ q.dequeue_pos <= Len(q.fifo) /\ Len(q.fifo) <= q.dequeue_pos + q.cap
        /\ batch \in Nat /\ batch <= q.dequeue_pos /\ batch <= Capacity
    BY <2>1, <2>2, <2>3, <2>4
  <2> QED
    BY <1>4, <2>5, <2>6, <2>7 DEF QueueTypes
<1>8. PcTypes
  BY <1>6, Roles DEF PcTypes, Labels
<1>9. LocalTypes
  BY SizesAssumption DEF Init, LocalTypes
<1>10. CallsBegun
  BY <1>6 DEF CallsBegun
<1>11. SharedTypes
  BY DEF Init, SharedTypes
<1>12. Building
  <2>1. l.built = {}
    BY <1>1
  <2>2. Cardinality(l.built) = 0
    BY <2>1, FS_EmptySet
  <2>3. Len(Construction) \in Nat
    BY <1>2, ConstructionType
  <2>4. 0 \in 0..Len(Construction) /\ 1..0 = {}
    BY <2>3
  <2>5. Prefix(0) = {}
    BY <2>4 DEF Prefix
  <2> QED
    BY <2>1, <2>2, <2>4, <2>5 DEF Building
<1> QED
  BY <1>2, <1>7, <1>8, <1>9, <1>10, <1>11, <1>12 DEF Types

\* Every step keeps the types.
LEMMA NextTypes ==
    ASSUME Types, [Next]_vars
    PROVE  Types'
<1>1. CASE UNCHANGED vars
  <2>1. /\ l' = l /\ q' = q /\ pc' = pc /\ batch' = batch /\ slot' = slot /\ noting' = noting
        /\ calls' = calls /\ kind' = kind /\ target' = target /\ result' = result
        /\ faults' = faults /\ owner' = owner /\ unproven' = unproven /\ asleep' = asleep
        /\ written' = written /\ durable' = durable /\ emitted' = emitted /\ failed' = failed
        /\ accepted' = accepted /\ due' = due
    BY <1>1 DEF vars, outputs, promises, locals
  <2>2. QueueTypes' /\ PcTypes' /\ LocalTypes'
    BY <2>1 DEF Types, QueueTypes, PcTypes, LocalTypes, Positions, Capacity
  <2>3. CallsBegun' /\ SharedTypes' /\ Building'
    BY <2>1 DEF Types, CallsBegun, SharedTypes, Building, Prefix, Construction
  <2> QED
    BY <2>1, <2>2, <2>3 DEF Types
<1>2. ASSUME NEW p \in Producers, ProducerStep(p) PROVE Types'
  BY <1>2, EnterLogTypes, PushTypes, RefusedTypes, PublishTypes, ProbeTypes,
     NotifyLockTypes, NotifyTypes, PushFailedTypes, FormatStatusTypes, EmitCheckTypes,
     EmitLockTypes, EmitStatusTypes
  DEF ProducerStep
<1>3. ASSUME NEW t \in Producers \cup {Host}, ForceStep(t) PROVE Types'
  BY <1>3, ForceLockTypes, WakeForceTypes, ForceFailedTypes DEF ForceStep
<1>4. ASSUME NEW f \in Flushers, FlusherStep(f) PROVE Types'
  BY <1>4, EnterFlushTypes, FlushCheckTypes, FlushTargetTypes, FlushLockTypes,
     FlushTestTypes, FlushAwakeTypes, FlushErrorTypes, SyncCheckTypes, SyncLockTypes,
     SyncTypes
  DEF FlusherStep
<1>5. CASE WorkerStep
  BY <1>5, DrainTypes, DrainEndTypes, BatchFormatTypes, BatchLockTypes, EmitBatchTypes,
     BatchDoneTypes, ProgressLockTypes, ProgressTypes, WaitLockTypes, WaitTestTypes,
     WaitRetestTypes, WaitAwakeTypes, WaitEndTypes, FinalTypes, FinalLockTypes, BroadcastTypes
  DEF WorkerStep
<1>6. CASE HostStep \/ Destroy
  BY <1>6, AcquireTypes, StartWorkerTypes, PublishRunningTypes, RollbackTypes,
     DestroyTypes, StopCheckTypes, JoinTypes, JoinedTypes, FinalSyncTypes, ReleaseTypes
  DEF HostStep
<1>7. ASSUME NEW t \in Threads, NoteStep(t) \/ Spurious(t) PROVE Types'
  BY <1>7, NoteStepTypes, SpuriousTypes
<1> QED
  BY <1>1, <1>2, <1>3, <1>4, <1>5, <1>6, <1>7 DEF Next

\* The initial states have no records.
LEMMA InitRecords ==
    ASSUME Init
    PROVE  RecordInv
<1>1. /\ q.fifo = << >> /\ q.dequeue_pos = 0 /\ batch = 0 /\ emitted = {} /\ failed = {}
      /\ written = {} /\ durable = {} /\ accepted = {} /\ l.completed_pos = 0
  BY DEF Init
<1>2. pc[Host] = "create" /\ pc[Worker] = "none" /\ \A p \in Producers : pc[p] = "idle" /\ calls[p] = 0
  BY Roles DEF Init
<1>3. Len(q.fifo) = 0 /\ Positions = {}
  BY <1>1 DEF Positions
<1>4. RecordsBegun /\ FreshRecords /\ QueuedOnce /\ CountedInOrder /\ CountedOnce
  BY <1>1, <1>2, <1>3 DEF RecordsBegun, FreshRecords, QueuedOnce, CountedInOrder, CountedOnce,
     Counted, FreshLabels
<1>5. ReservedRecords /\ WrittenFirst /\ AcceptedKept /\ FailureLatched /\ WatermarkBehind
  BY <1>1, <1>2
  DEF ReservedRecords, WrittenFirst, AcceptedKept, FailureLatched, WatermarkBehind,
     ReservedLabels
<1>6. QueueUse /\ ConfirmedKept
  BY <1>1, <1>2 DEF QueueUse, ConfirmedKept, AsyncLabels, ReservedLabels
<1> QED
  BY <1>4, <1>5, <1>6 DEF RecordInv

\* Every step keeps the invariant of the records.
LEMMA NextRecords ==
    ASSUME Types, RecordInv, [Next]_vars
    PROVE  RecordInv'
<1>1. CASE UNCHANGED vars
  <2>1. /\ l' = l /\ q' = q /\ pc' = pc /\ batch' = batch /\ slot' = slot /\ noting' = noting
        /\ calls' = calls /\ kind' = kind /\ target' = target /\ result' = result
        /\ faults' = faults /\ owner' = owner /\ unproven' = unproven /\ asleep' = asleep
        /\ written' = written /\ durable' = durable /\ emitted' = emitted /\ failed' = failed
        /\ accepted' = accepted /\ due' = due
    BY <1>1 DEF vars, outputs, promises, locals
  <2>2. KeepFrame
    BY <2>1 DEF KeepFrame
  <2>3. RecordSteps
    BY <2>1 DEF RecordSteps, RecordInv, WatermarkBehind
  <2> QED
    BY <2>1, <2>2, <2>3, RecordFrame
<1>2. ASSUME NEW p \in Producers, ProducerStep(p) PROVE RecordInv'
  BY <1>2, EnterLogRecords, PushRecords, RefusedRecords, PublishRecords, ProbeRecords,
     NotifyLockRecords, NotifyRecords, PushFailedRecords, FormatStatusRecords,
     EmitCheckRecords, EmitLockRecords, EmitStatusRecords
  DEF ProducerStep
<1>3. ASSUME NEW t \in Producers \cup {Host}, ForceStep(t) PROVE RecordInv'
  BY <1>3, ForceLockRecords, WakeForceRecords, ForceFailedRecords DEF ForceStep
<1>4. ASSUME NEW f \in Flushers, FlusherStep(f) PROVE RecordInv'
  BY <1>4, EnterFlushRecords, FlushCheckRecords, FlushTargetRecords, FlushLockRecords,
     FlushTestRecords, FlushAwakeRecords, FlushErrorRecords, SyncCheckRecords,
     SyncLockRecords, SyncRecords
  DEF FlusherStep
<1>5. CASE WorkerStep
  BY <1>5, DrainRecords, DrainEndRecords, BatchFormatRecords, BatchLockRecords,
     EmitBatchRecords, BatchDoneRecords, ProgressLockRecords, ProgressRecords,
     WaitLockRecords, WaitTestRecords, WaitRetestRecords, WaitAwakeRecords, WaitEndRecords,
     FinalRecords, FinalLockRecords, BroadcastRecords
  DEF WorkerStep
<1>6. CASE HostStep \/ Destroy
  BY <1>6, AcquireRecords, StartWorkerRecords, PublishRunningRecords, RollbackRecords,
     DestroyRecords, StopCheckRecords, JoinRecords, JoinedRecords, FinalSyncRecords,
     ReleaseRecords
  DEF HostStep
<1>7. ASSUME NEW t \in Threads, NoteStep(t) \/ Spurious(t) PROVE RecordInv'
  BY <1>7, NoteStepRecords, SpuriousRecords
<1> QED
  BY <1>1, <1>2, <1>3, <1>4, <1>5, <1>6, <1>7 DEF Next

\* The types are an invariant of every behaviour.
LEMMA TypesInvariant == Spec => []Types
<1>1. Init => Types
  BY InitTypes
<1>2. Types /\ [Next]_vars => Types'
  BY NextTypes
<1> QED
  BY <1>1, <1>2, PTL DEF Spec

\* The invariant of the records holds in every behaviour.
LEMMA RecordsInvariant == Spec => []RecordInv
<1>1. Init => RecordInv
  BY InitRecords
<1>2. Types /\ RecordInv /\ [Next]_vars => RecordInv'
  BY NextRecords
<1> QED
  BY <1>1, <1>2, TypesInvariant, PTL DEF Spec

\* TypeOK: the fields of the logger and of its queue keep their types whatever
\* fails, the queue never holds more than cap reserved positions, and every
\* thread is at a label of its role.
THEOREM TypeCorrect == Spec => []TypeOK
<1>1. Types => TypeOK
  BY TypesImplyTypeOK
<1> QED
  BY <1>1, TypesInvariant, PTL

\* ConfirmedIsDurable: logger_log_sync_status (logger_emit_status with a sync)
\* answers 0 only for a record that a successful file sync has covered.
THEOREM ConfirmedWritesAreDurable == Spec => []ConfirmedIsDurable
<1>1. RecordInv => ConfirmedIsDurable
  BY DEF RecordInv, ConfirmedKept, ConfirmedIsDurable, At
<1> QED
  BY <1>1, RecordsInvariant, PTL

-----------------------------------------------------------------------------
(* Critical sections                                                       *)

\* The labels at which a thread is between the lock and the unlock of a mutex.
Section ==
    [emit_mu     |-> {"emit", "sync", "batch_emit", "final_sync"},
     progress_mu |-> {"flush_test", "progress", "broadcast"},
     wait_mu     |-> {"notify", "force", "wait_test", "wait_retest", "wait_end"}]
AllSections == Section["emit_mu"] \cup Section["progress_mu"] \cup Section["wait_mu"]
SectionsOwned == \A m \in Mutexes, t \in Threads : pc[t] \in Section[m] => owner[m] = t
\* No two threads are inside a section of the same mutex.
SectionsExclude ==
    \A m \in Mutexes : \A t, o \in Threads : pc[t] \in Section[m] /\ pc[o] \in Section[m] => t = o

\* The sections of different mutexes have no label in common.
LEMMA SectionsDisjoint ==
    /\ \A m \in Mutexes : Section[m] \subseteq AllSections
    /\ \A m, n \in Mutexes : m # n => Section[m] \cap Section[n] = {}
BY DEF Section, AllSections, Mutexes

\* A thread that goes on outside the sections, leaving every mutex alone.
LEMMA SectionPass ==
    ASSUME SectionsOwned, owner' = owner,
           \A t \in Threads : pc'[t] \in AllSections => pc'[t] = pc[t]
    PROVE  SectionsOwned'
BY SectionsDisjoint DEF SectionsOwned

\* A thread that locks a free mutex, or fails to, and only then enters its section.
LEMMA SectionEnter ==
    ASSUME Types, SectionsOwned, NEW t \in Threads, NEW m \in Mutexes,
           \A o \in Threads \ {t} : pc'[o] = pc[o],
           \/ owner' = owner /\ pc'[t] \notin AllSections
           \/ Lock(t, m) /\ pc'[t] \in Section[m]
    PROVE  SectionsOwned'
<1>1. CASE owner' = owner /\ pc'[t] \notin AllSections
  BY <1>1, SectionPass
<1>2. CASE Lock(t, m) /\ pc'[t] \in Section[m]
  <2>1. owner[m] = None /\ owner' = [owner EXCEPT ![m] = t]
    BY <1>2 DEF Lock
  <2>2. \A o \in Threads : pc[o] \notin Section[m]
    BY <2>1, Roles DEF SectionsOwned
  <2>3. \A n \in Mutexes \ {m} : pc'[t] \notin Section[n] /\ owner'[n] = owner[n]
    BY <1>2, <2>1, SectionsDisjoint DEF Types, SharedTypes
  <2>4. owner'[m] = t
    BY <2>1 DEF Types, SharedTypes
  <2> QED
    BY <2>2, <2>3, <2>4 DEF SectionsOwned
<1> QED
  BY <1>1, <1>2

\* A thread inside a section stays there with its mutex, or leaves it and may
\* give the mutex back.
LEMMA SectionLeave ==
    ASSUME Types, SectionsOwned, NEW t \in Threads, NEW m \in Mutexes, pc[t] \in Section[m],
           \A o \in Threads \ {t} : pc'[o] = pc[o],
           \/ owner' = owner /\ pc'[t] \in Section[m]
           \/ pc'[t] \notin AllSections /\ \A n \in Mutexes \ {m} : owner'[n] = owner[n]
    PROVE  SectionsOwned'
<1>1. owner[m] = t
  BY DEF SectionsOwned
<1>2. \A o \in Threads \ {t} : pc[o] \notin Section[m]
  BY <1>1 DEF SectionsOwned
<1>3. \A n \in Mutexes \ {m} : Section[n] \cap Section[m] = {}
  BY SectionsDisjoint
<1>4. \A n \in Mutexes : Section[n] \subseteq AllSections
  BY SectionsDisjoint
<1> QED
  BY <1>1, <1>2, <1>3, <1>4 DEF SectionsOwned

\* Unlocking touches no other mutex.
LEMMA UnlockOther ==
    ASSUME Types
    PROVE  \A t, m, hit : Unlock(t, m, hit) => \A n \in Mutexes \ {m} : owner'[n] = owner[n]
BY DEF Types, SharedTypes, Unlock

\* EnterLog keeps the sections to their owners.
LEMMA EnterLogSections ==
    ASSUME Types, SectionsOwned, NEW p \in Producers, EnterLog(p)
    PROVE  SectionsOwned'
<1>1. owner' = owner
  BY DEF EnterLog
<1>2. \A o \in Threads : pc'[o] \in AllSections => pc'[o] = pc[o]
  BY Roles DEF Types, PcTypes, Section, AllSections, EnterLog, Go
<1> QED
  BY <1>1, <1>2, SectionPass

\* Push keeps the sections to their owners.
LEMMA PushSections ==
    ASSUME Types, SectionsOwned, NEW p \in Producers, Push(p)
    PROVE  SectionsOwned'
<1>1. owner' = owner
  BY DEF Push
<1>2. \A o \in Threads : pc'[o] \in AllSections => pc'[o] = pc[o]
  BY Roles DEF Types, PcTypes, Section, AllSections, Push, Go
<1> QED
  BY <1>1, <1>2, SectionPass

\* Refused keeps the sections to their owners.
LEMMA RefusedSections ==
    ASSUME Types, SectionsOwned, NEW p \in Producers, Refused(p)
    PROVE  SectionsOwned'
<1>1. owner' = owner
  BY DEF Refused
<1>2. \A o \in Threads : pc'[o] \in AllSections => pc'[o] = pc[o]
  BY Roles DEF Types, PcTypes, Section, AllSections, Refused, Go
<1> QED
  BY <1>1, <1>2, SectionPass

\* Publish keeps the sections to their owners.
LEMMA PublishSections ==
    ASSUME Types, SectionsOwned, NEW p \in Producers, Publish(p)
    PROVE  SectionsOwned'
<1>1. owner' = owner
  BY DEF Publish
<1>2. \A o \in Threads : pc'[o] \in AllSections => pc'[o] = pc[o]
  BY Roles DEF Types, PcTypes, Section, AllSections, Publish, Go
<1> QED
  BY <1>1, <1>2, SectionPass

\* Probe keeps the sections to their owners.
LEMMA ProbeSections ==
    ASSUME Types, SectionsOwned, NEW p \in Producers, Probe(p)
    PROVE  SectionsOwned'
<1>1. owner' = owner
  BY DEF Probe
<1>2. \A o \in Threads : pc'[o] \in AllSections => pc'[o] = pc[o]
  BY Roles DEF Types, PcTypes, Section, AllSections, Probe, Go
<1> QED
  BY <1>1, <1>2, SectionPass

\* NotifyLock keeps the sections to their owners.
LEMMA NotifyLockSections ==
    ASSUME Types, SectionsOwned, NEW p \in Producers, NotifyLock(p)
    PROVE  SectionsOwned'
<1>1. p \in Threads /\ \A o \in Threads \ {p} : pc'[o] = pc[o]
  BY Roles DEF Types, PcTypes, NotifyLock, Go
<1>2. \/ owner' = owner /\ pc'[p] \notin AllSections
      \/ Lock(p, "wait_mu") /\ pc'[p] \in Section["wait_mu"]
  BY Roles DEF Types, PcTypes, Section, AllSections, NotifyLock, Go
<1> QED
  BY <1>1, <1>2, SectionEnter, MutexTypes

\* Notify keeps the sections to their owners.
LEMMA NotifySections ==
    ASSUME Types, SectionsOwned, NEW p \in Producers, Notify(p)
    PROVE  SectionsOwned'
<1>1. p \in Threads /\ \A o \in Threads \ {p} : pc'[o] = pc[o]
  BY Roles DEF Types, PcTypes, Notify, Go
<1>2. pc[p] \in Section["wait_mu"]
  BY DEF Notify, At, Section
<1>3. pc'[p] \notin AllSections
  BY Roles DEF Types, PcTypes, Section, AllSections, Notify, Go
<1>4. \A n \in Mutexes \ {"wait_mu"} : owner'[n] = owner[n]
  BY UnlockOther DEF Notify
<1> QED
  BY <1>1, <1>2, <1>3, <1>4, SectionLeave, MutexTypes

\* PushFailed keeps the sections to their owners.
LEMMA PushFailedSections ==
    ASSUME Types, SectionsOwned, NEW p \in Producers, PushFailed(p)
    PROVE  SectionsOwned'
<1>1. owner' = owner
  BY DEF PushFailed
<1>2. \A o \in Threads : pc'[o] \in AllSections => pc'[o] = pc[o]
  BY Roles DEF Types, PcTypes, Section, AllSections, PushFailed, Go
<1> QED
  BY <1>1, <1>2, SectionPass

\* FormatStatus keeps the sections to their owners.
LEMMA FormatStatusSections ==
    ASSUME Types, SectionsOwned, NEW p \in Producers, FormatStatus(p)
    PROVE  SectionsOwned'
<1>1. owner' = owner
  BY DEF FormatStatus
<1>2. \A o \in Threads : pc'[o] \in AllSections => pc'[o] = pc[o]
  BY Roles DEF Types, PcTypes, Section, AllSections, FormatStatus, Go, Unsent
<1> QED
  BY <1>1, <1>2, SectionPass

\* EmitCheck keeps the sections to their owners.
LEMMA EmitCheckSections ==
    ASSUME Types, SectionsOwned, NEW p \in Producers, EmitCheck(p)
    PROVE  SectionsOwned'
<1>1. owner' = owner
  BY DEF EmitCheck
<1>2. \A o \in Threads : pc'[o] \in AllSections => pc'[o] = pc[o]
  BY Roles DEF Types, PcTypes, Section, AllSections, EmitCheck, Go, Unsent
<1> QED
  BY <1>1, <1>2, SectionPass

\* EmitLock keeps the sections to their owners.
LEMMA EmitLockSections ==
    ASSUME Types, SectionsOwned, NEW p \in Producers, EmitLock(p)
    PROVE  SectionsOwned'
<1>1. p \in Threads /\ \A o \in Threads \ {p} : pc'[o] = pc[o]
  BY Roles DEF Types, PcTypes, EmitLock, Go, Unsent
<1>2. \/ owner' = owner /\ pc'[p] \notin AllSections
      \/ Lock(p, "emit_mu") /\ pc'[p] \in Section["emit_mu"]
  BY Roles DEF Types, PcTypes, Section, AllSections, EmitLock, Go, Unsent
<1> QED
  BY <1>1, <1>2, SectionEnter, MutexTypes

\* EmitStatus keeps the sections to their owners.
LEMMA EmitStatusSections ==
    ASSUME Types, SectionsOwned, NEW p \in Producers, EmitStatus(p)
    PROVE  SectionsOwned'
<1>1. p \in Threads /\ \A o \in Threads \ {p} : pc'[o] = pc[o]
  BY Roles DEF Types, PcTypes, EmitStatus, Go
<1>2. pc[p] \in Section["emit_mu"]
  BY DEF EmitStatus, At, Section
<1>3. pc'[p] \notin AllSections
  BY Roles DEF Types, PcTypes, Section, AllSections, EmitStatus, Go
<1>4. \A n \in Mutexes \ {"emit_mu"} : owner'[n] = owner[n]
  BY UnlockOther DEF EmitStatus
<1> QED
  BY <1>1, <1>2, <1>3, <1>4, SectionLeave, MutexTypes

\* ForceLock keeps the sections to their owners.
LEMMA ForceLockSections ==
    ASSUME Types, SectionsOwned, NEW t \in Producers \cup {Host}, ForceLock(t)
    PROVE  SectionsOwned'
<1>1. t \in Threads /\ \A o \in Threads \ {t} : pc'[o] = pc[o]
  BY Roles DEF Types, PcTypes, ForceLock, Go
<1>2. \/ owner' = owner /\ pc'[t] \notin AllSections
      \/ Lock(t, "wait_mu") /\ pc'[t] \in Section["wait_mu"]
  BY Roles DEF Types, PcTypes, Section, AllSections, ForceLock, Go
<1> QED
  BY <1>1, <1>2, SectionEnter, MutexTypes

\* WakeForce keeps the sections to their owners.
LEMMA WakeForceSections ==
    ASSUME Types, SectionsOwned, NEW t \in Producers \cup {Host}, WakeForce(t)
    PROVE  SectionsOwned'
<1>1. t \in Threads /\ \A o \in Threads \ {t} : pc'[o] = pc[o]
  BY Roles DEF Types, PcTypes, WakeForce, Go
<1>2. pc[t] \in Section["wait_mu"]
  BY DEF WakeForce, At, Section
<1>3. pc'[t] \notin AllSections
  BY Roles DEF Types, PcTypes, Section, AllSections, WakeForce, Go
<1>4. \A n \in Mutexes \ {"wait_mu"} : owner'[n] = owner[n]
  BY UnlockOther DEF WakeForce
<1> QED
  BY <1>1, <1>2, <1>3, <1>4, SectionLeave, MutexTypes

\* ForceFailed keeps the sections to their owners.
LEMMA ForceFailedSections ==
    ASSUME Types, SectionsOwned, NEW t \in Producers \cup {Host}, ForceFailed(t)
    PROVE  SectionsOwned'
<1>1. owner' = owner
  BY DEF ForceFailed
<1>2. \A o \in Threads : pc'[o] \in AllSections => pc'[o] = pc[o]
  BY Roles DEF Types, PcTypes, Section, AllSections, ForceFailed, Go
<1> QED
  BY <1>1, <1>2, SectionPass

\* EnterFlush keeps the sections to their owners.
LEMMA EnterFlushSections ==
    ASSUME Types, SectionsOwned, NEW f \in Flushers, EnterFlush(f)
    PROVE  SectionsOwned'
<1>1. owner' = owner
  BY DEF EnterFlush
<1>2. \A o \in Threads : pc'[o] \in AllSections => pc'[o] = pc[o]
  BY Roles DEF Types, PcTypes, Section, AllSections, EnterFlush, Go
<1> QED
  BY <1>1, <1>2, SectionPass

\* FlushCheck keeps the sections to their owners.
LEMMA FlushCheckSections ==
    ASSUME Types, SectionsOwned, NEW f \in Flushers, FlushCheck(f)
    PROVE  SectionsOwned'
<1>1. owner' = owner
  BY DEF FlushCheck
<1>2. \A o \in Threads : pc'[o] \in AllSections => pc'[o] = pc[o]
  BY Roles DEF Types, PcTypes, Section, AllSections, FlushCheck, Go
<1> QED
  BY <1>1, <1>2, SectionPass

\* FlushTarget keeps the sections to their owners.
LEMMA FlushTargetSections ==
    ASSUME Types, SectionsOwned, NEW f \in Flushers, FlushTarget(f)
    PROVE  SectionsOwned'
<1>1. owner' = owner
  BY DEF FlushTarget
<1>2. \A o \in Threads : pc'[o] \in AllSections => pc'[o] = pc[o]
  BY Roles DEF Types, PcTypes, Section, AllSections, FlushTarget, Go
<1> QED
  BY <1>1, <1>2, SectionPass

\* FlushLock keeps the sections to their owners.
LEMMA FlushLockSections ==
    ASSUME Types, SectionsOwned, NEW f \in Flushers, FlushLock(f)
    PROVE  SectionsOwned'
<1>1. f \in Threads /\ \A o \in Threads \ {f} : pc'[o] = pc[o]
  BY Roles DEF Types, PcTypes, FlushLock, Go
<1>2. \/ owner' = owner /\ pc'[f] \notin AllSections
      \/ Lock(f, "progress_mu") /\ pc'[f] \in Section["progress_mu"]
  BY Roles DEF Types, PcTypes, Section, AllSections, FlushLock, Go
<1> QED
  BY <1>1, <1>2, SectionEnter, MutexTypes

\* FlushTest keeps the sections to their owners.
LEMMA FlushTestSections ==
    ASSUME Types, SectionsOwned, NEW f \in Flushers, FlushTest(f)
    PROVE  SectionsOwned'
<1>1. f \in Threads /\ \A o \in Threads \ {f} : pc'[o] = pc[o]
  BY Roles DEF Types, PcTypes, FlushTest, Go
<1>2. pc[f] \in Section["progress_mu"]
  BY DEF FlushTest, At, Section
<1>3. pc'[f] \notin AllSections
  BY Roles DEF Types, PcTypes, Section, AllSections, FlushTest, Go
<1>4. \A n \in Mutexes \ {"progress_mu"} : owner'[n] = owner[n]
  BY UnlockOther DEF FlushTest, Types, SharedTypes
<1> QED
  BY <1>1, <1>2, <1>3, <1>4, SectionLeave, MutexTypes

\* FlushAwake keeps the sections to their owners.
LEMMA FlushAwakeSections ==
    ASSUME Types, SectionsOwned, NEW f \in Flushers, FlushAwake(f)
    PROVE  SectionsOwned'
<1>1. f \in Threads /\ \A o \in Threads \ {f} : pc'[o] = pc[o]
  BY Roles DEF Types, PcTypes, FlushAwake, Go
<1>2. \/ owner' = owner /\ pc'[f] \notin AllSections
      \/ Lock(f, "progress_mu") /\ pc'[f] \in Section["progress_mu"]
  BY Roles DEF Types, PcTypes, Section, AllSections, FlushAwake, Go
<1> QED
  BY <1>1, <1>2, SectionEnter, MutexTypes

\* FlushError keeps the sections to their owners.
LEMMA FlushErrorSections ==
    ASSUME Types, SectionsOwned, NEW f \in Flushers, FlushError(f)
    PROVE  SectionsOwned'
<1>1. owner' = owner
  BY DEF FlushError
<1>2. \A o \in Threads : pc'[o] \in AllSections => pc'[o] = pc[o]
  BY Roles DEF Types, PcTypes, Section, AllSections, FlushError, Go
<1> QED
  BY <1>1, <1>2, SectionPass

\* SyncCheck keeps the sections to their owners.
LEMMA SyncCheckSections ==
    ASSUME Types, SectionsOwned, NEW f \in Flushers, SyncCheck(f)
    PROVE  SectionsOwned'
<1>1. owner' = owner
  BY DEF SyncCheck
<1>2. \A o \in Threads : pc'[o] \in AllSections => pc'[o] = pc[o]
  BY Roles DEF Types, PcTypes, Section, AllSections, SyncCheck, Go
<1> QED
  BY <1>1, <1>2, SectionPass

\* SyncLock keeps the sections to their owners.
LEMMA SyncLockSections ==
    ASSUME Types, SectionsOwned, NEW f \in Flushers, SyncLock(f)
    PROVE  SectionsOwned'
<1>1. f \in Threads /\ \A o \in Threads \ {f} : pc'[o] = pc[o]
  BY Roles DEF Types, PcTypes, SyncLock, Go
<1>2. \/ owner' = owner /\ pc'[f] \notin AllSections
      \/ Lock(f, "emit_mu") /\ pc'[f] \in Section["emit_mu"]
  BY Roles DEF Types, PcTypes, Section, AllSections, SyncLock, Go
<1> QED
  BY <1>1, <1>2, SectionEnter, MutexTypes

\* Sync keeps the sections to their owners.
LEMMA SyncSections ==
    ASSUME Types, SectionsOwned, NEW f \in Flushers, Sync(f)
    PROVE  SectionsOwned'
<1>1. f \in Threads /\ \A o \in Threads \ {f} : pc'[o] = pc[o]
  BY Roles DEF Types, PcTypes, Sync, Go
<1>2. pc[f] \in Section["emit_mu"]
  BY DEF Sync, At, Section
<1>3. pc'[f] \notin AllSections
  BY Roles DEF Types, PcTypes, Section, AllSections, Sync, Go
<1>4. \A n \in Mutexes \ {"emit_mu"} : owner'[n] = owner[n]
  BY UnlockOther DEF Sync, SyncOutputs
<1> QED
  BY <1>1, <1>2, <1>3, <1>4, SectionLeave, MutexTypes

\* Drain keeps the sections to their owners.
LEMMA DrainSections ==
    ASSUME Types, SectionsOwned, Drain
    PROVE  SectionsOwned'
<1>1. owner' = owner
  BY DEF Drain
<1>2. \A o \in Threads : pc'[o] \in AllSections => pc'[o] = pc[o]
  BY Roles DEF Types, PcTypes, Section, AllSections, Drain
<1> QED
  BY <1>1, <1>2, SectionPass

\* DrainEnd keeps the sections to their owners.
LEMMA DrainEndSections ==
    ASSUME Types, SectionsOwned, DrainEnd
    PROVE  SectionsOwned'
<1>1. owner' = owner
  BY DEF DrainEnd
<1>2. \A o \in Threads : pc'[o] \in AllSections => pc'[o] = pc[o]
  BY Roles DEF Types, PcTypes, Section, AllSections, DrainEnd, Go
<1> QED
  BY <1>1, <1>2, SectionPass

\* BatchFormat keeps the sections to their owners.
LEMMA BatchFormatSections ==
    ASSUME Types, SectionsOwned, BatchFormat
    PROVE  SectionsOwned'
<1>1. owner' = owner
  BY DEF BatchFormat
<1>2. \A o \in Threads : pc'[o] \in AllSections => pc'[o] = pc[o]
  BY Roles DEF Types, PcTypes, Section, AllSections, BatchFormat, Go
<1> QED
  BY <1>1, <1>2, SectionPass

\* BatchLock keeps the sections to their owners.
LEMMA BatchLockSections ==
    ASSUME Types, SectionsOwned, BatchLock
    PROVE  SectionsOwned'
<1>1. Worker \in Threads /\ \A o \in Threads \ {Worker} : pc'[o] = pc[o]
  BY Roles DEF Types, PcTypes, BatchLock, Go
<1>2. \/ owner' = owner /\ pc'[Worker] \notin AllSections
      \/ Lock(Worker, "emit_mu") /\ pc'[Worker] \in Section["emit_mu"]
  BY Roles DEF Types, PcTypes, Section, AllSections, BatchLock, Go
<1> QED
  BY <1>1, <1>2, SectionEnter, MutexTypes

\* EmitBatch keeps the sections to their owners.
LEMMA EmitBatchSections ==
    ASSUME Types, SectionsOwned, EmitBatch
    PROVE  SectionsOwned'
<1>1. Worker \in Threads /\ \A o \in Threads \ {Worker} : pc'[o] = pc[o]
  BY Roles DEF Types, PcTypes, EmitBatch, Go
<1>2. pc[Worker] \in Section["emit_mu"]
  BY DEF EmitBatch, At, Section
<1>3. pc'[Worker] \notin AllSections
  BY Roles DEF Types, PcTypes, Section, AllSections, EmitBatch, Go
<1>4. \A n \in Mutexes \ {"emit_mu"} : owner'[n] = owner[n]
  BY UnlockOther DEF EmitBatch
<1> QED
  BY <1>1, <1>2, <1>3, <1>4, SectionLeave, MutexTypes

\* BatchDone keeps the sections to their owners.
LEMMA BatchDoneSections ==
    ASSUME Types, SectionsOwned, BatchDone
    PROVE  SectionsOwned'
<1>1. owner' = owner
  BY DEF BatchDone
<1>2. \A o \in Threads : pc'[o] \in AllSections => pc'[o] = pc[o]
  BY Roles DEF Types, PcTypes, Section, AllSections, BatchDone, Go
<1> QED
  BY <1>1, <1>2, SectionPass

\* ProgressLock keeps the sections to their owners.
LEMMA ProgressLockSections ==
    ASSUME Types, SectionsOwned, ProgressLock
    PROVE  SectionsOwned'
<1>1. Worker \in Threads /\ \A o \in Threads \ {Worker} : pc'[o] = pc[o]
  BY Roles DEF Types, PcTypes, ProgressLock, Go
<1>2. \/ owner' = owner /\ pc'[Worker] \notin AllSections
      \/ Lock(Worker, "progress_mu") /\ pc'[Worker] \in Section["progress_mu"]
  BY Roles DEF Types, PcTypes, Section, AllSections, ProgressLock, Go
<1> QED
  BY <1>1, <1>2, SectionEnter, MutexTypes

\* Progress keeps the sections to their owners.
LEMMA ProgressSections ==
    ASSUME Types, SectionsOwned, Progress
    PROVE  SectionsOwned'
<1>1. Worker \in Threads /\ \A o \in Threads \ {Worker} : pc'[o] = pc[o]
  BY Roles DEF Types, PcTypes, Progress, Go
<1>2. pc[Worker] \in Section["progress_mu"]
  BY DEF Progress, At, Section
<1>3. pc'[Worker] \notin AllSections
  BY Roles DEF Types, PcTypes, Section, AllSections, Progress, Go
<1>4. \A n \in Mutexes \ {"progress_mu"} : owner'[n] = owner[n]
  BY UnlockOther DEF Progress
<1> QED
  BY <1>1, <1>2, <1>3, <1>4, SectionLeave, MutexTypes

\* WaitLock keeps the sections to their owners.
LEMMA WaitLockSections ==
    ASSUME Types, SectionsOwned, WaitLock
    PROVE  SectionsOwned'
<1>1. Worker \in Threads /\ \A o \in Threads \ {Worker} : pc'[o] = pc[o]
  BY Roles DEF Types, PcTypes, WaitLock, Go
<1>2. \/ owner' = owner /\ pc'[Worker] \notin AllSections
      \/ Lock(Worker, "wait_mu") /\ pc'[Worker] \in Section["wait_mu"]
  BY Roles DEF Types, PcTypes, Section, AllSections, WaitLock, Go
<1> QED
  BY <1>1, <1>2, SectionEnter, MutexTypes

\* WaitTest keeps the sections to their owners.
LEMMA WaitTestSections ==
    ASSUME Types, SectionsOwned, WaitTest
    PROVE  SectionsOwned'
<1>1. Worker \in Threads /\ \A o \in Threads \ {Worker} : pc'[o] = pc[o]
  BY Roles DEF Types, PcTypes, WaitTest, Go
<1>2. pc[Worker] \in Section["wait_mu"] /\ owner' = owner /\ pc'[Worker] \in Section["wait_mu"]
  BY Roles DEF Types, PcTypes, WaitTest, At, Go, Section
<1> QED
  BY <1>1, <1>2, SectionLeave, MutexTypes

\* WaitRetest keeps the sections to their owners.
LEMMA WaitRetestSections ==
    ASSUME Types, SectionsOwned, WaitRetest
    PROVE  SectionsOwned'
<1>1. Worker \in Threads /\ \A o \in Threads \ {Worker} : pc'[o] = pc[o]
  BY Roles DEF Types, PcTypes, WaitRetest, Go
<1>2. pc[Worker] \in Section["wait_mu"]
  BY DEF WaitRetest, At, Section
<1>3. \/ owner' = owner /\ pc'[Worker] \in Section["wait_mu"]
      \/ pc'[Worker] \notin AllSections /\ \A n \in Mutexes \ {"wait_mu"} : owner'[n] = owner[n]
  BY Roles DEF Types, PcTypes, SharedTypes, Section, AllSections, WaitRetest, Go
<1> QED
  BY <1>1, <1>2, <1>3, SectionLeave, MutexTypes

\* WaitAwake keeps the sections to their owners.
LEMMA WaitAwakeSections ==
    ASSUME Types, SectionsOwned, WaitAwake
    PROVE  SectionsOwned'
<1>1. Worker \in Threads /\ \A o \in Threads \ {Worker} : pc'[o] = pc[o]
  BY Roles DEF Types, PcTypes, WaitAwake, Go
<1>2. \/ owner' = owner /\ pc'[Worker] \notin AllSections
      \/ Lock(Worker, "wait_mu") /\ pc'[Worker] \in Section["wait_mu"]
  BY Roles DEF Types, PcTypes, Section, AllSections, WaitAwake, Go
<1> QED
  BY <1>1, <1>2, SectionEnter, MutexTypes

\* WaitEnd keeps the sections to their owners.
LEMMA WaitEndSections ==
    ASSUME Types, SectionsOwned, WaitEnd
    PROVE  SectionsOwned'
<1>1. Worker \in Threads /\ \A o \in Threads \ {Worker} : pc'[o] = pc[o]
  BY Roles DEF Types, PcTypes, WaitEnd, Go
<1>2. pc[Worker] \in Section["wait_mu"]
  BY DEF WaitEnd, At, Section
<1>3. pc'[Worker] \notin AllSections
  BY Roles DEF Types, PcTypes, Section, AllSections, WaitEnd, Go
<1>4. \A n \in Mutexes \ {"wait_mu"} : owner'[n] = owner[n]
  BY UnlockOther DEF WaitEnd
<1> QED
  BY <1>1, <1>2, <1>3, <1>4, SectionLeave, MutexTypes

\* Final keeps the sections to their owners.
LEMMA FinalSections ==
    ASSUME Types, SectionsOwned, Final
    PROVE  SectionsOwned'
<1>1. owner' = owner
  BY DEF Final
<1>2. \A o \in Threads : pc'[o] \in AllSections => pc'[o] = pc[o]
  BY Roles DEF Types, PcTypes, Section, AllSections, Final, Go
<1> QED
  BY <1>1, <1>2, SectionPass

\* FinalLock keeps the sections to their owners.
LEMMA FinalLockSections ==
    ASSUME Types, SectionsOwned, FinalLock
    PROVE  SectionsOwned'
<1>1. Worker \in Threads /\ \A o \in Threads \ {Worker} : pc'[o] = pc[o]
  BY Roles DEF Types, PcTypes, FinalLock, Go
<1>2. \/ owner' = owner /\ pc'[Worker] \notin AllSections
      \/ Lock(Worker, "progress_mu") /\ pc'[Worker] \in Section["progress_mu"]
  BY Roles DEF Types, PcTypes, Section, AllSections, FinalLock, Go
<1> QED
  BY <1>1, <1>2, SectionEnter, MutexTypes

\* Broadcast keeps the sections to their owners.
LEMMA BroadcastSections ==
    ASSUME Types, SectionsOwned, Broadcast
    PROVE  SectionsOwned'
<1>1. Worker \in Threads /\ \A o \in Threads \ {Worker} : pc'[o] = pc[o]
  BY Roles DEF Types, PcTypes, Broadcast, Go
<1>2. pc[Worker] \in Section["progress_mu"]
  BY DEF Broadcast, At, Section
<1>3. pc'[Worker] \notin AllSections
  BY Roles DEF Types, PcTypes, Section, AllSections, Broadcast, Go
<1>4. \A n \in Mutexes \ {"progress_mu"} : owner'[n] = owner[n]
  BY UnlockOther DEF Broadcast
<1> QED
  BY <1>1, <1>2, <1>3, <1>4, SectionLeave, MutexTypes

\* Acquire keeps the sections to their owners.
LEMMA AcquireSections ==
    ASSUME Types, SectionsOwned, Acquire
    PROVE  SectionsOwned'
<1>1. owner' = owner
  BY DEF Acquire
<1>2. \A o \in Threads : pc'[o] \in AllSections => pc'[o] = pc[o]
  BY Roles DEF Types, PcTypes, Section, AllSections, Acquire, Go
<1> QED
  BY <1>1, <1>2, SectionPass

\* StartWorker keeps the sections to their owners.
LEMMA StartWorkerSections ==
    ASSUME Types, SectionsOwned, StartWorker
    PROVE  SectionsOwned'
<1>1. owner' = owner
  BY DEF StartWorker
<1>2. \A o \in Threads : pc'[o] \in AllSections => pc'[o] = pc[o]
  BY Roles DEF Types, PcTypes, Section, AllSections, StartWorker, Go
<1> QED
  BY <1>1, <1>2, SectionPass

\* PublishRunning keeps the sections to their owners.
LEMMA PublishRunningSections ==
    ASSUME Types, SectionsOwned, PublishRunning
    PROVE  SectionsOwned'
<1>1. owner' = owner
  BY DEF PublishRunning
<1>2. \A o \in Threads : pc'[o] \in AllSections => pc'[o] = pc[o]
  BY Roles DEF Types, PcTypes, Section, AllSections, PublishRunning, Go
<1> QED
  BY <1>1, <1>2, SectionPass

\* Rollback keeps the sections to their owners.
LEMMA RollbackSections ==
    ASSUME Types, SectionsOwned, Rollback
    PROVE  SectionsOwned'
<1>1. owner' = owner
  BY DEF Rollback
<1>2. \A o \in Threads : pc'[o] \in AllSections => pc'[o] = pc[o]
  BY Roles DEF Types, PcTypes, Section, AllSections, Rollback, Go
<1> QED
  BY <1>1, <1>2, SectionPass

\* Destroy keeps the sections to their owners.
LEMMA DestroySections ==
    ASSUME Types, SectionsOwned, Destroy
    PROVE  SectionsOwned'
<1>1. owner' = owner
  BY DEF Destroy
<1>2. \A o \in Threads : pc'[o] \in AllSections => pc'[o] = pc[o]
  BY Roles DEF Types, PcTypes, Section, AllSections, Destroy, Go
<1> QED
  BY <1>1, <1>2, SectionPass

\* StopCheck keeps the sections to their owners.
LEMMA StopCheckSections ==
    ASSUME Types, SectionsOwned, StopCheck
    PROVE  SectionsOwned'
<1>1. owner' = owner
  BY DEF StopCheck
<1>2. \A o \in Threads : pc'[o] \in AllSections => pc'[o] = pc[o]
  BY Roles DEF Types, PcTypes, Section, AllSections, StopCheck, Go
<1> QED
  BY <1>1, <1>2, SectionPass

\* Join keeps the sections to their owners.
LEMMA JoinSections ==
    ASSUME Types, SectionsOwned, Join
    PROVE  SectionsOwned'
<1>1. owner' = owner
  BY DEF Join
<1>2. \A o \in Threads : pc'[o] \in AllSections => pc'[o] = pc[o]
  BY Roles DEF Types, PcTypes, Section, AllSections, Join, Go
<1> QED
  BY <1>1, <1>2, SectionPass

\* Joined keeps the sections to their owners.
LEMMA JoinedSections ==
    ASSUME Types, SectionsOwned, Joined
    PROVE  SectionsOwned'
<1>1. Host \in Threads /\ \A o \in Threads \ {Host} : pc'[o] = pc[o]
  BY Roles DEF Types, PcTypes, Joined, Go
<1>2. \/ owner' = owner /\ pc'[Host] \notin AllSections
      \/ Lock(Host, "emit_mu") /\ pc'[Host] \in Section["emit_mu"]
  BY Roles DEF Types, PcTypes, Section, AllSections, Joined, Go
<1> QED
  BY <1>1, <1>2, SectionEnter, MutexTypes

\* FinalSync keeps the sections to their owners.
LEMMA FinalSyncSections ==
    ASSUME Types, SectionsOwned, FinalSync
    PROVE  SectionsOwned'
<1>1. Host \in Threads /\ \A o \in Threads \ {Host} : pc'[o] = pc[o]
  BY Roles DEF Types, PcTypes, FinalSync, Go
<1>2. pc[Host] \in Section["emit_mu"]
  BY DEF FinalSync, At, Section
<1>3. pc'[Host] \notin AllSections
  BY Roles DEF Types, PcTypes, Section, AllSections, FinalSync, Go
<1>4. \A n \in Mutexes \ {"emit_mu"} : owner'[n] = owner[n]
  BY UnlockOther DEF FinalSync, SyncOutputs
<1> QED
  BY <1>1, <1>2, <1>3, <1>4, SectionLeave, MutexTypes

\* Release keeps the sections to their owners.
LEMMA ReleaseSections ==
    ASSUME Types, SectionsOwned, Release
    PROVE  SectionsOwned'
<1>1. owner' = owner
  BY DEF Release
<1>2. \A o \in Threads : pc'[o] \in AllSections => pc'[o] = pc[o]
  BY Roles DEF Types, PcTypes, Section, AllSections, Release, Go
<1> QED
  BY <1>1, <1>2, SectionPass

\* NoteStep keeps the sections to their owners.
LEMMA NoteStepSections ==
    ASSUME Types, SectionsOwned, NEW t \in Threads, NoteStep(t)
    PROVE  SectionsOwned'
<1>1. owner' = owner
  BY DEF NoteStep
<1>2. \A o \in Threads : pc'[o] \in AllSections => pc'[o] = pc[o]
  BY Roles DEF Types, PcTypes, Section, AllSections, NoteStep
<1> QED
  BY <1>1, <1>2, SectionPass

\* Spurious keeps the sections to their owners.
LEMMA SpuriousSections ==
    ASSUME Types, SectionsOwned, NEW t \in Threads, Spurious(t)
    PROVE  SectionsOwned'
<1>1. owner' = owner
  BY DEF Spurious
<1>2. \A o \in Threads : pc'[o] \in AllSections => pc'[o] = pc[o]
  BY Roles DEF Types, PcTypes, Section, AllSections, Spurious
<1> QED
  BY <1>1, <1>2, SectionPass

\* Before the first step no thread is inside a section.
LEMMA InitSections ==
    ASSUME Init
    PROVE  SectionsOwned
<1>1. \A t \in Threads : pc[t] \in {"create", "none", "idle"}
  BY DEF Init
<1>2. \A t \in Threads : pc[t] \notin AllSections
  BY <1>1 DEF Section, AllSections
<1> QED
  BY <1>2, SectionsDisjoint DEF SectionsOwned

\* Every step keeps the sections to their owners.
LEMMA NextSections ==
    ASSUME Types, SectionsOwned, [Next]_vars
    PROVE  SectionsOwned'
<1>1. CASE UNCHANGED vars
  <2>1. /\ l' = l /\ q' = q /\ pc' = pc /\ batch' = batch /\ slot' = slot /\ noting' = noting
        /\ calls' = calls /\ kind' = kind /\ target' = target /\ result' = result
        /\ faults' = faults /\ owner' = owner /\ unproven' = unproven /\ asleep' = asleep
        /\ written' = written /\ durable' = durable /\ emitted' = emitted /\ failed' = failed
        /\ accepted' = accepted /\ due' = due
    BY <1>1 DEF vars, outputs, promises, locals
  <2> QED
    BY <2>1, SectionPass
<1>2. ASSUME NEW p \in Producers, ProducerStep(p) PROVE SectionsOwned'
  BY <1>2, EnterLogSections, PushSections, RefusedSections, PublishSections, ProbeSections,
     NotifyLockSections, NotifySections, PushFailedSections, FormatStatusSections,
     EmitCheckSections, EmitLockSections, EmitStatusSections
  DEF ProducerStep
<1>3. ASSUME NEW t \in Producers \cup {Host}, ForceStep(t) PROVE SectionsOwned'
  BY <1>3, ForceLockSections, WakeForceSections, ForceFailedSections DEF ForceStep
<1>4. ASSUME NEW f \in Flushers, FlusherStep(f) PROVE SectionsOwned'
  BY <1>4, EnterFlushSections, FlushCheckSections, FlushTargetSections, FlushLockSections,
     FlushTestSections, FlushAwakeSections, FlushErrorSections, SyncCheckSections,
     SyncLockSections, SyncSections
  DEF FlusherStep
<1>5. CASE WorkerStep
  BY <1>5, DrainSections, DrainEndSections, BatchFormatSections, BatchLockSections,
     EmitBatchSections, BatchDoneSections, ProgressLockSections, ProgressSections,
     WaitLockSections, WaitTestSections, WaitRetestSections, WaitAwakeSections,
     WaitEndSections, FinalSections, FinalLockSections, BroadcastSections
  DEF WorkerStep
<1>6. CASE HostStep \/ Destroy
  BY <1>6, AcquireSections, StartWorkerSections, PublishRunningSections, RollbackSections,
     DestroySections, StopCheckSections, JoinSections, JoinedSections, FinalSyncSections,
     ReleaseSections
  DEF HostStep
<1>7. ASSUME NEW t \in Threads, NoteStep(t) \/ Spurious(t) PROVE SectionsOwned'
  BY <1>7, NoteStepSections, SpuriousSections
<1> QED
  BY <1>1, <1>2, <1>3, <1>4, <1>5, <1>6, <1>7 DEF Next

\* SectionsExclude: two threads are never both between lock and unlock of emit_mu,
\* progress_mu or wait_mu, although unlocks and condition waits may fail and a
\* thread whose unlock failed goes on; outputs, watermark and the consumer_waiting
\* handshake are each touched by one thread at a time.
THEOREM MutexesExclude == Spec => []SectionsExclude
<1>1. Init => SectionsOwned
  BY InitSections
<1>2. Types /\ SectionsOwned /\ [Next]_vars => SectionsOwned'
  BY NextSections
<1>3. SectionsOwned => SectionsExclude
  BY DEF SectionsOwned, SectionsExclude
<1> QED
  BY <1>1, <1>2, <1>3, TypesInvariant, PTL DEF Spec

==============================================================================
