------------------------- MODULE AsyncLoggerPromises -------------------------
(****************************************************************************)
(* What one logger answers for, proved on top of the types and the records  *)
(* of AsyncLoggerProofs: the promises of logger_flush (FlushInv), the       *)
(* counts (CountInv), the lifetimes of the logger's parts, its worker and   *)
(* its errors (LifeInv), the answer of logger_destroy (DestroyInv), which   *)
(* needs them, and what no step undoes (Advance). Each invariant has one    *)
(* lemma per action; steps of borrowers and of the worker go through a      *)
(* frame that says what such a step may touch.                              *)
(****************************************************************************)
EXTENDS AsyncLoggerProofs

-----------------------------------------------------------------------------
(* Flushes                                                                 *)

\* What f's flush answers for.
Queued(n) == {q.fifo[i] : i \in 1..n}
Due(f) == due[f] \cup Queued(target[f])

\* How far f's flush has shown its records to be handled, by where it is.
FlushPromise(f) ==
    /\ target[f] <= Len(q.fifo) /\ (~l.async_mode => target[f] = 0)
    /\ pc[f] \in {"flush_target", "flush_lock", "flush_test", "flush_asleep"} => l.async_mode
    /\ pc[f] \in {"flush_check", "flush_target"} => due[f] \subseteq accepted
    /\ pc[f] \in {"flush_lock", "flush_test", "flush_asleep"} =>
         due[f] \subseteq emitted \cup Queued(target[f])
    /\ pc[f] = "flush_error" => Due(f) \subseteq Counted
    /\ pc[f] \in {"sync_check", "sync_lock", "sync"} /\ result[f] = "ok" => Due(f) \subseteq emitted
    /\ pc[f] = "idle" /\ calls[f] > 0 /\ result[f] = "ok" => Due(f) \subseteq emitted \cap durable
FlushInv == \A f \in Flushers : FlushPromise(f)

\* Records are only added to the queue and to the counts.
GrowFrame ==
    /\ emitted \subseteq emitted' /\ failed \subseteq failed' /\ durable \subseteq durable'
    /\ accepted \subseteq accepted' /\ Len(q.fifo) <= Len(q'.fifo)
    /\ \A i \in Positions : q'.fifo[i] = q.fifo[i]
    /\ l'.async_mode = l.async_mode

\* The variables of f's own flush stay.
SameFlush(f) ==
    /\ pc'[f] = pc[f] /\ target'[f] = target[f] /\ due'[f] = due[f]
    /\ result'[f] = result[f] /\ calls'[f] = calls[f]

\* A step that handles no record leaves the records where they are.
LEMMA DataGrows ==
    ASSUME Types, DataFrame
    PROVE  GrowFrame
<1>1. Len(q.fifo) \in Nat
  BY RecordPlaces
<1> QED
  BY <1>1 DEF DataFrame, KeepFrame, GrowFrame

\* The queued records a target covers stay the same.
LEMMA QueuedGrows ==
    ASSUME Types, Types', GrowFrame, NEW n \in Nat, n <= Len(q.fifo)
    PROVE  Queued(n)' = Queued(n) /\ n <= Len(q'.fifo)
<1>1. Len(q.fifo) \in Nat /\ Len(q'.fifo) \in Nat
  BY RecordPlaces, QueueFieldTypes DEF Types, QueueTypes
<1>2. \A i \in 1..n : q'.fifo[i] = q.fifo[i]
  BY <1>1 DEF GrowFrame, Positions
<1> QED
  BY <1>1, <1>2 DEF Queued, GrowFrame

\* The promise of a flush survives every step of the others.
LEMMA FlushOther ==
    ASSUME Types, Types', GrowFrame, NEW f \in Flushers, FlushPromise(f), SameFlush(f)
    PROVE  FlushPromise(f)'
<1>1. target[f] \in Nat /\ target[f] <= Len(q.fifo)
  BY DEF Types, LocalTypes, FlushPromise
<1>2. Queued(target[f])' = Queued(target[f]) /\ target[f] <= Len(q'.fifo)
  <2>1. target[f] <= Len(q'.fifo) /\ {q'.fifo[i] : i \in 1..target[f]} = Queued(target[f])
    BY <1>1, QueuedGrows DEF Queued
  <2> QED
    BY <2>1 DEF SameFlush, Queued
<1>3. Due(f)' = Due(f)
  BY <1>2 DEF Due, SameFlush
<1>4. Counted \subseteq Counted'
  BY DEF Counted, GrowFrame
<1> QED
  BY <1>2, <1>3, <1>4 DEF FlushPromise, SameFlush, GrowFrame

\* A step of no flusher keeps the promises of all.
LEMMA FlushFrame ==
    ASSUME Types, Types', FlushInv, GrowFrame, \A f \in Flushers : SameFlush(f)
    PROVE  FlushInv'
BY FlushOther DEF FlushInv

\* A step of one flusher keeps the promises of the others.
LEMMA FlushOwn ==
    ASSUME Types, Types', FlushInv, GrowFrame, NEW f \in Flushers,
           \A o \in Flushers \ {f} : SameFlush(o), FlushPromise(f)'
    PROVE  FlushInv'
BY FlushOther DEF FlushInv

\* EnterLog only adds records.
LEMMA EnterLogGrows ==
    ASSUME Types, NEW p \in Producers, EnterLog(p)
    PROVE  GrowFrame
<1>1. q'.fifo = q.fifo /\ Len(q.fifo) \in Nat
  BY RecordPlaces DEF Types, QueueTypes, QueueFields, EnterLog
<1>2. l'.async_mode = l.async_mode
  BY DEF Types, LoggerFields, EnterLog
<1>3. /\ emitted \subseteq emitted' /\ failed \subseteq failed'
      /\ durable \subseteq durable' /\ accepted \subseteq accepted'
  BY DEF EnterLog, outputs, promises
<1> QED
  BY <1>1, <1>2, <1>3 DEF GrowFrame

\* Push only adds records.
LEMMA PushGrows ==
    ASSUME Types, NEW p \in Producers, Push(p)
    PROVE  GrowFrame
<1>1. Len(q.fifo) \in Nat /\ Len(q'.fifo) = Len(q.fifo) + 1 /\ \A i \in Positions : q'.fifo[i] = q.fifo[i]
  BY PushEffect, RecordPlaces
<1>2. l'.async_mode = l.async_mode
  BY DEF Types, LoggerFields, Push
<1>3. /\ emitted \subseteq emitted' /\ failed \subseteq failed'
      /\ durable \subseteq durable' /\ accepted \subseteq accepted'
  BY DEF Push, outputs, promises
<1> QED
  BY <1>1, <1>2, <1>3 DEF GrowFrame

\* Probe only adds records.
LEMMA ProbeGrows ==
    ASSUME Types, NEW p \in Producers, Probe(p)
    PROVE  GrowFrame
<1>1. q'.fifo = q.fifo /\ Len(q.fifo) \in Nat
  BY RecordPlaces DEF Types, QueueTypes, QueueFields, Probe
<1>2. l'.async_mode = l.async_mode
  BY DEF Types, LoggerFields, Probe
<1>3. /\ emitted \subseteq emitted' /\ failed \subseteq failed'
      /\ durable \subseteq durable' /\ accepted \subseteq accepted'
  BY DEF Probe, Accept, outputs
<1> QED
  BY <1>1, <1>2, <1>3 DEF GrowFrame

\* Notify only adds records.
LEMMA NotifyGrows ==
    ASSUME Types, NEW p \in Producers, Notify(p)
    PROVE  GrowFrame
<1>1. q'.fifo = q.fifo /\ Len(q.fifo) \in Nat
  BY RecordPlaces DEF Types, QueueTypes, QueueFields, Notify
<1>2. l'.async_mode = l.async_mode
  BY DEF Types, LoggerFields, Notify
<1>3. /\ emitted \subseteq emitted' /\ failed \subseteq failed'
      /\ durable \subseteq durable' /\ accepted \subseteq accepted'
  BY DEF Notify, Accept, outputs
<1> QED
  BY <1>1, <1>2, <1>3 DEF GrowFrame

\* FormatStatus only adds records.
LEMMA FormatStatusGrows ==
    ASSUME Types, NEW p \in Producers, FormatStatus(p)
    PROVE  GrowFrame
<1>1. q'.fifo = q.fifo /\ Len(q.fifo) \in Nat
  BY RecordPlaces DEF Types, QueueTypes, QueueFields, FormatStatus
<1>2. l'.async_mode = l.async_mode
  BY DEF Types, LoggerFields, FormatStatus, Unsent
<1>3. /\ emitted \subseteq emitted' /\ failed \subseteq failed'
      /\ durable \subseteq durable' /\ accepted \subseteq accepted'
  BY DEF FormatStatus, Unsent, outputs, promises
<1> QED
  BY <1>1, <1>2, <1>3 DEF GrowFrame

\* EmitCheck only adds records.
LEMMA EmitCheckGrows ==
    ASSUME Types, NEW p \in Producers, EmitCheck(p)
    PROVE  GrowFrame
<1>1. q'.fifo = q.fifo /\ Len(q.fifo) \in Nat
  BY RecordPlaces DEF Types, QueueTypes, QueueFields, EmitCheck
<1>2. l'.async_mode = l.async_mode
  BY DEF Types, LoggerFields, EmitCheck, Unsent
<1>3. /\ emitted \subseteq emitted' /\ failed \subseteq failed'
      /\ durable \subseteq durable' /\ accepted \subseteq accepted'
  BY DEF EmitCheck, Unsent, outputs, promises
<1> QED
  BY <1>1, <1>2, <1>3 DEF GrowFrame

\* EmitLock only adds records.
LEMMA EmitLockGrows ==
    ASSUME Types, NEW p \in Producers, EmitLock(p)
    PROVE  GrowFrame
<1>1. q'.fifo = q.fifo /\ Len(q.fifo) \in Nat
  BY RecordPlaces DEF Types, QueueTypes, QueueFields, EmitLock
<1>2. l'.async_mode = l.async_mode
  BY DEF Types, LoggerFields, EmitLock, Unsent
<1>3. /\ emitted \subseteq emitted' /\ failed \subseteq failed'
      /\ durable \subseteq durable' /\ accepted \subseteq accepted'
  BY DEF EmitLock, Unsent, outputs, promises
<1> QED
  BY <1>1, <1>2, <1>3 DEF GrowFrame

\* EmitStatus only adds records.
LEMMA EmitStatusGrows ==
    ASSUME Types, RecordInv, NEW p \in Producers, EmitStatus(p)
    PROVE  GrowFrame
<1>1. q'.fifo = q.fifo /\ Len(q.fifo) \in Nat
  BY RecordPlaces DEF Types, QueueTypes, QueueFields, EmitStatus
<1>2. l'.async_mode = l.async_mode
  BY DEF Types, LoggerFields, EmitStatus
<1>3. /\ emitted \subseteq emitted' /\ failed \subseteq failed'
      /\ durable \subseteq durable' /\ accepted \subseteq accepted'
  <2>1. durable \subseteq written
    BY DEF RecordInv, WrittenFirst
  <2>2. PICK hit \in SUBSET {<<"io", "write">>, <<"io", "fsync">>, <<"unlock", "emit_mu">>} :
           /\ StillWritten(IF <<"io", "write">> \in hit THEN written ELSE written \cup {Record(p)},
                           hit)
           /\ durable' = IF kind[p] = "sync" /\ {<<"io", "write">>, <<"io", "fsync">>} \cap hit = {}
                         THEN written' ELSE durable
    BY DEF EmitStatus
  <2>3. <<"io", "fsync">> \notin hit => written \subseteq written'
    BY <2>2 DEF StillWritten
  <2>4. durable \subseteq durable'
    BY <2>1, <2>2, <2>3
  <2> QED
    BY <2>4 DEF EmitStatus, Accept
<1> QED
  BY <1>1, <1>2, <1>3 DEF GrowFrame

\* Drain only adds records.
LEMMA DrainGrows ==
    ASSUME Types, Drain
    PROVE  GrowFrame
<1>1. q'.fifo = q.fifo /\ Len(q.fifo) \in Nat
  BY RecordPlaces DEF Types, QueueTypes, QueueFields, Drain
<1>2. l'.async_mode = l.async_mode
  BY DEF Types, LoggerFields, Drain
<1>3. /\ emitted \subseteq emitted' /\ failed \subseteq failed'
      /\ durable \subseteq durable' /\ accepted \subseteq accepted'
  BY DEF Drain, outputs, promises
<1> QED
  BY <1>1, <1>2, <1>3 DEF GrowFrame

\* BatchFormat only adds records.
LEMMA BatchFormatGrows ==
    ASSUME Types, BatchFormat
    PROVE  GrowFrame
<1>1. q'.fifo = q.fifo /\ Len(q.fifo) \in Nat
  BY RecordPlaces DEF Types, QueueTypes, QueueFields, BatchFormat
<1>2. l'.async_mode = l.async_mode
  BY DEF Types, LoggerFields, BatchFormat
<1>3. /\ emitted \subseteq emitted' /\ failed \subseteq failed'
      /\ durable \subseteq durable' /\ accepted \subseteq accepted'
  BY DEF BatchFormat, promises
<1> QED
  BY <1>1, <1>2, <1>3 DEF GrowFrame

\* BatchLock only adds records.
LEMMA BatchLockGrows ==
    ASSUME Types, BatchLock
    PROVE  GrowFrame
<1>1. q'.fifo = q.fifo /\ Len(q.fifo) \in Nat
  BY RecordPlaces DEF Types, QueueTypes, QueueFields, BatchLock
<1>2. l'.async_mode = l.async_mode
  BY DEF Types, LoggerFields, BatchLock
<1>3. /\ emitted \subseteq emitted' /\ failed \subseteq failed'
      /\ durable \subseteq durable' /\ accepted \subseteq accepted'
  BY DEF BatchLock, promises
<1> QED
  BY <1>1, <1>2, <1>3 DEF GrowFrame

\* EmitBatch only adds records.
LEMMA EmitBatchGrows ==
    ASSUME Types, EmitBatch
    PROVE  GrowFrame
<1>1. q'.fifo = q.fifo /\ Len(q.fifo) \in Nat
  BY RecordPlaces DEF Types, QueueTypes, QueueFields, EmitBatch
<1>2. l'.async_mode = l.async_mode
  BY DEF Types, LoggerFields, EmitBatch
<1>3. /\ emitted \subseteq emitted' /\ failed \subseteq failed'
      /\ durable \subseteq durable' /\ accepted \subseteq accepted'
  BY DEF EmitBatch, promises
<1> QED
  BY <1>1, <1>2, <1>3 DEF GrowFrame

\* BatchDone only adds records.
LEMMA BatchDoneGrows ==
    ASSUME Types, BatchDone
    PROVE  GrowFrame
<1>1. q'.fifo = q.fifo /\ Len(q.fifo) \in Nat
  BY RecordPlaces DEF Types, QueueTypes, QueueFields, BatchDone
<1>2. l'.async_mode = l.async_mode
  BY DEF Types, LoggerFields, BatchDone
<1>3. /\ emitted \subseteq emitted' /\ failed \subseteq failed'
      /\ durable \subseteq durable' /\ accepted \subseteq accepted'
  BY DEF BatchDone, outputs, promises
<1> QED
  BY <1>1, <1>2, <1>3 DEF GrowFrame

\* EnterLog keeps the promises of the flushes.
LEMMA EnterLogFlush ==
    ASSUME Types, Types', RecordInv, FlushInv, NEW p \in Producers, EnterLog(p)
    PROVE  FlushInv'
<1>1. GrowFrame
  BY EnterLogGrows
<1>2. \A f \in Flushers : SameFlush(f)
  BY Roles DEF Types, PcTypes, LocalTypes, SameFlush, EnterLog, Go, Answer, promises
<1> QED
  BY <1>1, <1>2, FlushFrame

\* Push keeps the promises of the flushes.
LEMMA PushFlush ==
    ASSUME Types, Types', RecordInv, FlushInv, NEW p \in Producers, Push(p)
    PROVE  FlushInv'
<1>1. GrowFrame
  BY PushGrows
<1>2. \A f \in Flushers : SameFlush(f)
  BY Roles DEF Types, PcTypes, LocalTypes, SameFlush, Push, Go, promises
<1> QED
  BY <1>1, <1>2, FlushFrame

\* Refused keeps the promises of the flushes.
LEMMA RefusedFlush ==
    ASSUME Types, Types', RecordInv, FlushInv, NEW p \in Producers, Refused(p)
    PROVE  FlushInv'
<1>1. GrowFrame
  BY RefusedData, DataGrows
<1>2. \A f \in Flushers : SameFlush(f)
  BY Roles DEF Types, PcTypes, LocalTypes, SameFlush, Refused, Go, Answer, promises
<1> QED
  BY <1>1, <1>2, FlushFrame

\* Publish keeps the promises of the flushes.
LEMMA PublishFlush ==
    ASSUME Types, Types', RecordInv, FlushInv, NEW p \in Producers, Publish(p)
    PROVE  FlushInv'
<1>1. GrowFrame
  BY PublishData, DataGrows
<1>2. \A f \in Flushers : SameFlush(f)
  BY Roles DEF Types, PcTypes, LocalTypes, SameFlush, Publish, Go, promises, locals
<1> QED
  BY <1>1, <1>2, FlushFrame

\* Probe keeps the promises of the flushes.
LEMMA ProbeFlush ==
    ASSUME Types, Types', RecordInv, FlushInv, NEW p \in Producers, Probe(p)
    PROVE  FlushInv'
<1>1. GrowFrame
  BY ProbeGrows
<1>2. \A f \in Flushers : SameFlush(f)
  BY Roles DEF Types, PcTypes, LocalTypes, SameFlush, Probe, Go, Answer, Accept
<1> QED
  BY <1>1, <1>2, FlushFrame

\* NotifyLock keeps the promises of the flushes.
LEMMA NotifyLockFlush ==
    ASSUME Types, Types', RecordInv, FlushInv, NEW p \in Producers, NotifyLock(p)
    PROVE  FlushInv'
<1>1. GrowFrame
  BY NotifyLockData, DataGrows
<1>2. \A f \in Flushers : SameFlush(f)
  BY Roles DEF Types, PcTypes, LocalTypes, SameFlush, NotifyLock, Go, promises, locals
<1> QED
  BY <1>1, <1>2, FlushFrame

\* Notify keeps the promises of the flushes.
LEMMA NotifyFlush ==
    ASSUME Types, Types', RecordInv, FlushInv, NEW p \in Producers, Notify(p)
    PROVE  FlushInv'
<1>1. GrowFrame
  BY NotifyGrows
<1>2. \A f \in Flushers : SameFlush(f)
  BY Roles DEF Types, PcTypes, LocalTypes, SameFlush, Notify, Go, Answer, Accept
<1> QED
  BY <1>1, <1>2, FlushFrame

\* PushFailed keeps the promises of the flushes.
LEMMA PushFailedFlush ==
    ASSUME Types, Types', RecordInv, FlushInv, NEW p \in Producers, PushFailed(p)
    PROVE  FlushInv'
<1>1. GrowFrame
  BY PushFailedData, DataGrows
<1>2. \A f \in Flushers : SameFlush(f)
  BY Roles DEF Types, PcTypes, LocalTypes, SameFlush, PushFailed, Go, Answer, promises
<1> QED
  BY <1>1, <1>2, FlushFrame

\* FormatStatus keeps the promises of the flushes.
LEMMA FormatStatusFlush ==
    ASSUME Types, Types', RecordInv, FlushInv, NEW p \in Producers, FormatStatus(p)
    PROVE  FlushInv'
<1>1. GrowFrame
  BY FormatStatusGrows
<1>2. \A f \in Flushers : SameFlush(f)
  BY Roles
  DEF Types, PcTypes, LocalTypes, SameFlush, FormatStatus, Go, Unsent, Answer, promises
<1> QED
  BY <1>1, <1>2, FlushFrame

\* EmitCheck keeps the promises of the flushes.
LEMMA EmitCheckFlush ==
    ASSUME Types, Types', RecordInv, FlushInv, NEW p \in Producers, EmitCheck(p)
    PROVE  FlushInv'
<1>1. GrowFrame
  BY EmitCheckGrows
<1>2. \A f \in Flushers : SameFlush(f)
  BY Roles DEF Types, PcTypes, LocalTypes, SameFlush, EmitCheck, Go, Unsent, Answer, promises
<1> QED
  BY <1>1, <1>2, FlushFrame

\* EmitLock keeps the promises of the flushes.
LEMMA EmitLockFlush ==
    ASSUME Types, Types', RecordInv, FlushInv, NEW p \in Producers, EmitLock(p)
    PROVE  FlushInv'
<1>1. GrowFrame
  BY EmitLockGrows
<1>2. \A f \in Flushers : SameFlush(f)
  BY Roles DEF Types, PcTypes, LocalTypes, SameFlush, EmitLock, Go, Unsent, Answer, promises
<1> QED
  BY <1>1, <1>2, FlushFrame

\* EmitStatus keeps the promises of the flushes.
LEMMA EmitStatusFlush ==
    ASSUME Types, Types', RecordInv, FlushInv, NEW p \in Producers, EmitStatus(p)
    PROVE  FlushInv'
<1>1. GrowFrame
  BY EmitStatusGrows
<1>2. \A f \in Flushers : SameFlush(f)
  BY Roles DEF Types, PcTypes, LocalTypes, SameFlush, EmitStatus, Go, Answer, Accept
<1> QED
  BY <1>1, <1>2, FlushFrame

\* ForceLock keeps the promises of the flushes.
LEMMA ForceLockFlush ==
    ASSUME Types, Types', RecordInv, FlushInv, NEW t \in Producers \cup {Host}, ForceLock(t)
    PROVE  FlushInv'
<1>1. GrowFrame
  BY ForceLockData, DataGrows
<1>2. \A f \in Flushers : SameFlush(f)
  BY Roles DEF Types, PcTypes, LocalTypes, SameFlush, ForceLock, Go, promises, locals
<1> QED
  BY <1>1, <1>2, FlushFrame

\* WakeForce keeps the promises of the flushes.
LEMMA WakeForceFlush ==
    ASSUME Types, Types', RecordInv, FlushInv, NEW t \in Producers \cup {Host}, WakeForce(t)
    PROVE  FlushInv'
<1>1. GrowFrame
  BY WakeForceData, DataGrows
<1>2. \A f \in Flushers : SameFlush(f)
  BY Roles DEF Types, PcTypes, LocalTypes, SameFlush, WakeForce, Go, promises
<1> QED
  BY <1>1, <1>2, FlushFrame

\* ForceFailed keeps the promises of the flushes.
LEMMA ForceFailedFlush ==
    ASSUME Types, Types', RecordInv, FlushInv, NEW t \in Producers \cup {Host}, ForceFailed(t)
    PROVE  FlushInv'
<1>1. GrowFrame
  BY ForceFailedData, DataGrows
<1>2. \A f \in Flushers : SameFlush(f)
  BY Roles DEF Types, PcTypes, LocalTypes, SameFlush, ForceFailed, Go, promises
<1> QED
  BY <1>1, <1>2, FlushFrame

\* Drain keeps the promises of the flushes.
LEMMA DrainFlush ==
    ASSUME Types, Types', RecordInv, FlushInv, Drain
    PROVE  FlushInv'
<1>1. GrowFrame
  BY DrainGrows
<1>2. \A f \in Flushers : SameFlush(f)
  BY Roles DEF Types, PcTypes, LocalTypes, SameFlush, Drain, promises
<1> QED
  BY <1>1, <1>2, FlushFrame

\* DrainEnd keeps the promises of the flushes.
LEMMA DrainEndFlush ==
    ASSUME Types, Types', RecordInv, FlushInv, DrainEnd
    PROVE  FlushInv'
<1>1. GrowFrame
  BY DrainEndData, DataGrows
<1>2. \A f \in Flushers : SameFlush(f)
  BY Roles DEF Types, PcTypes, LocalTypes, SameFlush, DrainEnd, Go, promises, locals
<1> QED
  BY <1>1, <1>2, FlushFrame

\* BatchFormat keeps the promises of the flushes.
LEMMA BatchFormatFlush ==
    ASSUME Types, Types', RecordInv, FlushInv, BatchFormat
    PROVE  FlushInv'
<1>1. GrowFrame
  BY BatchFormatGrows
<1>2. \A f \in Flushers : SameFlush(f)
  BY Roles DEF Types, PcTypes, LocalTypes, SameFlush, BatchFormat, Go, promises, locals
<1> QED
  BY <1>1, <1>2, FlushFrame

\* BatchLock keeps the promises of the flushes.
LEMMA BatchLockFlush ==
    ASSUME Types, Types', RecordInv, FlushInv, BatchLock
    PROVE  FlushInv'
<1>1. GrowFrame
  BY BatchLockGrows
<1>2. \A f \in Flushers : SameFlush(f)
  BY Roles DEF Types, PcTypes, LocalTypes, SameFlush, BatchLock, Go, promises, locals
<1> QED
  BY <1>1, <1>2, FlushFrame

\* EmitBatch keeps the promises of the flushes.
LEMMA EmitBatchFlush ==
    ASSUME Types, Types', RecordInv, FlushInv, EmitBatch
    PROVE  FlushInv'
<1>1. GrowFrame
  BY EmitBatchGrows
<1>2. \A f \in Flushers : SameFlush(f)
  BY Roles DEF Types, PcTypes, LocalTypes, SameFlush, EmitBatch, Go, promises, locals
<1> QED
  BY <1>1, <1>2, FlushFrame

\* BatchDone keeps the promises of the flushes.
LEMMA BatchDoneFlush ==
    ASSUME Types, Types', RecordInv, FlushInv, BatchDone
    PROVE  FlushInv'
<1>1. GrowFrame
  BY BatchDoneGrows
<1>2. \A f \in Flushers : SameFlush(f)
  BY Roles DEF Types, PcTypes, LocalTypes, SameFlush, BatchDone, Go, promises
<1> QED
  BY <1>1, <1>2, FlushFrame

\* ProgressLock keeps the promises of the flushes.
LEMMA ProgressLockFlush ==
    ASSUME Types, Types', RecordInv, FlushInv, ProgressLock
    PROVE  FlushInv'
<1>1. GrowFrame
  BY ProgressLockData, DataGrows
<1>2. \A f \in Flushers : SameFlush(f)
  BY Roles DEF Types, PcTypes, LocalTypes, SameFlush, ProgressLock, Go, promises, locals
<1> QED
  BY <1>1, <1>2, FlushFrame

\* Progress keeps the promises of the flushes.
LEMMA ProgressFlush ==
    ASSUME Types, Types', RecordInv, FlushInv, Progress
    PROVE  FlushInv'
<1>1. GrowFrame
  BY ProgressData, DataGrows
<1>2. \A f \in Flushers : SameFlush(f)
  BY Roles DEF Types, PcTypes, LocalTypes, SameFlush, Progress, Go, promises, locals
<1> QED
  BY <1>1, <1>2, FlushFrame

\* WaitLock keeps the promises of the flushes.
LEMMA WaitLockFlush ==
    ASSUME Types, Types', RecordInv, FlushInv, WaitLock
    PROVE  FlushInv'
<1>1. GrowFrame
  BY WaitLockData, DataGrows
<1>2. \A f \in Flushers : SameFlush(f)
  BY Roles DEF Types, PcTypes, LocalTypes, SameFlush, WaitLock, Go, promises, locals
<1> QED
  BY <1>1, <1>2, FlushFrame

\* WaitTest keeps the promises of the flushes.
LEMMA WaitTestFlush ==
    ASSUME Types, Types', RecordInv, FlushInv, WaitTest
    PROVE  FlushInv'
<1>1. GrowFrame
  BY WaitTestData, DataGrows
<1>2. \A f \in Flushers : SameFlush(f)
  BY Roles DEF Types, PcTypes, LocalTypes, SameFlush, WaitTest, Go, promises, locals
<1> QED
  BY <1>1, <1>2, FlushFrame

\* WaitRetest keeps the promises of the flushes.
LEMMA WaitRetestFlush ==
    ASSUME Types, Types', RecordInv, FlushInv, WaitRetest
    PROVE  FlushInv'
<1>1. GrowFrame
  BY WaitRetestData, DataGrows
<1>2. \A f \in Flushers : SameFlush(f)
  BY Roles DEF Types, PcTypes, LocalTypes, SameFlush, WaitRetest, Go, promises, locals
<1> QED
  BY <1>1, <1>2, FlushFrame

\* WaitAwake keeps the promises of the flushes.
LEMMA WaitAwakeFlush ==
    ASSUME Types, Types', RecordInv, FlushInv, WaitAwake
    PROVE  FlushInv'
<1>1. GrowFrame
  BY WaitAwakeData, DataGrows
<1>2. \A f \in Flushers : SameFlush(f)
  BY Roles DEF Types, PcTypes, LocalTypes, SameFlush, WaitAwake, Go, promises, locals
<1> QED
  BY <1>1, <1>2, FlushFrame

\* WaitEnd keeps the promises of the flushes.
LEMMA WaitEndFlush ==
    ASSUME Types, Types', RecordInv, FlushInv, WaitEnd
    PROVE  FlushInv'
<1>1. GrowFrame
  BY WaitEndData, DataGrows
<1>2. \A f \in Flushers : SameFlush(f)
  BY Roles DEF Types, PcTypes, LocalTypes, SameFlush, WaitEnd, Go, promises, locals
<1> QED
  BY <1>1, <1>2, FlushFrame

\* Final keeps the promises of the flushes.
LEMMA FinalFlush ==
    ASSUME Types, Types', RecordInv, FlushInv, Final
    PROVE  FlushInv'
<1>1. GrowFrame
  BY FinalData, DataGrows
<1>2. \A f \in Flushers : SameFlush(f)
  BY Roles DEF Types, PcTypes, LocalTypes, SameFlush, Final, Go, promises, locals
<1> QED
  BY <1>1, <1>2, FlushFrame

\* FinalLock keeps the promises of the flushes.
LEMMA FinalLockFlush ==
    ASSUME Types, Types', RecordInv, FlushInv, FinalLock
    PROVE  FlushInv'
<1>1. GrowFrame
  BY FinalLockData, DataGrows
<1>2. \A f \in Flushers : SameFlush(f)
  BY Roles DEF Types, PcTypes, LocalTypes, SameFlush, FinalLock, Go, promises, locals
<1> QED
  BY <1>1, <1>2, FlushFrame

\* Broadcast keeps the promises of the flushes.
LEMMA BroadcastFlush ==
    ASSUME Types, Types', RecordInv, FlushInv, Broadcast
    PROVE  FlushInv'
<1>1. GrowFrame
  BY BroadcastData, DataGrows
<1>2. \A f \in Flushers : SameFlush(f)
  BY Roles DEF Types, PcTypes, LocalTypes, SameFlush, Broadcast, Go, promises, locals
<1> QED
  BY <1>1, <1>2, FlushFrame

\* Acquire keeps the promises of the flushes.
LEMMA AcquireFlush ==
    ASSUME Types, Types', RecordInv, FlushInv, Acquire
    PROVE  FlushInv'
<1>1. GrowFrame
  BY AcquireData, DataGrows
<1>2. \A f \in Flushers : SameFlush(f)
  BY Roles DEF Types, PcTypes, LocalTypes, SameFlush, Acquire, Go, Answer, promises
<1> QED
  BY <1>1, <1>2, FlushFrame

\* StartWorker keeps the promises of the flushes.
LEMMA StartWorkerFlush ==
    ASSUME Types, Types', RecordInv, FlushInv, StartWorker
    PROVE  FlushInv'
<1>1. GrowFrame
  BY StartWorkerData, DataGrows
<1>2. \A f \in Flushers : SameFlush(f)
  BY Roles DEF Types, PcTypes, LocalTypes, SameFlush, StartWorker, Go, Answer, promises
<1> QED
  BY <1>1, <1>2, FlushFrame

\* PublishRunning keeps the promises of the flushes.
LEMMA PublishRunningFlush ==
    ASSUME Types, Types', RecordInv, FlushInv, PublishRunning
    PROVE  FlushInv'
<1>1. GrowFrame
  BY PublishRunningData, DataGrows
<1>2. \A f \in Flushers : SameFlush(f)
  BY Roles DEF Types, PcTypes, LocalTypes, SameFlush, PublishRunning, Go, Answer, promises
<1> QED
  BY <1>1, <1>2, FlushFrame

\* Rollback keeps the promises of the flushes.
LEMMA RollbackFlush ==
    ASSUME Types, Types', RecordInv, FlushInv, Rollback
    PROVE  FlushInv'
<1>1. GrowFrame
  BY RollbackData, DataGrows
<1>2. \A f \in Flushers : SameFlush(f)
  BY Roles DEF Types, PcTypes, LocalTypes, SameFlush, Rollback, Go, promises, locals
<1> QED
  BY <1>1, <1>2, FlushFrame

\* Destroy keeps the promises of the flushes.
LEMMA DestroyFlush ==
    ASSUME Types, Types', RecordInv, FlushInv, Destroy
    PROVE  FlushInv'
<1>1. GrowFrame
  BY DestroyData, DataGrows
<1>2. \A f \in Flushers : SameFlush(f)
  BY Roles DEF Types, PcTypes, LocalTypes, SameFlush, Destroy, Go, promises, locals
<1> QED
  BY <1>1, <1>2, FlushFrame

\* StopCheck keeps the promises of the flushes.
LEMMA StopCheckFlush ==
    ASSUME Types, Types', RecordInv, FlushInv, StopCheck
    PROVE  FlushInv'
<1>1. GrowFrame
  BY StopCheckData, DataGrows
<1>2. \A f \in Flushers : SameFlush(f)
  BY Roles DEF Types, PcTypes, LocalTypes, SameFlush, StopCheck, Go, Answer, promises
<1> QED
  BY <1>1, <1>2, FlushFrame

\* Join keeps the promises of the flushes.
LEMMA JoinFlush ==
    ASSUME Types, Types', RecordInv, FlushInv, Join
    PROVE  FlushInv'
<1>1. GrowFrame
  BY JoinData, DataGrows
<1>2. \A f \in Flushers : SameFlush(f)
  BY Roles DEF Types, PcTypes, LocalTypes, SameFlush, Join, Go, promises
<1> QED
  BY <1>1, <1>2, FlushFrame

\* Joined keeps the promises of the flushes.
LEMMA JoinedFlush ==
    ASSUME Types, Types', RecordInv, FlushInv, Joined
    PROVE  FlushInv'
<1>1. GrowFrame
  BY JoinedData, DataGrows
<1>2. \A f \in Flushers : SameFlush(f)
  BY Roles DEF Types, PcTypes, LocalTypes, SameFlush, Joined, Go, Answer, promises
<1> QED
  BY <1>1, <1>2, FlushFrame

\* FinalSync keeps the promises of the flushes.
LEMMA FinalSyncFlush ==
    ASSUME Types, Types', RecordInv, FlushInv, FinalSync
    PROVE  FlushInv'
<1>1. GrowFrame
  BY FinalSyncData, DataGrows
<1>2. \A f \in Flushers : SameFlush(f)
  BY Roles
  DEF Types, PcTypes, LocalTypes, SameFlush, FinalSync, Go, Answer, SyncOutputs, promises
<1> QED
  BY <1>1, <1>2, FlushFrame

\* Release keeps the promises of the flushes.
LEMMA ReleaseFlush ==
    ASSUME Types, Types', RecordInv, FlushInv, Release
    PROVE  FlushInv'
<1>1. GrowFrame
  BY ReleaseData, DataGrows
<1>2. \A f \in Flushers : SameFlush(f)
  <2>1. result' = result \/ result' = [result EXCEPT ![Host] = "error"]
    BY DEF Release
  <2>2. \E x : pc' = [pc EXCEPT ![Host] = x]
    BY DEF Release, Go
  <2>3. target' = target /\ due' = due /\ calls' = calls
    BY DEF Release, promises
  <2> QED
    BY <2>1, <2>2, <2>3, Roles DEF Types, PcTypes, LocalTypes, SameFlush
<1> QED
  BY <1>1, <1>2, FlushFrame

\* NoteStep keeps the promises of the flushes.
LEMMA NoteStepFlush ==
    ASSUME Types, Types', RecordInv, FlushInv, NEW t \in Threads, NoteStep(t)
    PROVE  FlushInv'
<1>1. GrowFrame
  BY NoteStepData, DataGrows
<1>2. \A f \in Flushers : SameFlush(f)
  BY Roles DEF Types, PcTypes, LocalTypes, SameFlush, NoteStep, promises, locals
<1> QED
  BY <1>1, <1>2, FlushFrame

\* Spurious keeps the promises of the flushes.
LEMMA SpuriousFlush ==
    ASSUME Types, Types', RecordInv, FlushInv, NEW t \in Threads, Spurious(t)
    PROVE  FlushInv'
<1>1. GrowFrame
  BY SpuriousData, DataGrows
<1>2. \A f \in Flushers : SameFlush(f)
  BY Roles DEF Types, PcTypes, LocalTypes, SameFlush, Spurious, promises, locals
<1> QED
  BY <1>1, <1>2, FlushFrame

\* EnterFlush keeps the promises of the flushes.
LEMMA EnterFlushFlush ==
    ASSUME Types, Types', RecordInv, FlushInv, NEW f \in Flushers, EnterFlush(f)
    PROVE  FlushInv'
<1>1. GrowFrame
  BY EnterFlushData, DataGrows
<1>2. \A o \in Flushers \ {f} : SameFlush(o)
  BY Roles DEF Types, PcTypes, LocalTypes, SharedTypes, SameFlush, EnterFlush, Go, Answer
<1>3. FlushPromise(f)
  BY DEF FlushInv
<1>4. /\ q' = q /\ target'[f] = target[f] /\ due'[f] = accepted /\ accepted' = accepted /\ l' = l
      /\ (pc'[f] = "flush_check" \/ (pc'[f] = "idle" /\ result'[f] = "error"))
  BY Roles DEF Types, PcTypes, LocalTypes, SharedTypes, EnterFlush, Go, Answer, At
<1>5. FlushPromise(f)'
  BY <1>3, <1>4 DEF FlushPromise
<1> QED
  BY <1>1, <1>2, <1>5, FlushOwn

\* FlushCheck keeps the promises of the flushes.
LEMMA FlushCheckFlush ==
    ASSUME Types, Types', RecordInv, FlushInv, NEW f \in Flushers, FlushCheck(f)
    PROVE  FlushInv'
<1>1. GrowFrame
  BY FlushCheckData, DataGrows
<1>2. \A o \in Flushers \ {f} : SameFlush(o)
  BY Roles
  DEF Types, PcTypes, LocalTypes, SharedTypes, SameFlush, FlushCheck, Go, Answer, promises
<1>3. FlushPromise(f)
  BY DEF FlushInv
<1>4. /\ q' = q /\ target'[f] = target[f] /\ due'[f] = due[f] /\ emitted' = emitted
      /\ failed' = failed /\ accepted' = accepted
  BY Roles DEF Types, LocalTypes, SharedTypes, FlushCheck, promises, outputs
<1>5. Queued(target[f])' = Queued(target[f]) /\ Due(f)' = Due(f) /\ Counted' = Counted
  BY <1>4 DEF Queued, Due, Counted
<1>6. l'.async_mode = l.async_mode
  BY <1>1 DEF GrowFrame
<1>7. /\ pc[f] = "flush_check"
      /\ \/ pc'[f] = "sync_check" /\ result'[f] = "error"
         \/ pc'[f] = "flush_target" /\ l.async_mode
         \/ pc'[f] = "flush_error" /\ ~l.async_mode
  BY Roles DEF Types, PcTypes, LocalTypes, FlushCheck, Go, Answer, At
<1>8. due[f] \subseteq accepted
  BY <1>3, <1>7 DEF FlushPromise
<1>9. ~l.async_mode => Due(f) \subseteq Counted
  <2>1. SUFFICES ASSUME ~l.async_mode PROVE Due(f) \subseteq Counted
    OBVIOUS
  <2>2. Positions = {} /\ target[f] = 0 /\ 1..target[f] = {}
    BY <1>3, <2>1 DEF FlushPromise, RecordInv, QueueUse, Positions
  <2>3. accepted \subseteq emitted
    BY <2>2 DEF RecordInv, AcceptedKept
  <2>4. Queued(target[f]) = {}
    BY <2>2 DEF Queued
  <2> QED
    BY <1>8, <2>3, <2>4 DEF Due, Counted
<1>10. FlushPromise(f)'
  BY <1>3, <1>4, <1>5, <1>6, <1>7, <1>8, <1>9 DEF FlushPromise
<1> QED
  BY <1>1, <1>2, <1>10, FlushOwn

\* FlushTarget keeps the promises of the flushes.
LEMMA FlushTargetFlush ==
    ASSUME Types, Types', RecordInv, FlushInv, NEW f \in Flushers, FlushTarget(f)
    PROVE  FlushInv'
<1>1. GrowFrame
  BY FlushTargetData, DataGrows
<1>2. \A o \in Flushers \ {f} : SameFlush(o)
  BY Roles DEF Types, PcTypes, LocalTypes, SharedTypes, SameFlush, FlushTarget, Go, promises
<1>3. FlushPromise(f)
  BY DEF FlushInv
<1>4. /\ q' = q /\ target'[f] = Len(q.fifo) /\ due'[f] = due[f] /\ l' = l /\ emitted' = emitted
      /\ pc[f] = "flush_target" /\ pc'[f] = "flush_lock"
  BY Roles DEF Types, PcTypes, LocalTypes, SharedTypes, FlushTarget, Go, At, promises, outputs
<1>5. due[f] \subseteq accepted /\ l.async_mode
  BY <1>3, <1>4 DEF FlushPromise
<1>6. Len(q.fifo) \in Nat /\ Positions = 1..Len(q.fifo)
  BY RecordPlaces DEF Positions
<1>7. due[f] \subseteq emitted \cup Queued(Len(q.fifo))
  BY <1>5, <1>6 DEF RecordInv, AcceptedKept, Queued
<1>8. Queued(target[f])' = Queued(Len(q.fifo))
  BY <1>4 DEF Queued
<1>9. FlushPromise(f)'
  BY <1>4, <1>5, <1>6, <1>7, <1>8 DEF FlushPromise
<1> QED
  BY <1>1, <1>2, <1>9, FlushOwn

\* FlushLock keeps the promises of the flushes.
LEMMA FlushLockFlush ==
    ASSUME Types, Types', RecordInv, FlushInv, NEW f \in Flushers, FlushLock(f)
    PROVE  FlushInv'
<1>1. GrowFrame
  BY FlushLockData, DataGrows
<1>2. \A o \in Flushers \ {f} : SameFlush(o)
  BY Roles
  DEF Types, PcTypes, LocalTypes, SharedTypes, SameFlush, FlushLock, Go, Answer, promises
<1>3. FlushPromise(f)
  BY DEF FlushInv
<1>4. /\ q' = q /\ target'[f] = target[f] /\ due'[f] = due[f] /\ emitted' = emitted
      /\ failed' = failed /\ accepted' = accepted
  BY Roles DEF Types, LocalTypes, SharedTypes, FlushLock, promises, outputs
<1>5. Queued(target[f])' = Queued(target[f]) /\ Due(f)' = Due(f) /\ Counted' = Counted
  BY <1>4 DEF Queued, Due, Counted
<1>6. l'.async_mode = l.async_mode
  BY <1>1 DEF GrowFrame
<1>7. /\ pc[f] = "flush_lock"
      /\ \/ pc'[f] = "sync_check" /\ result'[f] = "error"
         \/ pc'[f] = "flush_test"
  BY Roles DEF Types, PcTypes, LocalTypes, FlushLock, Go, Answer, At
<1>8. FlushPromise(f)'
  BY <1>3, <1>4, <1>5, <1>6, <1>7 DEF FlushPromise
<1> QED
  BY <1>1, <1>2, <1>8, FlushOwn

\* FlushTest keeps the promises of the flushes.
LEMMA FlushTestFlush ==
    ASSUME Types, Types', RecordInv, FlushInv, NEW f \in Flushers, FlushTest(f)
    PROVE  FlushInv'
<1>1. GrowFrame
  BY FlushTestData, DataGrows
<1>2. \A o \in Flushers \ {f} : SameFlush(o)
  BY Roles
  DEF Types, PcTypes, LocalTypes, SharedTypes, SameFlush, FlushTest, Go, Answer, promises
<1>3. FlushPromise(f)
  BY DEF FlushInv
<1>4. /\ q' = q /\ target'[f] = target[f] /\ due'[f] = due[f] /\ emitted' = emitted
      /\ failed' = failed /\ accepted' = accepted
  BY Roles DEF Types, LocalTypes, SharedTypes, FlushTest, promises, outputs
<1>5. Queued(target[f])' = Queued(target[f]) /\ Due(f)' = Due(f) /\ Counted' = Counted
  BY <1>4 DEF Queued, Due, Counted
<1>6. l'.async_mode = l.async_mode
  BY <1>1 DEF GrowFrame
<1>7. /\ pc[f] = "flush_test"
      /\ \/ pc'[f] = "sync_check" /\ result'[f] = "error"
         \/ pc'[f] = "flush_error" /\ l.completed_pos >= target[f]
         \/ pc'[f] = "flush_asleep"
  BY Roles DEF Types, PcTypes, LocalTypes, FlushTest, Go, Answer, At
<1>8. due[f] \subseteq emitted \cup Queued(target[f]) /\ l.async_mode /\ target[f] <= Len(q.fifo)
  BY <1>3, <1>7 DEF FlushPromise
<1>9. l.completed_pos >= target[f] => Due(f) \subseteq Counted
  <2>1. /\ Len(q.fifo) \in Nat /\ q.dequeue_pos \in Nat /\ batch \in Nat
        /\ l.completed_pos \in Nat /\ target[f] \in Nat
    BY RecordPlaces, LoggerFieldTypes DEF Types, LocalTypes
  <2>2. l.completed_pos <= q.dequeue_pos - batch
    BY DEF RecordInv, WatermarkBehind
  <2>3. l.completed_pos >= target[f] => \A i \in 1..target[f] : i \in Positions /\ i <= Handled
    BY <1>8, <2>1, <2>2 DEF Positions, Handled
  <2>4. l.completed_pos >= target[f] => Queued(target[f]) \subseteq Counted
    BY <2>3 DEF Queued, RecordInv, CountedInOrder
  <2> QED
    BY <1>8, <2>4 DEF Due, Counted
<1>10. FlushPromise(f)'
  BY <1>3, <1>4, <1>5, <1>6, <1>7, <1>8, <1>9 DEF FlushPromise
<1> QED
  BY <1>1, <1>2, <1>10, FlushOwn

\* FlushAwake keeps the promises of the flushes.
LEMMA FlushAwakeFlush ==
    ASSUME Types, Types', RecordInv, FlushInv, NEW f \in Flushers, FlushAwake(f)
    PROVE  FlushInv'
<1>1. GrowFrame
  BY FlushAwakeData, DataGrows
<1>2. \A o \in Flushers \ {f} : SameFlush(o)
  BY Roles
  DEF Types, PcTypes, LocalTypes, SharedTypes, SameFlush, FlushAwake, Go, promises, locals
<1>3. FlushPromise(f)
  BY DEF FlushInv
<1>4. /\ q' = q /\ target'[f] = target[f] /\ due'[f] = due[f] /\ emitted' = emitted
      /\ failed' = failed /\ accepted' = accepted
  BY Roles DEF Types, LocalTypes, SharedTypes, FlushAwake, promises, locals, outputs
<1>5. Queued(target[f])' = Queued(target[f]) /\ Due(f)' = Due(f) /\ Counted' = Counted
  BY <1>4 DEF Queued, Due, Counted
<1>6. l'.async_mode = l.async_mode
  BY <1>1 DEF GrowFrame
<1>7. pc[f] = "flush_asleep" /\ pc'[f] = "flush_test"
  BY Roles DEF Types, PcTypes, FlushAwake, Go, At
<1>8. FlushPromise(f)'
  BY <1>3, <1>4, <1>5, <1>6, <1>7 DEF FlushPromise
<1> QED
  BY <1>1, <1>2, <1>8, FlushOwn

\* FlushError keeps the promises of the flushes.
LEMMA FlushErrorFlush ==
    ASSUME Types, Types', RecordInv, FlushInv, NEW f \in Flushers, FlushError(f)
    PROVE  FlushInv'
<1>1. GrowFrame
  BY FlushErrorData, DataGrows
<1>2. \A o \in Flushers \ {f} : SameFlush(o)
  BY Roles
  DEF Types, PcTypes, LocalTypes, SharedTypes, SameFlush, FlushError, Go, Answer, promises
<1>3. FlushPromise(f)
  BY DEF FlushInv
<1>4. /\ q' = q /\ target'[f] = target[f] /\ due'[f] = due[f] /\ emitted' = emitted
      /\ failed' = failed /\ accepted' = accepted
  BY Roles DEF Types, LocalTypes, SharedTypes, FlushError, promises, outputs
<1>5. Queued(target[f])' = Queued(target[f]) /\ Due(f)' = Due(f) /\ Counted' = Counted
  BY <1>4 DEF Queued, Due, Counted
<1>6. l'.async_mode = l.async_mode
  BY <1>1 DEF GrowFrame
<1>7. /\ pc[f] = "flush_error" /\ pc'[f] = "sync_check"
      /\ (l.first_error => result'[f] = "error")
  BY Roles DEF Types, PcTypes, LocalTypes, FlushError, Go, Answer, At
<1>8. ~l.first_error => Due(f) \subseteq emitted
  BY <1>3, <1>7 DEF FlushPromise, RecordInv, FailureLatched, Counted
<1>9. FlushPromise(f)'
  BY <1>3, <1>4, <1>5, <1>6, <1>7, <1>8 DEF FlushPromise
<1> QED
  BY <1>1, <1>2, <1>9, FlushOwn

\* SyncCheck keeps the promises of the flushes.
LEMMA SyncCheckFlush ==
    ASSUME Types, Types', RecordInv, FlushInv, NEW f \in Flushers, SyncCheck(f)
    PROVE  FlushInv'
<1>1. GrowFrame
  BY SyncCheckData, DataGrows
<1>2. \A o \in Flushers \ {f} : SameFlush(o)
  BY Roles
  DEF Types, PcTypes, LocalTypes, SharedTypes, SameFlush, SyncCheck, Go, Answer, promises
<1>3. FlushPromise(f)
  BY DEF FlushInv
<1>4. /\ q' = q /\ target'[f] = target[f] /\ due'[f] = due[f] /\ emitted' = emitted
      /\ failed' = failed /\ accepted' = accepted
  BY Roles DEF Types, LocalTypes, SharedTypes, SyncCheck, promises, outputs
<1>5. Queued(target[f])' = Queued(target[f]) /\ Due(f)' = Due(f) /\ Counted' = Counted
  BY <1>4 DEF Queued, Due, Counted
<1>6. l'.async_mode = l.async_mode
  BY <1>1 DEF GrowFrame
<1>7. /\ pc[f] = "sync_check"
      /\ \/ pc'[f] = "idle" /\ result'[f] = "error"
         \/ pc'[f] = "sync_lock" /\ result'[f] = result[f]
  BY Roles DEF Types, PcTypes, LocalTypes, SyncCheck, Go, Answer, At
<1>8. FlushPromise(f)'
  BY <1>3, <1>4, <1>5, <1>6, <1>7 DEF FlushPromise
<1> QED
  BY <1>1, <1>2, <1>8, FlushOwn

\* SyncLock keeps the promises of the flushes.
LEMMA SyncLockFlush ==
    ASSUME Types, Types', RecordInv, FlushInv, NEW f \in Flushers, SyncLock(f)
    PROVE  FlushInv'
<1>1. GrowFrame
  BY SyncLockData, DataGrows
<1>2. \A o \in Flushers \ {f} : SameFlush(o)
  BY Roles
  DEF Types, PcTypes, LocalTypes, SharedTypes, SameFlush, SyncLock, Go, Answer, promises
<1>3. FlushPromise(f)
  BY DEF FlushInv
<1>4. /\ q' = q /\ target'[f] = target[f] /\ due'[f] = due[f] /\ emitted' = emitted
      /\ failed' = failed /\ accepted' = accepted
  BY Roles DEF Types, LocalTypes, SharedTypes, SyncLock, promises, outputs
<1>5. Queued(target[f])' = Queued(target[f]) /\ Due(f)' = Due(f) /\ Counted' = Counted
  BY <1>4 DEF Queued, Due, Counted
<1>6. l'.async_mode = l.async_mode
  BY <1>1 DEF GrowFrame
<1>7. /\ pc[f] = "sync_lock"
      /\ \/ pc'[f] = "idle" /\ result'[f] = "error"
         \/ pc'[f] = "sync" /\ result'[f] = result[f]
  BY Roles DEF Types, PcTypes, LocalTypes, SyncLock, Go, Answer, At
<1>8. FlushPromise(f)'
  BY <1>3, <1>4, <1>5, <1>6, <1>7 DEF FlushPromise
<1> QED
  BY <1>1, <1>2, <1>8, FlushOwn

\* Sync keeps the promises of the flushes.
LEMMA SyncFlush ==
    ASSUME Types, Types', RecordInv, FlushInv, NEW f \in Flushers, Sync(f)
    PROVE  FlushInv'
<1>1. GrowFrame
  BY SyncData, DataGrows
<1>2. \A o \in Flushers \ {f} : SameFlush(o)
  BY Roles
  DEF Types, PcTypes, LocalTypes, SharedTypes, SameFlush, Sync, Go, SyncOutputs, promises
<1>3. FlushPromise(f)
  BY DEF FlushInv
<1>4. /\ q' = q /\ target'[f] = target[f] /\ due'[f] = due[f] /\ emitted' = emitted
      /\ failed' = failed /\ accepted' = accepted
  BY Roles DEF Types, LocalTypes, SharedTypes, Sync, promises
<1>5. Queued(target[f])' = Queued(target[f]) /\ Due(f)' = Due(f) /\ Counted' = Counted
  BY <1>4 DEF Queued, Due, Counted
<1>6. l'.async_mode = l.async_mode
  BY <1>1 DEF GrowFrame
<1>7. /\ pc[f] = "sync" /\ pc'[f] = "idle"
      /\ \/ result'[f] = "error"
         \/ result'[f] = result[f] /\ durable' = written /\ ~l.first_error
  BY Roles DEF Types, PcTypes, LocalTypes, Sync, SyncOutputs, Go, At
<1>8. ~l.first_error => emitted \subseteq written
  BY DEF RecordInv, WrittenFirst
<1>9. FlushPromise(f)'
  BY <1>3, <1>4, <1>5, <1>6, <1>7, <1>8 DEF FlushPromise
<1> QED
  BY <1>1, <1>2, <1>9, FlushOwn

\* Before any call no flush has promised anything.
LEMMA InitFlush ==
    ASSUME Init
    PROVE  FlushInv
<1>1. /\ q.fifo = << >> /\ \A f \in Flushers : target[f] = 0 /\ pc[f] = "idle" /\ calls[f] = 0
  BY Roles DEF Init
<1>2. Len(q.fifo) = 0
  BY <1>1
<1> QED
  BY <1>1, <1>2 DEF FlushInv, FlushPromise

\* Every step keeps the promises of the flushes.
LEMMA NextFlush ==
    ASSUME Types, Types', RecordInv, FlushInv, [Next]_vars
    PROVE  FlushInv'
<1>1. CASE UNCHANGED vars
  <2>1. /\ l' = l /\ q' = q /\ pc' = pc /\ batch' = batch /\ slot' = slot /\ noting' = noting
        /\ calls' = calls /\ kind' = kind /\ target' = target /\ result' = result
        /\ faults' = faults /\ owner' = owner /\ unproven' = unproven /\ asleep' = asleep
        /\ written' = written /\ durable' = durable /\ emitted' = emitted /\ failed' = failed
        /\ accepted' = accepted /\ due' = due
    BY <1>1 DEF vars, outputs, promises, locals
  <2>2. GrowFrame
    BY <2>1, RecordPlaces DEF GrowFrame
  <2>3. \A f \in Flushers : SameFlush(f)
    BY <2>1 DEF SameFlush
  <2> QED
    BY <2>2, <2>3, FlushFrame
<1>2. ASSUME NEW p \in Producers, ProducerStep(p) PROVE FlushInv'
  BY <1>2, EnterLogFlush, PushFlush, RefusedFlush, PublishFlush, ProbeFlush,
     NotifyLockFlush, NotifyFlush, PushFailedFlush, FormatStatusFlush, EmitCheckFlush,
     EmitLockFlush, EmitStatusFlush
  DEF ProducerStep
<1>3. ASSUME NEW t \in Producers \cup {Host}, ForceStep(t) PROVE FlushInv'
  BY <1>3, ForceLockFlush, WakeForceFlush, ForceFailedFlush DEF ForceStep
<1>4. ASSUME NEW f \in Flushers, FlusherStep(f) PROVE FlushInv'
  BY <1>4, EnterFlushFlush, FlushCheckFlush, FlushTargetFlush, FlushLockFlush,
     FlushTestFlush, FlushAwakeFlush, FlushErrorFlush, SyncCheckFlush, SyncLockFlush,
     SyncFlush
  DEF FlusherStep
<1>5. CASE WorkerStep
  BY <1>5, DrainFlush, DrainEndFlush, BatchFormatFlush, BatchLockFlush, EmitBatchFlush,
     BatchDoneFlush, ProgressLockFlush, ProgressFlush, WaitLockFlush, WaitTestFlush,
     WaitRetestFlush, WaitAwakeFlush, WaitEndFlush, FinalFlush, FinalLockFlush, BroadcastFlush
  DEF WorkerStep
<1>6. CASE HostStep \/ Destroy
  BY <1>6, AcquireFlush, StartWorkerFlush, PublishRunningFlush, RollbackFlush,
     DestroyFlush, StopCheckFlush, JoinFlush, JoinedFlush, FinalSyncFlush, ReleaseFlush
  DEF HostStep
<1>7. ASSUME NEW t \in Threads, NoteStep(t) \/ Spurious(t) PROVE FlushInv'
  BY <1>7, NoteStepFlush, SpuriousFlush
<1> QED
  BY <1>1, <1>2, <1>3, <1>4, <1>5, <1>6, <1>7 DEF Next

\* The promises of the flushes hold in every behaviour.
LEMMA FlushInvariant == Spec => []FlushInv
<1>1. Init => FlushInv
  BY InitFlush
<1>2. Types /\ Types' /\ RecordInv /\ FlushInv /\ [Next]_vars => FlushInv'
  BY NextFlush
<1> QED
  BY <1>1, <1>2, TypesInvariant, RecordsInvariant, PTL DEF Spec

\* FlushIsHonest: logger_flush answers 0 only if every record accepted before it
\* began and every position reserved before its snapshot is durable and none of
\* them failed, whatever the worker, the outputs or the mutexes did meanwhile.
THEOREM FlushesAreHonest == Spec => []FlushIsHonest
<1>1. RecordInv /\ FlushInv => FlushIsHonest
  BY DEF RecordInv, CountedOnce, FlushInv, FlushPromise, FlushIsHonest, At, Due, Queued
<1> QED
  BY <1>1, RecordsInvariant, FlushInvariant, PTL

-----------------------------------------------------------------------------
(* Counts                                                                  *)

\* The producers whose reserved record enqueued does not count yet.
Reserving == {p \in Producers : pc[p] \in ReservedLabels}
\* The records counted by emitted_records or failed_records in a batch that
\* async_completed does not count yet.
Pending == IF pc[Worker] = "batch_done" THEN batch ELSE 0

CountInv ==
    /\ IsFiniteSet(emitted) /\ IsFiniteSet(failed) /\ IsFiniteSet(Reserving)
    /\ Cardinality(emitted) + Cardinality(failed) = l.async_completed + l.sync_completed + Pending
    /\ l.async_completed = q.dequeue_pos - batch
    /\ l.enqueued + Cardinality(Reserving) = Len(q.fifo)

\* A step that counts nothing.
CountFrame ==
    /\ emitted' = emitted /\ failed' = failed
    /\ l'.async_completed = l.async_completed /\ l'.sync_completed = l.sync_completed
    /\ l'.enqueued = l.enqueued /\ Len(q'.fifo) = Len(q.fifo)
    /\ q'.dequeue_pos - batch' = q.dequeue_pos - batch
    /\ Pending' = Pending /\ Reserving' = Reserving

\* Such a step keeps the counts.
LEMMA CountKept ==
    ASSUME CountInv, CountFrame
    PROVE  CountInv'
BY DEF CountInv, CountFrame

\* A step that handles no record and leaves every thread's part in the counts
\* alone counts nothing.
LEMMA DataCounts ==
    ASSUME DataFrame, l'.enqueued = l.enqueued,
           pc'[Worker] = "batch_done" <=> pc[Worker] = "batch_done",
           \A p \in Producers : pc'[p] \in ReservedLabels <=> pc[p] \in ReservedLabels
    PROVE  CountFrame
BY DEF DataFrame, KeepFrame, CountFrame, Pending, Reserving

\* The numbers the counts are made of.
LEMMA CountTypes ==
    ASSUME Types, CountInv
    PROVE  /\ Cardinality(emitted) \in Nat /\ Cardinality(failed) \in Nat
           /\ Cardinality(Reserving) \in Nat /\ batch \in Nat /\ q.dequeue_pos \in Nat
           /\ Len(q.fifo) \in Nat /\ l.async_completed \in Nat /\ l.sync_completed \in Nat
           /\ l.enqueued \in Nat
<1>1. /\ Cardinality(emitted) \in Nat /\ Cardinality(failed) \in Nat /\ Cardinality(Reserving) \in Nat
  BY FS_CardinalityType DEF CountInv
<1> QED
  BY <1>1, RecordPlaces, LoggerFieldTypes DEF Types

\* A batch has as many records as positions.
LEMMA BatchSize ==
    ASSUME Types, RecordInv
    PROVE  IsFiniteSet(Batch) /\ Cardinality(Batch) = batch
<1>1. /\ Len(q.fifo) \in Nat /\ q.dequeue_pos \in Nat /\ batch \in Nat
      /\ batch <= q.dequeue_pos /\ q.dequeue_pos <= Len(q.fifo)
  BY RecordPlaces
<1> DEFINE a == q.dequeue_pos - batch + 1
           D == a..q.dequeue_pos
           f == [i \in D |-> q.fifo[i]]
<1>2. a \in Int /\ a >= 1 /\ a = q.dequeue_pos - batch + 1 /\ q.dequeue_pos \in Int
  BY <1>1
<1>3. IsFiniteSet(D) /\ Cardinality(D) = batch
  <2> HIDE DEF a
  <2>1. IsFiniteSet(a..q.dequeue_pos)
        /\ Cardinality(a..q.dequeue_pos) = IF a > q.dequeue_pos THEN 0 ELSE q.dequeue_pos - a + 1
    BY <1>2, FS_Interval
  <2> QED
    BY <1>1, <1>2, <2>1
<1>4. \A i \in D : i \in Positions
  BY <1>1, <1>2 DEF Positions
<1>5. Batch = {q.fifo[i] : i \in D}
  BY DEF Batch
<1> HIDE DEF D, a
<1>6. f \in [D -> Batch] /\ (\A i, j \in D : f[i] = f[j] => i = j)
      /\ \A r \in Batch : \E i \in D : f[i] = r
  BY <1>4, <1>5 DEF RecordInv, QueuedOnce
<1> HIDE DEF f
<1>7. f \in Bijection(D, Batch)
  <2>1. f \in Injection(D, Batch)
    BY <1>6 DEF Injection, IsInjective
  <2>2. f \in Surjection(D, Batch)
    BY <1>6 DEF Surjection
  <2> QED
    BY <2>1, <2>2 DEF Bijection
<1>8. ExistsBijection(D, Batch)
  BY <1>7 DEF ExistsBijection
<1> QED
  BY <1>3, <1>8, FS_Bijection

\* The union of disjoint finite sets.
LEMMA DisjointUnion ==
    ASSUME NEW S, NEW R, IsFiniteSet(S), IsFiniteSet(R), S \cap R = {}
    PROVE  IsFiniteSet(S \cup R) /\ Cardinality(S \cup R) = Cardinality(S) + Cardinality(R)
<1>1. Cardinality(S \cap R) = 0
  BY FS_EmptySet
<1>2. Cardinality(S) \in Nat /\ Cardinality(R) \in Nat
  BY FS_CardinalityType
<1>3. IsFiniteSet(S \cup R)
      /\ Cardinality(S \cup R) = Cardinality(S) + Cardinality(R) - Cardinality(S \cap R)
  BY FS_Union
<1> QED
  BY <1>1, <1>2, <1>3

\* A producer's own record is counted once.
LEMMA CountOwnCount ==
    ASSUME Types, RecordInv, CountInv, NEW p \in Producers, pc[p] \in FreshLabels,
           pc' = [pc EXCEPT ![p] = "idle"], q' = q, batch' = batch,
           \/ emitted' = emitted \cup {Record(p)} /\ failed' = failed
           \/ failed' = failed \cup {Record(p)} /\ emitted' = emitted,
           l'.async_completed = l.async_completed, l'.sync_completed = l.sync_completed + 1,
           l'.enqueued = l.enqueued
    PROVE  CountInv'
<1>1. Record(p) \notin emitted /\ Record(p) \notin failed
  BY DEF RecordInv, FreshRecords, Counted
<1>2. pc'[Worker] = pc[Worker] /\ \A o \in Producers : pc'[o] = IF o = p THEN "idle" ELSE pc[o]
  BY Roles DEF Types, PcTypes
<1>3. Pending' = Pending /\ Reserving' = Reserving
  BY <1>2 DEF Pending, Reserving, FreshLabels, ReservedLabels
<1>4. IsFiniteSet(emitted) /\ IsFiniteSet(failed)
  BY DEF CountInv
<1>5. /\ IsFiniteSet(emitted \cup {Record(p)}) /\ IsFiniteSet(failed \cup {Record(p)})
      /\ Cardinality(emitted \cup {Record(p)}) = Cardinality(emitted) + 1
      /\ Cardinality(failed \cup {Record(p)}) = Cardinality(failed) + 1
  BY <1>1, <1>4, FS_AddElement
<1>6. IsFiniteSet(emitted') /\ IsFiniteSet(failed')
  BY <1>4, <1>5
<1>7. Cardinality(emitted') + Cardinality(failed') = Cardinality(emitted) + Cardinality(failed) + 1
  <2>1. Cardinality(emitted) \in Nat /\ Cardinality(failed) \in Nat
    BY CountTypes
  <2>2. CASE emitted' = emitted \cup {Record(p)} /\ failed' = failed
    BY <1>5, <2>1, <2>2
  <2>3. CASE failed' = failed \cup {Record(p)} /\ emitted' = emitted
    BY <1>5, <2>1, <2>3
  <2> QED
    BY <2>2, <2>3
<1>8. Pending \in Nat /\ l.async_completed \in Nat /\ l.sync_completed \in Nat
  BY CountTypes DEF Pending
<1>9. Cardinality(emitted) + Cardinality(failed) = l.async_completed + l.sync_completed + Pending
  BY DEF CountInv
<1>10. Cardinality(emitted') + Cardinality(failed') = l'.async_completed + l'.sync_completed + Pending'
  BY <1>3, <1>7, <1>8, <1>9
<1> QED
  BY <1>3, <1>6, <1>10 DEF CountInv

\* A batch is counted once.
LEMMA CountBatchCount ==
    ASSUME Types, RecordInv, CountInv, pc[Worker] # "batch_done",
           pc' = [pc EXCEPT ![Worker] = "batch_done"], q' = q, batch' = batch,
           NEW bad \in SUBSET Batch, failed' = failed \cup bad, emitted' = emitted \cup (Batch \ bad),
           l'.async_completed = l.async_completed, l'.sync_completed = l.sync_completed,
           l'.enqueued = l.enqueued
    PROVE  CountInv'
<1>1. Batch \cap emitted = {} /\ Batch \cap failed = {}
  BY BatchUncounted DEF Counted
<1>2. pc'[Worker] = "batch_done" /\ \A o \in Producers : pc'[o] = pc[o]
  BY Roles DEF Types, PcTypes
<1>3. Pending = 0 /\ Pending' = batch /\ Reserving' = Reserving
  BY <1>2 DEF Pending, Reserving
<1>4. IsFiniteSet(emitted) /\ IsFiniteSet(failed)
  BY DEF CountInv
<1>5. IsFiniteSet(Batch) /\ Cardinality(Batch) = batch
  BY BatchSize
<1>6. IsFiniteSet(bad) /\ IsFiniteSet(Batch \ bad)
  BY <1>5, FS_Subset
<1>7. Cardinality(bad) \in Nat /\ Cardinality(Batch \ bad) \in Nat
  BY <1>6, FS_CardinalityType
<1>8. Cardinality(Batch \ bad) + Cardinality(bad) = batch
  <2>1. (Batch \ bad) \cup bad = Batch /\ (Batch \ bad) \cap bad = {}
    OBVIOUS
  <2>2. Cardinality((Batch \ bad) \cup bad) = Cardinality(Batch \ bad) + Cardinality(bad)
    BY <1>6, <2>1, DisjointUnion
  <2> QED
    BY <1>5, <2>1, <2>2
<1>9. IsFiniteSet(failed \cup bad) /\ Cardinality(failed \cup bad) = Cardinality(failed) + Cardinality(bad)
  <2>1. failed \cap bad = {}
    BY <1>1
  <2> QED
    BY <1>4, <1>6, <2>1, DisjointUnion
<1>10. /\ IsFiniteSet(emitted \cup (Batch \ bad))
       /\ Cardinality(emitted \cup (Batch \ bad)) = Cardinality(emitted) + Cardinality(Batch \ bad)
  <2>1. emitted \cap (Batch \ bad) = {}
    BY <1>1
  <2> QED
    BY <1>4, <1>6, <2>1, DisjointUnion
<1>11. Cardinality(emitted') + Cardinality(failed') = Cardinality(emitted) + Cardinality(failed) + batch
  BY <1>7, <1>8, <1>9, <1>10, CountTypes
<1>12. Cardinality(emitted') + Cardinality(failed') = l'.async_completed + l'.sync_completed + Pending'
  BY <1>3, <1>11, CountTypes DEF CountInv
<1> QED
  BY <1>3, <1>9, <1>10, <1>12 DEF CountInv

\* A producer that leaves the queue's path has its record counted in enqueued.
LEMMA LeaveCount ==
    ASSUME Types, CountInv, NEW p \in Producers, pc[p] \in ReservedLabels,
           NEW x, x \notin ReservedLabels, pc' = [pc EXCEPT ![p] = x],
           emitted' = emitted, failed' = failed, batch' = batch,
           Len(q'.fifo) = Len(q.fifo), q'.dequeue_pos = q.dequeue_pos,
           l'.async_completed = l.async_completed, l'.sync_completed = l.sync_completed,
           l'.enqueued = l.enqueued + 1
    PROVE  CountInv'
<1>1. pc'[Worker] = pc[Worker] /\ \A o \in Producers : pc'[o] = IF o = p THEN x ELSE pc[o]
  BY Roles DEF Types, PcTypes
<1>2. Pending' = Pending /\ Reserving' = Reserving \ {p} /\ p \in Reserving
  BY <1>1 DEF Pending, Reserving
<1>3. IsFiniteSet(Reserving)
  BY DEF CountInv
<1>4. IsFiniteSet(Reserving') /\ Cardinality(Reserving') = Cardinality(Reserving) - 1
  BY <1>2, <1>3, FS_RemoveElement
<1>5. l'.enqueued + Cardinality(Reserving') = Len(q'.fifo)
  <2>1. l.enqueued \in Nat /\ Cardinality(Reserving) \in Nat /\ Len(q.fifo) \in Nat
    BY CountTypes
  <2>2. l.enqueued + Cardinality(Reserving) = Len(q.fifo)
    BY DEF CountInv
  <2> QED
    BY <1>4, <2>1, <2>2
<1> QED
  BY <1>2, <1>4, <1>5 DEF CountInv

\* Push makes one more position and one more reserving producer.
LEMMA PushCount ==
    ASSUME Types, CountInv, NEW p \in Producers, Push(p)
    PROVE  CountInv'
<1>1. /\ batch' = batch /\ l' = l /\ emitted' = emitted /\ failed' = failed
      /\ pc[p] = "push" /\ pc' = [pc EXCEPT ![p] = "publish"]
  BY DEF Push, outputs, At, Go
<1>2. Len(q'.fifo) = Len(q.fifo) + 1 /\ q'.dequeue_pos = q.dequeue_pos
  BY PushEffect
<1>3. pc'[Worker] = pc[Worker] /\ \A o \in Producers : pc'[o] = IF o = p THEN "publish" ELSE pc[o]
  BY <1>1, Roles DEF Types, PcTypes
<1>4. Pending' = Pending /\ Reserving' = Reserving \cup {p} /\ p \notin Reserving
  BY <1>1, <1>3 DEF Pending, Reserving, ReservedLabels
<1>5. IsFiniteSet(Reserving)
  BY DEF CountInv
<1>6. IsFiniteSet(Reserving') /\ Cardinality(Reserving') = Cardinality(Reserving) + 1
  BY <1>4, <1>5, FS_AddElement
<1>7. l'.enqueued + Cardinality(Reserving') = Len(q'.fifo)
  <2>1. l.enqueued \in Nat /\ Cardinality(Reserving) \in Nat /\ Len(q.fifo) \in Nat
    BY CountTypes
  <2>2. l.enqueued + Cardinality(Reserving) = Len(q.fifo)
    BY DEF CountInv
  <2> QED
    BY <1>1, <1>2, <1>6, <2>1, <2>2
<1> QED
  BY <1>1, <1>2, <1>4, <1>6, <1>7 DEF CountInv

\* BatchDone counts the batch in async_completed.
LEMMA BatchDoneCount ==
    ASSUME Types, RecordInv, CountInv, BatchDone
    PROVE  CountInv'
<1>1. /\ batch' = 0 /\ q' = q /\ emitted' = emitted /\ failed' = failed /\ pc[Worker] = "batch_done"
  BY DEF BatchDone, outputs, At
<1>2. /\ l'.async_completed = l.async_completed + batch /\ l'.sync_completed = l.sync_completed
      /\ l'.enqueued = l.enqueued
  BY DEF Types, LoggerFields, BatchDone
<1>3. pc'[Worker] # "batch_done" /\ \A o \in Producers : pc'[o] = pc[o]
  BY Roles DEF Types, PcTypes, BatchDone, Go
<1>4. Pending' = 0 /\ Pending = batch /\ Reserving' = Reserving
  BY <1>1, <1>3 DEF Pending, Reserving
<1> QED
  BY <1>1, <1>2, <1>4, CountTypes, SMTT(40) DEF CountInv

\* Drain consumes a position for the batch.
LEMMA DrainCount ==
    ASSUME Types, CountInv, Drain
    PROVE  CountInv'
<1>1. /\ batch' = batch + 1 /\ l' = l /\ emitted' = emitted /\ failed' = failed
      /\ pc' = pc /\ pc[Worker] = "drain"
  BY DEF Drain, outputs, At
<1>2. q'.fifo = q.fifo /\ q'.dequeue_pos = q.dequeue_pos + 1
  BY DEF Types, QueueTypes, QueueFields, Drain
<1>3. q'.dequeue_pos - batch' = q.dequeue_pos - batch
  BY <1>1, <1>2, CountTypes, SMTT(40)
<1> QED
  BY <1>1, <1>2, <1>3, CountKept DEF CountFrame, Pending, Reserving

\* EnterLog counts nothing.
LEMMA EnterLogCount ==
    ASSUME Types, CountInv, NEW p \in Producers, EnterLog(p)
    PROVE  CountInv'
<1>1. /\ batch' = batch /\ l' = l /\ q' = q /\ emitted' = emitted /\ failed' = failed
  BY DEF EnterLog, outputs
<1>2. pc'[Worker] = pc[Worker]
      /\ \A o \in Producers : pc'[o] \in ReservedLabels <=> pc[o] \in ReservedLabels
  BY Roles DEF Types, PcTypes, EnterLog, Go, At, ReservedLabels
<1> QED
  BY <1>1, <1>2, CountKept DEF CountFrame, Pending, Reserving

\* EmitStatus counts its record once.
LEMMA EmitStatusCount ==
    ASSUME Types, RecordInv, CountInv, NEW p \in Producers, EmitStatus(p)
    PROVE  CountInv'
<1>1. /\ q' = q /\ batch' = batch /\ pc[p] = "emit" /\ pc' = [pc EXCEPT ![p] = "idle"]
      /\ \/ emitted' = emitted \cup {Record(p)} /\ failed' = failed
         \/ failed' = failed \cup {Record(p)} /\ emitted' = emitted
  BY DEF EmitStatus, At, Go
<1>2. /\ l'.async_completed = l.async_completed /\ l'.sync_completed = l.sync_completed + 1
      /\ l'.enqueued = l.enqueued
  BY DEF Types, LoggerFields, EmitStatus
<1> QED
  BY <1>1, <1>2, CountOwnCount DEF FreshLabels

\* EmitBatch counts each record of its batch once.
LEMMA EmitBatchCount ==
    ASSUME Types, RecordInv, CountInv, EmitBatch
    PROVE  CountInv'
<1>1. /\ q' = q /\ batch' = batch /\ pc[Worker] = "batch_emit"
      /\ pc' = [pc EXCEPT ![Worker] = "batch_done"]
  BY DEF EmitBatch, locals, At, Go
<1>2. PICK bad \in SUBSET Batch : failed' = failed \cup bad /\ emitted' = emitted \cup (Batch \ bad)
  BY DEF EmitBatch
<1>3. /\ l'.async_completed = l.async_completed /\ l'.sync_completed = l.sync_completed
      /\ l'.enqueued = l.enqueued
  BY DEF Types, LoggerFields, EmitBatch
<1> QED
  BY <1>1, <1>2, <1>3, CountBatchCount

\* Probe counts its record in enqueued when nobody has to be woken.
LEMMA ProbeCount ==
    ASSUME Types, CountInv, NEW p \in Producers, Probe(p)
    PROVE  CountInv'
<1>1. /\ q' = q /\ batch' = batch /\ emitted' = emitted /\ failed' = failed /\ pc[p] = "probe"
      /\ \/ l' = l /\ pc' = [pc EXCEPT ![p] = "notify_lock"]
         \/ l' = [l EXCEPT !.enqueued = @ + 1] /\ pc' = [pc EXCEPT ![p] = "idle"]
  BY DEF Probe, outputs, At, Go
<1>2. CASE l' = l /\ pc' = [pc EXCEPT ![p] = "notify_lock"]
  <2>1. pc'[Worker] = pc[Worker]
        /\ \A o \in Producers : pc'[o] \in ReservedLabels <=> pc[o] \in ReservedLabels
    BY <1>1, <1>2, Roles DEF Types, PcTypes, ReservedLabels
  <2> QED
    BY <1>1, <1>2, <2>1, CountKept DEF CountFrame, Pending, Reserving
<1>3. CASE l' = [l EXCEPT !.enqueued = @ + 1] /\ pc' = [pc EXCEPT ![p] = "idle"]
  <2>1. /\ l'.async_completed = l.async_completed /\ l'.sync_completed = l.sync_completed
        /\ l'.enqueued = l.enqueued + 1
    BY <1>3 DEF Types, LoggerFields
  <2>2. pc[p] \in ReservedLabels /\ "idle" \notin ReservedLabels
    BY <1>1 DEF ReservedLabels
  <2> QED
    BY <1>1, <1>3, <2>1, <2>2, LeaveCount
<1> QED
  BY <1>1, <1>2, <1>3

\* NotifyLock counts its record in enqueued when the lock fails.
LEMMA NotifyLockCount ==
    ASSUME Types, CountInv, NEW p \in Producers, NotifyLock(p)
    PROVE  CountInv'
<1>1. /\ q' = q /\ batch' = batch /\ emitted' = emitted /\ failed' = failed /\ pc[p] = "notify_lock"
      /\ \/ l' = l /\ pc' = [pc EXCEPT ![p] = "notify"]
         \/ l' = [l EXCEPT !.enqueued = @ + 1, !.first_error = TRUE]
            /\ pc' = [pc EXCEPT ![p] = "push_failed"]
  BY DEF NotifyLock, outputs, locals, At, Go
<1>2. CASE l' = l /\ pc' = [pc EXCEPT ![p] = "notify"]
  <2>1. pc'[Worker] = pc[Worker]
        /\ \A o \in Producers : pc'[o] \in ReservedLabels <=> pc[o] \in ReservedLabels
    BY <1>1, <1>2, Roles DEF Types, PcTypes, ReservedLabels
  <2> QED
    BY <1>1, <1>2, <2>1, CountKept DEF CountFrame, Pending, Reserving
<1>3. CASE l' = [l EXCEPT !.enqueued = @ + 1, !.first_error = TRUE]
           /\ pc' = [pc EXCEPT ![p] = "push_failed"]
  <2>1. /\ l'.async_completed = l.async_completed /\ l'.sync_completed = l.sync_completed
        /\ l'.enqueued = l.enqueued + 1
    BY <1>3 DEF Types, LoggerFields
  <2>2. pc[p] \in ReservedLabels /\ "push_failed" \notin ReservedLabels
    BY <1>1 DEF ReservedLabels
  <2> QED
    BY <1>1, <1>3, <2>1, <2>2, LeaveCount
<1> QED
  BY <1>1, <1>2, <1>3

\* Notify counts its record in enqueued whether or not the wake-up succeeded.
LEMMA NotifyCount ==
    ASSUME Types, CountInv, NEW p \in Producers, Notify(p)
    PROVE  CountInv'
<1>1. /\ batch' = batch /\ emitted' = emitted /\ failed' = failed /\ pc[p] = "notify"
  BY DEF Notify, outputs, At
<1>2. \E x \in {"idle", "push_failed"} : pc' = [pc EXCEPT ![p] = x]
  BY DEF Notify, Go
<1>3. PICK x \in {"idle", "push_failed"} : pc' = [pc EXCEPT ![p] = x]
  BY <1>2
<1>4. q'.fifo = q.fifo /\ q'.dequeue_pos = q.dequeue_pos
  BY DEF Types, QueueTypes, QueueFields, Notify
<1>5. /\ l'.async_completed = l.async_completed /\ l'.sync_completed = l.sync_completed
      /\ l'.enqueued = l.enqueued + 1
  BY DEF Types, LoggerFields, Notify
<1>6. pc[p] \in ReservedLabels /\ x \notin ReservedLabels
  BY <1>1 DEF ReservedLabels
<1> QED
  BY <1>1, <1>3, <1>4, <1>5, <1>6, LeaveCount

\* FormatStatus counts its record once when it fails it.
LEMMA FormatStatusCount ==
    ASSUME Types, RecordInv, CountInv, NEW p \in Producers, FormatStatus(p)
    PROVE  CountInv'
<1>1. q' = q /\ batch' = batch /\ pc[p] = "format"
  BY DEF FormatStatus, At
<1>2. CASE Unsent(p)
  <2>1. failed' = failed \cup {Record(p)} /\ emitted' = emitted /\ pc' = [pc EXCEPT ![p] = "idle"]
    BY <1>2 DEF Unsent, Go
  <2>2. /\ l'.async_completed = l.async_completed /\ l'.sync_completed = l.sync_completed + 1
        /\ l'.enqueued = l.enqueued
    BY <1>2 DEF Unsent, Types, LoggerFields
  <2> QED
    BY <1>1, <2>1, <2>2, CountOwnCount DEF FreshLabels
<1>3. CASE l' = l /\ UNCHANGED outputs /\ ~Unsent(p)
  <2>1. pc'[Worker] = pc[Worker]
        /\ \A o \in Producers : pc'[o] \in ReservedLabels <=> pc[o] \in ReservedLabels
    BY <1>1, <1>3, Roles DEF Types, PcTypes, FormatStatus, Go, ReservedLabels
  <2> QED
    BY <1>1, <1>3, <2>1, CountKept DEF CountFrame, Pending, Reserving, outputs
<1> QED
  BY <1>2, <1>3 DEF FormatStatus, outputs

\* EmitCheck counts its record once when it fails it.
LEMMA EmitCheckCount ==
    ASSUME Types, RecordInv, CountInv, NEW p \in Producers, EmitCheck(p)
    PROVE  CountInv'
<1>1. q' = q /\ batch' = batch /\ pc[p] = "emit_check"
  BY DEF EmitCheck, At
<1>2. CASE Unsent(p)
  <2>1. failed' = failed \cup {Record(p)} /\ emitted' = emitted /\ pc' = [pc EXCEPT ![p] = "idle"]
    BY <1>2 DEF Unsent, Go
  <2>2. /\ l'.async_completed = l.async_completed /\ l'.sync_completed = l.sync_completed + 1
        /\ l'.enqueued = l.enqueued
    BY <1>2 DEF Unsent, Types, LoggerFields
  <2> QED
    BY <1>1, <2>1, <2>2, CountOwnCount DEF FreshLabels
<1>3. CASE l' = l /\ UNCHANGED outputs /\ ~Unsent(p)
  <2>1. pc'[Worker] = pc[Worker]
        /\ \A o \in Producers : pc'[o] \in ReservedLabels <=> pc[o] \in ReservedLabels
    BY <1>1, <1>3, Roles DEF Types, PcTypes, EmitCheck, Go, ReservedLabels
  <2> QED
    BY <1>1, <1>3, <2>1, CountKept DEF CountFrame, Pending, Reserving, outputs
<1> QED
  BY <1>2, <1>3 DEF EmitCheck, outputs

\* EmitLock counts its record once when it fails it.
LEMMA EmitLockCount ==
    ASSUME Types, RecordInv, CountInv, NEW p \in Producers, EmitLock(p)
    PROVE  CountInv'
<1>1. q' = q /\ batch' = batch /\ pc[p] = "emit_lock"
  BY DEF EmitLock, At
<1>2. CASE Unsent(p)
  <2>1. failed' = failed \cup {Record(p)} /\ emitted' = emitted /\ pc' = [pc EXCEPT ![p] = "idle"]
    BY <1>2 DEF Unsent, Go
  <2>2. /\ l'.async_completed = l.async_completed /\ l'.sync_completed = l.sync_completed + 1
        /\ l'.enqueued = l.enqueued
    BY <1>2 DEF Unsent, Types, LoggerFields
  <2> QED
    BY <1>1, <2>1, <2>2, CountOwnCount DEF FreshLabels
<1>3. CASE l' = l /\ UNCHANGED outputs /\ ~Unsent(p)
  <2>1. pc'[Worker] = pc[Worker]
        /\ \A o \in Producers : pc'[o] \in ReservedLabels <=> pc[o] \in ReservedLabels
    BY <1>1, <1>3, Roles DEF Types, PcTypes, EmitLock, Go, ReservedLabels
  <2> QED
    BY <1>1, <1>3, <2>1, CountKept DEF CountFrame, Pending, Reserving, outputs
<1> QED
  BY <1>2, <1>3 DEF EmitLock, outputs

\* BatchFormat counts its batch once when it fails it.
LEMMA BatchFormatCount ==
    ASSUME Types, RecordInv, CountInv, BatchFormat
    PROVE  CountInv'
<1>1. q' = q /\ batch' = batch /\ emitted' = emitted /\ pc[Worker] = "batch_format"
  BY DEF BatchFormat, At, locals
<1>2. CASE failed' = failed \cup Batch /\ l' = [l EXCEPT !.first_error = TRUE] /\ Go(Worker, "batch_done")
  <2>1. /\ l'.async_completed = l.async_completed /\ l'.sync_completed = l.sync_completed
        /\ l'.enqueued = l.enqueued
    BY <1>2 DEF Types, LoggerFields
  <2>2. Batch \in SUBSET Batch /\ emitted' = emitted \cup (Batch \ Batch)
    BY <1>1
  <2> QED
    BY <1>1, <1>2, <2>1, <2>2, CountBatchCount DEF Go
<1>3. CASE l' = l /\ failed' = failed /\ \E x \in {"batch_lock", "batch_emit"} : Go(Worker, x)
  <2>1. pc'[Worker] # "batch_done" /\ \A o \in Producers : pc'[o] = pc[o]
    BY <1>3, Roles DEF Types, PcTypes, Go
  <2> QED
    BY <1>1, <1>3, <2>1, CountKept DEF CountFrame, Pending, Reserving
<1> QED
  BY <1>2, <1>3 DEF BatchFormat

\* BatchLock counts its batch once when it fails it.
LEMMA BatchLockCount ==
    ASSUME Types, RecordInv, CountInv, BatchLock
    PROVE  CountInv'
<1>1. q' = q /\ batch' = batch /\ emitted' = emitted /\ pc[Worker] = "batch_lock"
  BY DEF BatchLock, At, locals
<1>2. CASE failed' = failed \cup Batch /\ l' = [l EXCEPT !.first_error = TRUE] /\ Go(Worker, "batch_done")
  <2>1. /\ l'.async_completed = l.async_completed /\ l'.sync_completed = l.sync_completed
        /\ l'.enqueued = l.enqueued
    BY <1>2 DEF Types, LoggerFields
  <2>2. Batch \in SUBSET Batch /\ emitted' = emitted \cup (Batch \ Batch)
    BY <1>1
  <2> QED
    BY <1>1, <1>2, <2>1, <2>2, CountBatchCount DEF Go
<1>3. CASE l' = l /\ failed' = failed /\ \E x \in {"batch_lock", "batch_emit"} : Go(Worker, x)
  <2>1. pc'[Worker] # "batch_done" /\ \A o \in Producers : pc'[o] = pc[o]
    BY <1>3, Roles DEF Types, PcTypes, Go
  <2> QED
    BY <1>1, <1>3, <2>1, CountKept DEF CountFrame, Pending, Reserving
<1> QED
  BY <1>2, <1>3 DEF BatchLock

\* Refused counts nothing.
LEMMA RefusedCount ==
    ASSUME Types, RecordInv, CountInv, NEW p \in Producers, Refused(p)
    PROVE  CountInv'
<1>1. l'.enqueued = l.enqueued
  BY DEF Types, LoggerFields, Refused
<1>2. /\ pc'[Worker] = "batch_done" <=> pc[Worker] = "batch_done"
      /\ \A o \in Producers : pc'[o] \in ReservedLabels <=> pc[o] \in ReservedLabels
  BY Roles DEF Types, PcTypes, ReservedLabels, Refused, Go, At
<1> QED
  BY <1>1, <1>2, RefusedData, DataCounts, CountKept

\* Publish counts nothing.
LEMMA PublishCount ==
    ASSUME Types, RecordInv, CountInv, NEW p \in Producers, Publish(p)
    PROVE  CountInv'
<1>1. l'.enqueued = l.enqueued
  BY DEF Types, LoggerFields, Publish
<1>2. /\ pc'[Worker] = "batch_done" <=> pc[Worker] = "batch_done"
      /\ \A o \in Producers : pc'[o] \in ReservedLabels <=> pc[o] \in ReservedLabels
  BY Roles DEF Types, PcTypes, ReservedLabels, Publish, Go, At
<1> QED
  BY <1>1, <1>2, PublishData, DataCounts, CountKept

\* PushFailed counts nothing.
LEMMA PushFailedCount ==
    ASSUME Types, RecordInv, CountInv, NEW p \in Producers, PushFailed(p)
    PROVE  CountInv'
<1>1. l'.enqueued = l.enqueued
  BY DEF Types, LoggerFields, PushFailed
<1>2. /\ pc'[Worker] = "batch_done" <=> pc[Worker] = "batch_done"
      /\ \A o \in Producers : pc'[o] \in ReservedLabels <=> pc[o] \in ReservedLabels
  BY Roles DEF Types, PcTypes, ReservedLabels, PushFailed, Go, At
<1> QED
  BY <1>1, <1>2, PushFailedData, DataCounts, CountKept

\* ForceLock counts nothing.
LEMMA ForceLockCount ==
    ASSUME Types, RecordInv, CountInv, NEW t \in Producers \cup {Host}, ForceLock(t)
    PROVE  CountInv'
<1>1. l'.enqueued = l.enqueued
  BY DEF Types, LoggerFields, ForceLock
<1>2. /\ pc'[Worker] = "batch_done" <=> pc[Worker] = "batch_done"
      /\ \A o \in Producers : pc'[o] \in ReservedLabels <=> pc[o] \in ReservedLabels
  BY Roles DEF Types, PcTypes, ReservedLabels, ForceLock, Go, At
<1> QED
  BY <1>1, <1>2, ForceLockData, DataCounts, CountKept

\* WakeForce counts nothing.
LEMMA WakeForceCount ==
    ASSUME Types, RecordInv, CountInv, NEW t \in Producers \cup {Host}, WakeForce(t)
    PROVE  CountInv'
<1>1. l'.enqueued = l.enqueued
  BY DEF Types, LoggerFields, WakeForce
<1>2. /\ pc'[Worker] = "batch_done" <=> pc[Worker] = "batch_done"
      /\ \A o \in Producers : pc'[o] \in ReservedLabels <=> pc[o] \in ReservedLabels
  BY Roles DEF Types, PcTypes, ReservedLabels, WakeForce, Go, At
<1> QED
  BY <1>1, <1>2, WakeForceData, DataCounts, CountKept

\* ForceFailed counts nothing.
LEMMA ForceFailedCount ==
    ASSUME Types, RecordInv, CountInv, NEW t \in Producers \cup {Host}, ForceFailed(t)
    PROVE  CountInv'
<1>1. l'.enqueued = l.enqueued
  BY DEF Types, LoggerFields, ForceFailed
<1>2. /\ pc'[Worker] = "batch_done" <=> pc[Worker] = "batch_done"
      /\ \A o \in Producers : pc'[o] \in ReservedLabels <=> pc[o] \in ReservedLabels
  BY Roles DEF Types, PcTypes, ReservedLabels, ForceFailed, Go, At
<1> QED
  BY <1>1, <1>2, ForceFailedData, DataCounts, CountKept

\* EnterFlush counts nothing.
LEMMA EnterFlushCount ==
    ASSUME Types, RecordInv, CountInv, NEW f \in Flushers, EnterFlush(f)
    PROVE  CountInv'
<1>1. l'.enqueued = l.enqueued
  BY DEF Types, LoggerFields, EnterFlush
<1>2. /\ pc'[Worker] = "batch_done" <=> pc[Worker] = "batch_done"
      /\ \A o \in Producers : pc'[o] \in ReservedLabels <=> pc[o] \in ReservedLabels
  BY Roles DEF Types, PcTypes, EnterFlush, Go, At
<1> QED
  BY <1>1, <1>2, EnterFlushData, DataCounts, CountKept

\* FlushCheck counts nothing.
LEMMA FlushCheckCount ==
    ASSUME Types, RecordInv, CountInv, NEW f \in Flushers, FlushCheck(f)
    PROVE  CountInv'
<1>1. l'.enqueued = l.enqueued
  BY DEF Types, LoggerFields, FlushCheck
<1>2. /\ pc'[Worker] = "batch_done" <=> pc[Worker] = "batch_done"
      /\ \A o \in Producers : pc'[o] \in ReservedLabels <=> pc[o] \in ReservedLabels
  BY Roles DEF Types, PcTypes, FlushCheck, Go, At
<1> QED
  BY <1>1, <1>2, FlushCheckData, DataCounts, CountKept

\* FlushTarget counts nothing.
LEMMA FlushTargetCount ==
    ASSUME Types, RecordInv, CountInv, NEW f \in Flushers, FlushTarget(f)
    PROVE  CountInv'
<1>1. l'.enqueued = l.enqueued
  BY DEF Types, LoggerFields, FlushTarget
<1>2. /\ pc'[Worker] = "batch_done" <=> pc[Worker] = "batch_done"
      /\ \A o \in Producers : pc'[o] \in ReservedLabels <=> pc[o] \in ReservedLabels
  BY Roles DEF Types, PcTypes, FlushTarget, Go, At
<1> QED
  BY <1>1, <1>2, FlushTargetData, DataCounts, CountKept

\* FlushLock counts nothing.
LEMMA FlushLockCount ==
    ASSUME Types, RecordInv, CountInv, NEW f \in Flushers, FlushLock(f)
    PROVE  CountInv'
<1>1. l'.enqueued = l.enqueued
  BY DEF Types, LoggerFields, FlushLock
<1>2. /\ pc'[Worker] = "batch_done" <=> pc[Worker] = "batch_done"
      /\ \A o \in Producers : pc'[o] \in ReservedLabels <=> pc[o] \in ReservedLabels
  BY Roles DEF Types, PcTypes, FlushLock, Go, At
<1> QED
  BY <1>1, <1>2, FlushLockData, DataCounts, CountKept

\* FlushTest counts nothing.
LEMMA FlushTestCount ==
    ASSUME Types, RecordInv, CountInv, NEW f \in Flushers, FlushTest(f)
    PROVE  CountInv'
<1>1. l'.enqueued = l.enqueued
  BY DEF Types, LoggerFields, FlushTest
<1>2. /\ pc'[Worker] = "batch_done" <=> pc[Worker] = "batch_done"
      /\ \A o \in Producers : pc'[o] \in ReservedLabels <=> pc[o] \in ReservedLabels
  BY Roles DEF Types, PcTypes, FlushTest, Go, At
<1> QED
  BY <1>1, <1>2, FlushTestData, DataCounts, CountKept

\* FlushAwake counts nothing.
LEMMA FlushAwakeCount ==
    ASSUME Types, RecordInv, CountInv, NEW f \in Flushers, FlushAwake(f)
    PROVE  CountInv'
<1>1. l'.enqueued = l.enqueued
  BY DEF Types, LoggerFields, FlushAwake
<1>2. /\ pc'[Worker] = "batch_done" <=> pc[Worker] = "batch_done"
      /\ \A o \in Producers : pc'[o] \in ReservedLabels <=> pc[o] \in ReservedLabels
  BY Roles DEF Types, PcTypes, FlushAwake, Go, At
<1> QED
  BY <1>1, <1>2, FlushAwakeData, DataCounts, CountKept

\* FlushError counts nothing.
LEMMA FlushErrorCount ==
    ASSUME Types, RecordInv, CountInv, NEW f \in Flushers, FlushError(f)
    PROVE  CountInv'
<1>1. l'.enqueued = l.enqueued
  BY DEF Types, LoggerFields, FlushError
<1>2. /\ pc'[Worker] = "batch_done" <=> pc[Worker] = "batch_done"
      /\ \A o \in Producers : pc'[o] \in ReservedLabels <=> pc[o] \in ReservedLabels
  BY Roles DEF Types, PcTypes, FlushError, Go, At
<1> QED
  BY <1>1, <1>2, FlushErrorData, DataCounts, CountKept

\* SyncCheck counts nothing.
LEMMA SyncCheckCount ==
    ASSUME Types, RecordInv, CountInv, NEW f \in Flushers, SyncCheck(f)
    PROVE  CountInv'
<1>1. l'.enqueued = l.enqueued
  BY DEF Types, LoggerFields, SyncCheck
<1>2. /\ pc'[Worker] = "batch_done" <=> pc[Worker] = "batch_done"
      /\ \A o \in Producers : pc'[o] \in ReservedLabels <=> pc[o] \in ReservedLabels
  BY Roles DEF Types, PcTypes, SyncCheck, Go, At
<1> QED
  BY <1>1, <1>2, SyncCheckData, DataCounts, CountKept

\* SyncLock counts nothing.
LEMMA SyncLockCount ==
    ASSUME Types, RecordInv, CountInv, NEW f \in Flushers, SyncLock(f)
    PROVE  CountInv'
<1>1. l'.enqueued = l.enqueued
  BY DEF Types, LoggerFields, SyncLock
<1>2. /\ pc'[Worker] = "batch_done" <=> pc[Worker] = "batch_done"
      /\ \A o \in Producers : pc'[o] \in ReservedLabels <=> pc[o] \in ReservedLabels
  BY Roles DEF Types, PcTypes, SyncLock, Go, At
<1> QED
  BY <1>1, <1>2, SyncLockData, DataCounts, CountKept

\* Sync counts nothing.
LEMMA SyncCount ==
    ASSUME Types, RecordInv, CountInv, NEW f \in Flushers, Sync(f)
    PROVE  CountInv'
<1>1. l'.enqueued = l.enqueued
  BY DEF Types, LoggerFields, Sync, SyncOutputs
<1>2. /\ pc'[Worker] = "batch_done" <=> pc[Worker] = "batch_done"
      /\ \A o \in Producers : pc'[o] \in ReservedLabels <=> pc[o] \in ReservedLabels
  BY Roles DEF Types, PcTypes, Sync, Go, At
<1> QED
  BY <1>1, <1>2, SyncData, DataCounts, CountKept

\* DrainEnd counts nothing.
LEMMA DrainEndCount ==
    ASSUME Types, RecordInv, CountInv, DrainEnd
    PROVE  CountInv'
<1>1. l'.enqueued = l.enqueued
  BY DEF Types, LoggerFields, DrainEnd
<1>2. /\ pc'[Worker] = "batch_done" <=> pc[Worker] = "batch_done"
      /\ \A o \in Producers : pc'[o] \in ReservedLabels <=> pc[o] \in ReservedLabels
  BY Roles DEF Types, PcTypes, DrainEnd, Go, At
<1> QED
  BY <1>1, <1>2, DrainEndData, DataCounts, CountKept

\* ProgressLock counts nothing.
LEMMA ProgressLockCount ==
    ASSUME Types, RecordInv, CountInv, ProgressLock
    PROVE  CountInv'
<1>1. l'.enqueued = l.enqueued
  BY DEF Types, LoggerFields, ProgressLock
<1>2. /\ pc'[Worker] = "batch_done" <=> pc[Worker] = "batch_done"
      /\ \A o \in Producers : pc'[o] \in ReservedLabels <=> pc[o] \in ReservedLabels
  BY Roles DEF Types, PcTypes, ProgressLock, Go, At
<1> QED
  BY <1>1, <1>2, ProgressLockData, DataCounts, CountKept

\* Progress counts nothing.
LEMMA ProgressCount ==
    ASSUME Types, RecordInv, CountInv, Progress
    PROVE  CountInv'
<1>1. l'.enqueued = l.enqueued
  BY DEF Types, LoggerFields, Progress
<1>2. /\ pc'[Worker] = "batch_done" <=> pc[Worker] = "batch_done"
      /\ \A o \in Producers : pc'[o] \in ReservedLabels <=> pc[o] \in ReservedLabels
  BY Roles DEF Types, PcTypes, Progress, Go, At
<1> QED
  BY <1>1, <1>2, ProgressData, DataCounts, CountKept

\* WaitLock counts nothing.
LEMMA WaitLockCount ==
    ASSUME Types, RecordInv, CountInv, WaitLock
    PROVE  CountInv'
<1>1. l'.enqueued = l.enqueued
  BY DEF Types, LoggerFields, WaitLock
<1>2. /\ pc'[Worker] = "batch_done" <=> pc[Worker] = "batch_done"
      /\ \A o \in Producers : pc'[o] \in ReservedLabels <=> pc[o] \in ReservedLabels
  BY Roles DEF Types, PcTypes, WaitLock, Go, At
<1> QED
  BY <1>1, <1>2, WaitLockData, DataCounts, CountKept

\* WaitTest counts nothing.
LEMMA WaitTestCount ==
    ASSUME Types, RecordInv, CountInv, WaitTest
    PROVE  CountInv'
<1>1. l'.enqueued = l.enqueued
  BY DEF Types, LoggerFields, WaitTest
<1>2. /\ pc'[Worker] = "batch_done" <=> pc[Worker] = "batch_done"
      /\ \A o \in Producers : pc'[o] \in ReservedLabels <=> pc[o] \in ReservedLabels
  BY Roles DEF Types, PcTypes, WaitTest, Go, At
<1> QED
  BY <1>1, <1>2, WaitTestData, DataCounts, CountKept

\* WaitRetest counts nothing.
LEMMA WaitRetestCount ==
    ASSUME Types, RecordInv, CountInv, WaitRetest
    PROVE  CountInv'
<1>1. l'.enqueued = l.enqueued
  BY DEF Types, LoggerFields, WaitRetest
<1>2. /\ pc'[Worker] = "batch_done" <=> pc[Worker] = "batch_done"
      /\ \A o \in Producers : pc'[o] \in ReservedLabels <=> pc[o] \in ReservedLabels
  BY Roles DEF Types, PcTypes, WaitRetest, Go, At
<1> QED
  BY <1>1, <1>2, WaitRetestData, DataCounts, CountKept

\* WaitAwake counts nothing.
LEMMA WaitAwakeCount ==
    ASSUME Types, RecordInv, CountInv, WaitAwake
    PROVE  CountInv'
<1>1. l'.enqueued = l.enqueued
  BY DEF Types, LoggerFields, WaitAwake
<1>2. /\ pc'[Worker] = "batch_done" <=> pc[Worker] = "batch_done"
      /\ \A o \in Producers : pc'[o] \in ReservedLabels <=> pc[o] \in ReservedLabels
  BY Roles DEF Types, PcTypes, WaitAwake, Go, At
<1> QED
  BY <1>1, <1>2, WaitAwakeData, DataCounts, CountKept

\* WaitEnd counts nothing.
LEMMA WaitEndCount ==
    ASSUME Types, RecordInv, CountInv, WaitEnd
    PROVE  CountInv'
<1>1. l'.enqueued = l.enqueued
  BY DEF Types, LoggerFields, WaitEnd
<1>2. /\ pc'[Worker] = "batch_done" <=> pc[Worker] = "batch_done"
      /\ \A o \in Producers : pc'[o] \in ReservedLabels <=> pc[o] \in ReservedLabels
  BY Roles DEF Types, PcTypes, WaitEnd, Go, At
<1> QED
  BY <1>1, <1>2, WaitEndData, DataCounts, CountKept

\* Final counts nothing.
LEMMA FinalCount ==
    ASSUME Types, RecordInv, CountInv, Final
    PROVE  CountInv'
<1>1. l'.enqueued = l.enqueued
  BY DEF Types, LoggerFields, Final
<1>2. /\ pc'[Worker] = "batch_done" <=> pc[Worker] = "batch_done"
      /\ \A o \in Producers : pc'[o] \in ReservedLabels <=> pc[o] \in ReservedLabels
  BY Roles DEF Types, PcTypes, Final, Go, At
<1> QED
  BY <1>1, <1>2, FinalData, DataCounts, CountKept

\* FinalLock counts nothing.
LEMMA FinalLockCount ==
    ASSUME Types, RecordInv, CountInv, FinalLock
    PROVE  CountInv'
<1>1. l'.enqueued = l.enqueued
  BY DEF Types, LoggerFields, FinalLock
<1>2. /\ pc'[Worker] = "batch_done" <=> pc[Worker] = "batch_done"
      /\ \A o \in Producers : pc'[o] \in ReservedLabels <=> pc[o] \in ReservedLabels
  BY Roles DEF Types, PcTypes, FinalLock, Go, At
<1> QED
  BY <1>1, <1>2, FinalLockData, DataCounts, CountKept

\* Broadcast counts nothing.
LEMMA BroadcastCount ==
    ASSUME Types, RecordInv, CountInv, Broadcast
    PROVE  CountInv'
<1>1. l'.enqueued = l.enqueued
  BY DEF Types, LoggerFields, Broadcast
<1>2. /\ pc'[Worker] = "batch_done" <=> pc[Worker] = "batch_done"
      /\ \A o \in Producers : pc'[o] \in ReservedLabels <=> pc[o] \in ReservedLabels
  BY Roles DEF Types, PcTypes, Broadcast, Go, At
<1> QED
  BY <1>1, <1>2, BroadcastData, DataCounts, CountKept

\* Acquire counts nothing.
LEMMA AcquireCount ==
    ASSUME Types, RecordInv, CountInv, Acquire
    PROVE  CountInv'
<1>1. l'.enqueued = l.enqueued
  BY DEF Types, LoggerFields, Acquire
<1>2. /\ pc'[Worker] = "batch_done" <=> pc[Worker] = "batch_done"
      /\ \A o \in Producers : pc'[o] \in ReservedLabels <=> pc[o] \in ReservedLabels
  BY Roles DEF Types, PcTypes, Acquire, Go, At
<1> QED
  BY <1>1, <1>2, AcquireData, DataCounts, CountKept

\* StartWorker counts nothing.
LEMMA StartWorkerCount ==
    ASSUME Types, RecordInv, CountInv, StartWorker
    PROVE  CountInv'
<1>1. l'.enqueued = l.enqueued
  BY DEF Types, LoggerFields, StartWorker
<1>2. /\ pc'[Worker] = "batch_done" <=> pc[Worker] = "batch_done"
      /\ \A o \in Producers : pc'[o] \in ReservedLabels <=> pc[o] \in ReservedLabels
  BY Roles DEF Types, PcTypes, RecordInv, WatermarkBehind, StartWorker, Go, At
<1> QED
  BY <1>1, <1>2, StartWorkerData, DataCounts, CountKept

\* PublishRunning counts nothing.
LEMMA PublishRunningCount ==
    ASSUME Types, RecordInv, CountInv, PublishRunning
    PROVE  CountInv'
<1>1. l'.enqueued = l.enqueued
  BY DEF Types, LoggerFields, PublishRunning
<1>2. /\ pc'[Worker] = "batch_done" <=> pc[Worker] = "batch_done"
      /\ \A o \in Producers : pc'[o] \in ReservedLabels <=> pc[o] \in ReservedLabels
  BY Roles DEF Types, PcTypes, PublishRunning, Go, At
<1> QED
  BY <1>1, <1>2, PublishRunningData, DataCounts, CountKept

\* Rollback counts nothing.
LEMMA RollbackCount ==
    ASSUME Types, RecordInv, CountInv, Rollback
    PROVE  CountInv'
<1>1. l'.enqueued = l.enqueued
  BY DEF Types, LoggerFields, Rollback
<1>2. /\ pc'[Worker] = "batch_done" <=> pc[Worker] = "batch_done"
      /\ \A o \in Producers : pc'[o] \in ReservedLabels <=> pc[o] \in ReservedLabels
  BY Roles DEF Types, PcTypes, Rollback, Go, At
<1> QED
  BY <1>1, <1>2, RollbackData, DataCounts, CountKept

\* Destroy counts nothing.
LEMMA DestroyCount ==
    ASSUME Types, RecordInv, CountInv, Destroy
    PROVE  CountInv'
<1>1. l'.enqueued = l.enqueued
  BY DEF Types, LoggerFields, Destroy
<1>2. /\ pc'[Worker] = "batch_done" <=> pc[Worker] = "batch_done"
      /\ \A o \in Producers : pc'[o] \in ReservedLabels <=> pc[o] \in ReservedLabels
  BY Roles DEF Types, PcTypes, Destroy, Go, At
<1> QED
  BY <1>1, <1>2, DestroyData, DataCounts, CountKept

\* StopCheck counts nothing.
LEMMA StopCheckCount ==
    ASSUME Types, RecordInv, CountInv, StopCheck
    PROVE  CountInv'
<1>1. l'.enqueued = l.enqueued
  BY DEF Types, LoggerFields, StopCheck
<1>2. /\ pc'[Worker] = "batch_done" <=> pc[Worker] = "batch_done"
      /\ \A o \in Producers : pc'[o] \in ReservedLabels <=> pc[o] \in ReservedLabels
  BY Roles DEF Types, PcTypes, StopCheck, Go, At
<1> QED
  BY <1>1, <1>2, StopCheckData, DataCounts, CountKept

\* Join counts nothing.
LEMMA JoinCount ==
    ASSUME Types, RecordInv, CountInv, Join
    PROVE  CountInv'
<1>1. l'.enqueued = l.enqueued
  BY DEF Types, LoggerFields, Join
<1>2. /\ pc'[Worker] = "batch_done" <=> pc[Worker] = "batch_done"
      /\ \A o \in Producers : pc'[o] \in ReservedLabels <=> pc[o] \in ReservedLabels
  BY Roles DEF Types, PcTypes, Join, Go, At
<1> QED
  BY <1>1, <1>2, JoinData, DataCounts, CountKept

\* Joined counts nothing.
LEMMA JoinedCount ==
    ASSUME Types, RecordInv, CountInv, Joined
    PROVE  CountInv'
<1>1. l'.enqueued = l.enqueued
  BY DEF Types, LoggerFields, Joined
<1>2. /\ pc'[Worker] = "batch_done" <=> pc[Worker] = "batch_done"
      /\ \A o \in Producers : pc'[o] \in ReservedLabels <=> pc[o] \in ReservedLabels
  BY Roles DEF Types, PcTypes, Joined, Go, At
<1> QED
  BY <1>1, <1>2, JoinedData, DataCounts, CountKept

\* FinalSync counts nothing.
LEMMA FinalSyncCount ==
    ASSUME Types, RecordInv, CountInv, FinalSync
    PROVE  CountInv'
<1>1. l'.enqueued = l.enqueued
  BY DEF Types, LoggerFields, FinalSync, SyncOutputs
<1>2. /\ pc'[Worker] = "batch_done" <=> pc[Worker] = "batch_done"
      /\ \A o \in Producers : pc'[o] \in ReservedLabels <=> pc[o] \in ReservedLabels
  BY Roles DEF Types, PcTypes, FinalSync, Go, At
<1> QED
  BY <1>1, <1>2, FinalSyncData, DataCounts, CountKept

\* Release counts nothing.
LEMMA ReleaseCount ==
    ASSUME Types, RecordInv, CountInv, Release
    PROVE  CountInv'
<1>1. l'.enqueued = l.enqueued
  BY DEF Types, LoggerFields, Release
<1>2. /\ pc'[Worker] = "batch_done" <=> pc[Worker] = "batch_done"
      /\ \A o \in Producers : pc'[o] \in ReservedLabels <=> pc[o] \in ReservedLabels
  BY Roles DEF Types, PcTypes, Release, Go, At
<1> QED
  BY <1>1, <1>2, ReleaseData, DataCounts, CountKept

\* NoteStep counts nothing.
LEMMA NoteStepCount ==
    ASSUME Types, RecordInv, CountInv, NEW t \in Threads, NoteStep(t)
    PROVE  CountInv'
<1>1. l'.enqueued = l.enqueued
  BY DEF Types, LoggerFields, NoteStep
<1>2. /\ pc'[Worker] = "batch_done" <=> pc[Worker] = "batch_done"
      /\ \A o \in Producers : pc'[o] \in ReservedLabels <=> pc[o] \in ReservedLabels
  BY Roles DEF Types, PcTypes, NoteStep
<1> QED
  BY <1>1, <1>2, NoteStepData, DataCounts, CountKept

\* Spurious counts nothing.
LEMMA SpuriousCount ==
    ASSUME Types, RecordInv, CountInv, NEW t \in Threads, Spurious(t)
    PROVE  CountInv'
<1>1. l'.enqueued = l.enqueued
  BY DEF Types, LoggerFields, Spurious
<1>2. /\ pc'[Worker] = "batch_done" <=> pc[Worker] = "batch_done"
      /\ \A o \in Producers : pc'[o] \in ReservedLabels <=> pc[o] \in ReservedLabels
  BY Roles DEF Types, PcTypes, Spurious
<1> QED
  BY <1>1, <1>2, SpuriousData, DataCounts, CountKept

\* Nothing is counted before the first call.
LEMMA InitCount ==
    ASSUME Init
    PROVE  CountInv
<1>1. /\ q.fifo = << >> /\ emitted = {} /\ failed = {} /\ batch = 0 /\ q.dequeue_pos = 0
      /\ l.async_completed = 0 /\ l.sync_completed = 0 /\ l.enqueued = 0
  BY DEF Init
<1>2. pc[Worker] = "none" /\ \A p \in Producers : pc[p] = "idle"
  BY Roles DEF Init
<1>3. Reserving = {} /\ Pending = 0
  BY <1>2 DEF Reserving, Pending, ReservedLabels
<1>4. Len(q.fifo) = 0
  BY <1>1
<1> QED
  BY <1>1, <1>3, <1>4, FS_EmptySet DEF CountInv

\* Every step keeps the counts.
LEMMA NextCount ==
    ASSUME Types, RecordInv, CountInv, [Next]_vars
    PROVE  CountInv'
<1>1. CASE UNCHANGED vars
  <2>1. /\ l' = l /\ q' = q /\ pc' = pc /\ batch' = batch /\ slot' = slot /\ noting' = noting
        /\ calls' = calls /\ kind' = kind /\ target' = target /\ result' = result
        /\ faults' = faults /\ owner' = owner /\ unproven' = unproven /\ asleep' = asleep
        /\ written' = written /\ durable' = durable /\ emitted' = emitted /\ failed' = failed
        /\ accepted' = accepted /\ due' = due
    BY <1>1 DEF vars, outputs, promises, locals
  <2> QED
    BY <2>1, CountKept DEF CountFrame, Pending, Reserving
<1>2. ASSUME NEW p \in Producers, ProducerStep(p) PROVE CountInv'
  BY <1>2, EnterLogCount, PushCount, RefusedCount, PublishCount, ProbeCount,
     NotifyLockCount, NotifyCount, PushFailedCount, FormatStatusCount, EmitCheckCount,
     EmitLockCount, EmitStatusCount
  DEF ProducerStep
<1>3. ASSUME NEW t \in Producers \cup {Host}, ForceStep(t) PROVE CountInv'
  BY <1>3, ForceLockCount, WakeForceCount, ForceFailedCount DEF ForceStep
<1>4. ASSUME NEW f \in Flushers, FlusherStep(f) PROVE CountInv'
  BY <1>4, EnterFlushCount, FlushCheckCount, FlushTargetCount, FlushLockCount,
     FlushTestCount, FlushAwakeCount, FlushErrorCount, SyncCheckCount, SyncLockCount,
     SyncCount
  DEF FlusherStep
<1>5. CASE WorkerStep
  BY <1>5, DrainCount, DrainEndCount, BatchFormatCount, BatchLockCount, EmitBatchCount,
     BatchDoneCount, ProgressLockCount, ProgressCount, WaitLockCount, WaitTestCount,
     WaitRetestCount, WaitAwakeCount, WaitEndCount, FinalCount, FinalLockCount, BroadcastCount
  DEF WorkerStep
<1>6. CASE HostStep \/ Destroy
  BY <1>6, AcquireCount, StartWorkerCount, PublishRunningCount, RollbackCount,
     DestroyCount, StopCheckCount, JoinCount, JoinedCount, FinalSyncCount, ReleaseCount
  DEF HostStep
<1>7. ASSUME NEW t \in Threads, NoteStep(t) \/ Spurious(t) PROVE CountInv'
  BY <1>7, NoteStepCount, SpuriousCount
<1> QED
  BY <1>1, <1>2, <1>3, <1>4, <1>5, <1>6, <1>7 DEF Next

\* The counts hold in every behaviour.
LEMMA CountInvariant == Spec => []CountInv
<1>1. Init => CountInv
  BY InitCount
<1>2. Types /\ RecordInv /\ CountInv /\ [Next]_vars => CountInv'
  BY NextCount
<1> QED
  BY <1>1, <1>2, TypesInvariant, RecordsInvariant, PTL DEF Spec

\* EveryRecordCounted: emitted_records and failed_records are disjoint and add up
\* to async_completed and sync_completed outside the accounting of a batch,
\* async_completed is what the worker has consumed, and enqueued is the number of
\* reservations once no producer is inside a call.
THEOREM RecordsAreCounted == Spec => []EveryRecordCounted
<1>1. Types /\ RecordInv /\ CountInv => EveryRecordCounted
  <2> SUFFICES ASSUME Types, RecordInv, CountInv
               PROVE  EveryRecordCounted
    OBVIOUS
  <2>1. emitted \cap failed = {}
    BY DEF RecordInv, CountedOnce
  <2>2. pc[Worker] # "batch_done" =>
          Cardinality(emitted) + Cardinality(failed) = l.async_completed + l.sync_completed
    BY CountTypes DEF CountInv, Pending
  <2>3. l.async_completed = q.dequeue_pos - batch
    BY DEF CountInv
  <2>4. (\A p \in Producers : pc[p] = "idle") => l.enqueued = Len(q.fifo)
    <3>1. SUFFICES ASSUME \A p \in Producers : pc[p] = "idle"
                   PROVE  l.enqueued = Len(q.fifo)
      OBVIOUS
    <3>2. Reserving = {}
      BY <3>1 DEF Reserving, ReservedLabels
    <3>3. Cardinality(Reserving) = 0
      BY <3>2, FS_EmptySet
    <3> QED
      BY <3>3, CountTypes DEF CountInv
  <2> QED
    BY <2>1, <2>2, <2>3, <2>4 DEF EveryRecordCounted
<1> QED
  BY <1>1, TypesInvariant, RecordsInvariant, CountInvariant, PTL

-----------------------------------------------------------------------------
(* Lifetimes                                                               *)

\* All the parts of a logger of this mode, and the part a mutex lies in.
FullSet == IF l.async_mode THEN Parts ELSE Parts \ {"queue", "workspace"}
Whole == l.built = FullSet /\ Complete
PartOf(m) == IF m = "wait_mu" THEN "queue" ELSE m

WholeLabels == {"publish", "using", "stop_check", "force_lock", "force", "force_failed", "join",
                "joined", "final_sync"}
EndLabels == {"final", "final_lock", "broadcast", "exited"}

\* Borrowers work on the logger only while the host lends it.
LentOnly == pc[Host] # "using" => \A b \in Borrowers : pc[b] = "idle" /\ noting[b] = "nothing"

\* Which parts the logger has, by where the host and the worker are.
PartsHeld ==
    /\ pc[Host] \in WholeLabels => Whole
    /\ pc[Worker] \notin {"none", "exited"} => Whole
    /\ pc[Host] = "rollback" /\ pc[Worker] # "none" => Whole
    /\ pc[Host] = "rollback" /\ "memory" \notin l.built => l.built \subseteq {"object"}
    /\ pc[Host] \in {"destroy", "retained"} => "memory" \in l.built
    /\ pc[Host] = "freed" => l.built = {}

\* When there is a worker, and when it is gone.
WorkerLife ==
    /\ pc[Host] \in {"force_lock", "force", "force_failed", "join"} => pc[Worker] # "none"
    /\ pc[Worker] # "none" => l.async_mode /\ pc[Host] # "create"
    /\ pc[Worker] = "none" => noting[Worker] = "nothing"
    /\ pc[Host] \in {"joined", "final_sync", "destroy", "freed"} =>
         pc[Worker] \in {"none", "exited"} /\ noting[Worker] = "nothing"
    /\ l.async_mode /\ pc[Host] \in {"publish", "using", "stop_check", "joined", "final_sync"} =>
         pc[Worker] # "none"

\* What the host's call has come to, and where it may be recording an error.
HostLife ==
    /\ noting[Host] # "nothing" => pc[Host] \in {"force_failed", "retained", "rollback"}
    /\ pc[Host] \in {"create", "publish", "using", "stop_check", "joined", "final_sync"} =>
         result[Host] # "uncreated"
    /\ pc[Host] = "rollback" => result[Host] = "uncreated"
    /\ pc[Host] \in {"final_sync", "destroy", "freed"} /\ result[Host] # "uncreated" =>
         ~l.synchronization_error
    /\ pc[Host] = "stop_check" => l.state \notin {"CREATED", "RUNNING"}

\* A held mutex exists, and a mutex in doubt is on record: in a flag of the
\* logger or of its queue, or about to be.
LocksHeld ==
    /\ \A m \in Mutexes : owner[m] # None => PartOf(m) \in l.built
    /\ q.wait_mu_error =>
         "queue" \in l.built \/ l.synchronization_error \/ noting[Host] = "sync"
    /\ \A u \in unproven :
         /\ l.synchronization_error \/ noting[u[1]] = "sync" \/ q.wait_mu_error
         /\ u[1] = Host => pc[Host] \in {"force_failed", "retained"}
         /\ pc[Host] = "publish" \/ result[Host] = "uncreated" => u[1] \notin Borrowers
         /\ pc[Host] # "create"

\* A logger that still looks usable although a mutex is in doubt or its worker
\* leaves is about to be marked: some thread is recording the error.
ErrorsNoted ==
    /\ l.synchronization_error /\ l.state \in {"CREATED", "RUNNING"} =>
         \E t \in Threads : noting[t] \in {"life", "stop"}
    /\ pc[Worker] \in EndLabels /\ l.state \in {"CREATED", "RUNNING"} =>
         \E t \in Threads : noting[t] # "nothing"
    /\ ~l.running /\ l.state \in {"CREATED", "RUNNING"} => pc[Worker] = "none"

LifeInv == LentOnly /\ PartsHeld /\ WorkerLife /\ HostLife /\ LocksHeld /\ ErrorsNoted

\* A whole logger has its memory and its mutexes.
LEMMA WholeHas ==
    ASSUME Whole
    PROVE  /\ "memory" \in l.built /\ PartOf("emit_mu") \in l.built /\ PartOf("progress_mu") \in l.built
           /\ l.async_mode => PartOf("wait_mu") \in l.built /\ "queue" \in l.built
BY DEF Whole, FullSet, Parts, PartOf

\* A constructor that has as many parts as there are has them all.
LEMMA CompleteIsWhole ==
    ASSUME Types, pc[Host] = "create", Complete
    PROVE  Whole
<1>1. PICK k \in 0..Len(Construction) : l.built = Prefix(k) /\ Cardinality(l.built) = k
  BY DEF Types, Building
<1>2. k = Len(Construction)
  BY <1>1 DEF Complete
<1>3. l.async_mode \in BOOLEAN /\ l \in LoggerFields
  BY LoggerFieldTypes DEF Types
<1>4. l.built = {Construction[i] : i \in 1..Len(Construction)}
  BY <1>1, <1>2 DEF Prefix
<1>5. CASE l.async_mode
  <2>1. Len(Construction) = 9
    BY <1>3, <1>5, ConstructionFacts
  <2>2. 1..9 = {1, 2, 3, 4, 5, 6, 7, 8, 9}
    OBVIOUS
  <2>3. l.built = {Construction[i] : i \in {1, 2, 3, 4, 5, 6, 7, 8, 9}}
    BY <1>4, <2>1, <2>2
  <2>4. l.built = Parts
    BY <1>3, <1>5, <2>3, ConstructionFacts DEF Parts
  <2> QED
    BY <1>5, <2>4 DEF Whole, FullSet
<1>6. CASE ~l.async_mode
  <2>1. Len(Construction) = 7
    BY <1>3, <1>6, ConstructionFacts
  <2>2. 1..7 = {1, 2, 3, 4, 5, 6, 7}
    OBVIOUS
  <2>3. l.built = {Construction[i] : i \in {1, 2, 3, 4, 5, 6, 7}}
    BY <1>4, <2>1, <2>2
  <2>4. l.built = Parts \ {"queue", "workspace"}
    BY <1>3, <1>6, <2>3, ConstructionFacts DEF Parts
  <2> QED
    BY <1>6, <2>4 DEF Whole, FullSet
<1> QED
  BY <1>3, <1>5, <1>6

\* The memory is the second part a constructor acquires.
LEMMA MemorySecond ==
    ASSUME Types, pc[Host] = "create", "memory" \notin l.built
    PROVE  l.built \subseteq {"object"}
<1>1. PICK k \in 0..Len(Construction) : l.built = Prefix(k)
  BY DEF Types, Building
<1>2. l \in LoggerFields /\ Len(Construction) \in Nat
  BY ConstructionType DEF Types
<1>3. Construction[1] = "object" /\ Construction[2] = "memory"
  BY <1>2, ConstructionFacts
<1>4. k < 2
  <2>1. SUFFICES ASSUME k >= 2 PROVE FALSE
    BY <1>1, <1>2
  <2>2. 2 \in 1..k
    BY <1>1, <1>2, <2>1
  <2> QED
    BY <1>1, <1>3, <2>2 DEF Prefix
<1>5. \A i \in 1..k : i = 1
  BY <1>1, <1>2, <1>4
<1> QED
  BY <1>1, <1>3, <1>5 DEF Prefix

\* A step that leaves the parts alone leaves the logger whole.
LEMMA WholeFrame ==
    ASSUME l'.built = l.built, l'.async_mode = l.async_mode
    PROVE  Whole' = Whole
BY DEF Whole, FullSet, Complete, Construction

\* The next part to give back is one the logger has, and the memory is the last.
LEMMA NextRelease ==
    ASSUME Types, "memory" \in l.built,
           NEW first, first = CHOOSE i \in 1..Len(Destruction) :
                                 /\ Destruction[i] \in l.built
                                 /\ \A j \in 1..(i - 1) : Destruction[j] \notin l.built
    PROVE  /\ Destruction[first] \in l.built
           /\ Destruction[first] = "memory" => l.built = {"memory"}
<1>1. /\ Len(Destruction) = 9 /\ Destruction[1] = "workspace" /\ Destruction[2] = "queue"
      /\ Destruction[3] = "progress_cv" /\ Destruction[4] = "progress_mu"
      /\ Destruction[5] = "emit_mu" /\ Destruction[6] = "file" /\ Destruction[7] = "syslog"
      /\ Destruction[8] = "object" /\ Destruction[9] = "memory"
  BY DEF Destruction
<1> DEFINE Ok(i) == /\ Destruction[i] \in l.built
                    /\ \A j \in 1..(i - 1) : Destruction[j] \notin l.built
<1>2. \E i \in 1..9 : Ok(i)
  <2> DEFINE D(i) == Destruction[i] \in l.built
  <2>1. D(9)
    BY <1>1
  <2>2. CASE D(1)
    <3>1. 1 \in 1..9 /\ 1..(1 - 1) = {}
      OBVIOUS
    <3> QED
      BY <2>2, <3>1
  <2>3. CASE ~D(1) /\ D(2)
    <3>1. 2 \in 1..9 /\ 1..(2 - 1) = {1}
      OBVIOUS
    <3> QED
      BY <2>3, <3>1
  <2>4. CASE ~D(1) /\ ~D(2) /\ D(3)
    <3>1. 3 \in 1..9 /\ 1..(3 - 1) = {1, 2}
      OBVIOUS
    <3> QED
      BY <2>4, <3>1
  <2>5. CASE ~D(1) /\ ~D(2) /\ ~D(3) /\ D(4)
    <3>1. 4 \in 1..9 /\ 1..(4 - 1) = {1, 2, 3}
      OBVIOUS
    <3> QED
      BY <2>5, <3>1
  <2>6. CASE ~D(1) /\ ~D(2) /\ ~D(3) /\ ~D(4) /\ D(5)
    <3>1. 5 \in 1..9 /\ 1..(5 - 1) = {1, 2, 3, 4}
      OBVIOUS
    <3> QED
      BY <2>6, <3>1
  <2>7. CASE ~D(1) /\ ~D(2) /\ ~D(3) /\ ~D(4) /\ ~D(5) /\ D(6)
    <3>1. 6 \in 1..9 /\ 1..(6 - 1) = {1, 2, 3, 4, 5}
      OBVIOUS
    <3> QED
      BY <2>7, <3>1
  <2>8. CASE ~D(1) /\ ~D(2) /\ ~D(3) /\ ~D(4) /\ ~D(5) /\ ~D(6) /\ D(7)
    <3>1. 7 \in 1..9 /\ 1..(7 - 1) = {1, 2, 3, 4, 5, 6}
      OBVIOUS
    <3> QED
      BY <2>8, <3>1
  <2>9. CASE ~D(1) /\ ~D(2) /\ ~D(3) /\ ~D(4) /\ ~D(5) /\ ~D(6) /\ ~D(7) /\ D(8)
    <3>1. 8 \in 1..9 /\ 1..(8 - 1) = {1, 2, 3, 4, 5, 6, 7}
      OBVIOUS
    <3> QED
      BY <2>9, <3>1
  <2>10. CASE ~D(1) /\ ~D(2) /\ ~D(3) /\ ~D(4) /\ ~D(5) /\ ~D(6) /\ ~D(7) /\ ~D(8)
    <3>1. 9 \in 1..9 /\ 1..(9 - 1) = {1, 2, 3, 4, 5, 6, 7, 8}
      OBVIOUS
    <3> QED
      BY <2>1, <2>10, <3>1
  <2> HIDE DEF D, Ok
  <2> QED
    BY <2>2, <2>3, <2>4, <2>5, <2>6, <2>7, <2>8, <2>9, <2>10
<1>3. first \in 1..9 /\ Ok(first)
  BY <1>1, <1>2
<1>4. Destruction[first] = "memory" => l.built = {"memory"}
  <2>1. SUFFICES ASSUME Destruction[first] = "memory" PROVE l.built = {"memory"}
    OBVIOUS
  <2>2. first = 9
    BY <1>1, <1>3, <2>1
  <2>3. \A j \in 1..8 : Destruction[j] \notin l.built
    <3>1. Ok(9)
      BY <1>3, <2>2
    <3>2. 1..(9 - 1) = 1..8
      OBVIOUS
    <3>3. \A j \in 1..(9 - 1) : Destruction[j] \notin l.built
      BY <3>1
    <3> QED
      BY <3>2, <3>3
  <2>4. /\ Destruction[1] \notin l.built /\ Destruction[2] \notin l.built /\ Destruction[3] \notin l.built
        /\ Destruction[4] \notin l.built /\ Destruction[5] \notin l.built
        /\ Destruction[6] \notin l.built /\ Destruction[7] \notin l.built
        /\ Destruction[8] \notin l.built
    BY <2>3
  <2>5. l.built \subseteq Parts
    BY LoggerFieldTypes DEF Types
  <2> QED
    BY <1>1, <2>4, <2>5 DEF Parts
<1> QED
  BY <1>3, <1>4

\* The flags that say what the logger is, and what host and worker say of it.
LoggerFrame ==
    /\ l'.built = l.built /\ l'.async_mode = l.async_mode /\ l'.state = l.state
    /\ l'.running = l.running /\ l'.synchronization_error = l.synchronization_error

\* Thread t's step on the mutexes: it takes only a mutex that exists, an unlock
\* that fails is on record, and nobody else's error recording is disturbed.
LockFrame(t) ==
    /\ noting[t] = "nothing" /\ \A o \in Threads \ {t} : noting'[o] = noting[o]
    /\ \A m \in Mutexes : owner'[m] # None => owner[m] # None \/ PartOf(m) \in l.built
    /\ \A u \in unproven' : u \in unproven \/ (u[1] = t /\ (noting'[t] = "sync" \/ q'.wait_mu_error))
    /\ q.wait_mu_error => q'.wait_mu_error
    /\ q'.wait_mu_error => q.wait_mu_error \/ "queue" \in l.built

\* A borrower's step on the logger keeps the lifetimes.
LEMMA BorrowerLife ==
    ASSUME Types, LifeInv, NEW b \in Borrowers, pc[Host] = "using", LoggerFrame, LockFrame(b),
           pc'[Host] = pc[Host], pc'[Worker] = pc[Worker], result'[Host] = result[Host]
    PROVE  LifeInv'
<1>1. Whole' = Whole
  BY WholeFrame DEF LoggerFrame
<1>2. b \in Threads /\ b # Host /\ b # Worker
  BY Roles DEF Borrowers
<1>3. noting'[Host] = noting[Host] /\ noting'[Worker] = noting[Worker]
  BY <1>2, Roles DEF LockFrame
<1>4. \A t \in Threads : noting[t] # "nothing" => noting'[t] = noting[t]
  BY DEF LockFrame
<1>5. LentOnly'
  BY DEF LentOnly
<1>6. PartsHeld' /\ WorkerLife' /\ HostLife'
  BY <1>1, <1>3 DEF LifeInv, PartsHeld, WorkerLife, HostLife, LoggerFrame
<1>7. LocksHeld'
  <2>2. \A u \in unproven : u[1] \in Threads
    BY DEF Types, SharedTypes
  <2>3. pc[Host] = "using" /\ result[Host] # "uncreated"
    BY DEF LifeInv, HostLife
  <2>4. \A u \in unproven : /\ l.synchronization_error \/ noting[u[1]] = "sync" \/ q.wait_mu_error
                            /\ u[1] # Host
    BY <2>3 DEF LifeInv, LocksHeld
  <2>5. \A u \in unproven' : /\ l'.synchronization_error \/ noting'[u[1]] = "sync" \/ q'.wait_mu_error
                             /\ u[1] # Host
    <3> SUFFICES ASSUME NEW u \in unproven'
                 PROVE  /\ l'.synchronization_error \/ noting'[u[1]] = "sync" \/ q'.wait_mu_error
                        /\ u[1] # Host
      OBVIOUS
    <3>1. CASE u \in unproven
      BY <1>4, <2>2, <2>4, <3>1 DEF LockFrame, LoggerFrame
    <3>2. CASE u[1] = b /\ (noting'[b] = "sync" \/ q'.wait_mu_error)
      BY <1>2, <3>2
    <3> QED
      BY <3>1, <3>2 DEF LockFrame
  <2>6. \A m \in Mutexes : owner'[m] # None => PartOf(m) \in l'.built
    BY DEF LifeInv, LocksHeld, LockFrame, LoggerFrame, PartOf
  <2>7. q'.wait_mu_error =>
          "queue" \in l'.built \/ l'.synchronization_error \/ noting'[Host] = "sync"
    BY <1>3 DEF LifeInv, LocksHeld, LockFrame, LoggerFrame
  <2> QED
    BY <2>3, <2>5, <2>6, <2>7 DEF LocksHeld
<1>8. ErrorsNoted'
  BY <1>4 DEF LifeInv, ErrorsNoted, LoggerFrame
<1> QED
  BY <1>5, <1>6, <1>7, <1>8 DEF LifeInv

\* A step of the worker keeps the lifetimes: it leaves only after an error is on
\* record or being recorded, or when it was stopped.
LEMMA WorkerStepLife ==
    ASSUME Types, LifeInv, pc[Worker] \notin {"none", "exited"}, LoggerFrame, LockFrame(Worker),
           pc'[Worker] # "none",
           \A t \in Threads \ {Worker} : pc'[t] = pc[t], result' = result,
           pc'[Worker] \in EndLabels =>
               \/ pc[Worker] \in EndLabels \/ noting'[Worker] # "nothing"
               \/ l.synchronization_error \/ ~l.running
    PROVE  LifeInv'
<1>1. Whole' = Whole /\ Whole
  BY WholeFrame DEF LoggerFrame, LifeInv, PartsHeld
<1>2. pc'[Host] = pc[Host] /\ noting'[Host] = noting[Host]
  BY Roles DEF LockFrame
<1>3. \A b \in Borrowers : pc'[b] = pc[b] /\ noting'[b] = noting[b]
  BY Roles DEF LockFrame, Borrowers
<1>4. \A t \in Threads : noting[t] # "nothing" => noting'[t] = noting[t]
  BY DEF LockFrame
<1>5. pc[Host] \notin {"joined", "final_sync", "destroy", "freed", "create"} /\ l.async_mode
  BY DEF LifeInv, WorkerLife
<1>6. LentOnly'
  BY <1>2, <1>3 DEF LifeInv, LentOnly
<1>7. PartsHeld'
  BY <1>1, <1>2 DEF LifeInv, PartsHeld, LoggerFrame
<1>8. WorkerLife' /\ HostLife'
  BY <1>2, <1>5 DEF LifeInv, WorkerLife, HostLife, LoggerFrame
<1>9. LocksHeld'
  <2>2. \A u \in unproven : u[1] \in Threads
    BY DEF Types, SharedTypes
  <2>4. \A u \in unproven : /\ l.synchronization_error \/ noting[u[1]] = "sync" \/ q.wait_mu_error
                            /\ u[1] = Host => pc[Host] \in {"force_failed", "retained"}
                            /\ pc[Host] = "publish" \/ result[Host] = "uncreated" => u[1] \notin Borrowers
    BY DEF LifeInv, LocksHeld
  <2>5. \A u \in unproven' :
           /\ l'.synchronization_error \/ noting'[u[1]] = "sync" \/ q'.wait_mu_error
           /\ u[1] = Host => pc'[Host] \in {"force_failed", "retained"}
           /\ pc'[Host] = "publish" \/ result'[Host] = "uncreated" => u[1] \notin Borrowers
    <3> SUFFICES ASSUME NEW u \in unproven'
                 PROVE  /\ l'.synchronization_error \/ noting'[u[1]] = "sync" \/ q'.wait_mu_error
                        /\ u[1] = Host => pc'[Host] \in {"force_failed", "retained"}
                        /\ pc'[Host] = "publish" \/ result'[Host] = "uncreated" => u[1] \notin Borrowers
      OBVIOUS
    <3>1. CASE u \in unproven
      BY <1>2, <1>4, <2>2, <2>4, <3>1 DEF LockFrame, LoggerFrame
    <3>2. CASE u[1] = Worker /\ (noting'[Worker] = "sync" \/ q'.wait_mu_error)
      BY <3>2, Roles, ThreadsAssumption
    <3> QED
      BY <3>1, <3>2 DEF LockFrame
  <2>6. \A m \in Mutexes : owner'[m] # None => PartOf(m) \in l'.built
    BY DEF LifeInv, LocksHeld, LockFrame, LoggerFrame, PartOf
  <2>7. q'.wait_mu_error =>
          "queue" \in l'.built \/ l'.synchronization_error \/ noting'[Host] = "sync"
    BY <1>2 DEF LifeInv, LocksHeld, LockFrame, LoggerFrame
  <2> QED
    BY <1>2, <1>5, <2>5, <2>6, <2>7 DEF LocksHeld
<1>10. ErrorsNoted'
  <2>1. l'.synchronization_error /\ l'.state \in {"CREATED", "RUNNING"} =>
          \E t \in Threads : noting'[t] \in {"life", "stop"}
    BY <1>4 DEF LifeInv, ErrorsNoted, LoggerFrame
  <2>2. pc'[Worker] \in EndLabels /\ l'.state \in {"CREATED", "RUNNING"} =>
          \E t \in Threads : noting'[t] # "nothing"
    BY <1>4, <2>1, Roles DEF LifeInv, ErrorsNoted, LoggerFrame
  <2>3. ~l'.running /\ l'.state \in {"CREATED", "RUNNING"} => pc'[Worker] = "none"
    BY DEF LifeInv, ErrorsNoted, LoggerFrame
  <2> QED
    BY <2>1, <2>2, <2>3 DEF ErrorsNoted
<1> QED
  BY <1>6, <1>7, <1>8, <1>9, <1>10 DEF LifeInv

-----------------------------------------------------------------------------
(* The steps of the borrowers and of the worker                            *)

\* Locking takes one free mutex.
LEMMA LockTakes ==
    ASSUME Types, NEW t \in Threads, NEW m \in Mutexes, Lock(t, m)
    PROVE  \A n \in Mutexes : owner'[n] # None => owner[n] # None \/ n = m
BY DEF Types, SharedTypes, Lock

\* Unlocking takes no mutex, and leaves one in doubt only if it failed.
LEMMA UnlockLeaves ==
    ASSUME Types
    PROVE  \A t \in Threads, m \in Mutexes : \A hit : Unlock(t, m, hit) =>
             /\ \A n \in Mutexes : owner'[n] # None => owner[n] # None
             /\ \A u \in unproven' : u \in unproven \/ (u[1] = t /\ <<"unlock", m>> \in hit)
BY DEF Types, SharedTypes, Unlock

\* EnterLog keeps the lifetimes.
LEMMA EnterLogLife ==
    ASSUME Types, RecordInv, LifeInv, NEW p \in Producers, EnterLog(p)
    PROVE  LifeInv'
<1>1. p \in Borrowers /\ p \in Threads /\ p # Host /\ p # Worker
  BY Roles
<1>2. pc[Host] = "using"
  BY <1>1 DEF EnterLog, At
<1>3. LoggerFrame
  BY DEF LoggerFrame, Types, LoggerFields, EnterLog
<1>4. pc'[Host] = pc[Host] /\ pc'[Worker] = pc[Worker] /\ result'[Host] = result[Host]
  BY <1>1, Roles DEF Types, PcTypes, LocalTypes, EnterLog, Go, Answer
<1>5. LockFrame(p)
  <2>1. noting[p] = "nothing" /\ \A o \in Threads \ {p} : noting'[o] = noting[o]
    BY <1>1, Roles DEF Types, LocalTypes, EnterLog, At
  <2>2. \A m \in Mutexes : owner'[m] # None => owner[m] # None \/ PartOf(m) \in l.built
    BY DEF Types, SharedTypes, EnterLog
  <2>3. \A u \in unproven' :
          u \in unproven \/ (u[1] = p /\ (noting'[p] = "sync" \/ q'.wait_mu_error))
    BY DEF EnterLog
  <2>4. /\ q.wait_mu_error => q'.wait_mu_error
        /\ q'.wait_mu_error => q.wait_mu_error \/ "queue" \in l.built
    BY DEF Types, QueueTypes, QueueFields, EnterLog
  <2> QED
    BY <2>1, <2>2, <2>3, <2>4 DEF LockFrame
<1> QED
  BY <1>1, <1>2, <1>3, <1>4, <1>5, BorrowerLife

\* Push keeps the lifetimes.
LEMMA PushLife ==
    ASSUME Types, RecordInv, LifeInv, NEW p \in Producers, Push(p)
    PROVE  LifeInv'
<1>1. p \in Borrowers /\ p \in Threads /\ p # Host /\ p # Worker
  BY Roles
<1>2. pc[Host] = "using"
  BY <1>1 DEF Push, At, LifeInv, LentOnly
<1>3. LoggerFrame
  BY DEF LoggerFrame, Types, LoggerFields, Push
<1>4. pc'[Host] = pc[Host] /\ pc'[Worker] = pc[Worker] /\ result'[Host] = result[Host]
  BY <1>1, Roles DEF Types, PcTypes, LocalTypes, Push, Go
<1>5. LockFrame(p)
  <2>1. noting[p] = "nothing" /\ \A o \in Threads \ {p} : noting'[o] = noting[o]
    BY <1>1, Roles DEF Types, LocalTypes, Push, At
  <2>2. \A m \in Mutexes : owner'[m] # None => owner[m] # None \/ PartOf(m) \in l.built
    BY DEF Types, SharedTypes, Push
  <2>3. \A u \in unproven' :
          u \in unproven \/ (u[1] = p /\ (noting'[p] = "sync" \/ q'.wait_mu_error))
    BY DEF Push
  <2>4. /\ q.wait_mu_error => q'.wait_mu_error
        /\ q'.wait_mu_error => q.wait_mu_error \/ "queue" \in l.built
    BY DEF Types, QueueTypes, QueueFields, Push
  <2> QED
    BY <2>1, <2>2, <2>3, <2>4 DEF LockFrame
<1> QED
  BY <1>1, <1>2, <1>3, <1>4, <1>5, BorrowerLife

\* Refused keeps the lifetimes.
LEMMA RefusedLife ==
    ASSUME Types, RecordInv, LifeInv, NEW p \in Producers, Refused(p)
    PROVE  LifeInv'
<1>1. p \in Borrowers /\ p \in Threads /\ p # Host /\ p # Worker
  BY Roles
<1>2. pc[Host] = "using"
  BY <1>1 DEF Refused, At, LifeInv, LentOnly
<1>3. LoggerFrame
  BY DEF LoggerFrame, Types, LoggerFields, Refused
<1>4. pc'[Host] = pc[Host] /\ pc'[Worker] = pc[Worker] /\ result'[Host] = result[Host]
  BY <1>1, Roles DEF Types, PcTypes, LocalTypes, Refused, Go, Answer
<1>5. LockFrame(p)
  <2>1. noting[p] = "nothing" /\ \A o \in Threads \ {p} : noting'[o] = noting[o]
    BY <1>1, Roles DEF Types, LocalTypes, Refused, At
  <2>2. \A m \in Mutexes : owner'[m] # None => owner[m] # None \/ PartOf(m) \in l.built
    BY DEF Types, SharedTypes, Refused
  <2>3. \A u \in unproven' :
          u \in unproven \/ (u[1] = p /\ (noting'[p] = "sync" \/ q'.wait_mu_error))
    BY DEF Refused
  <2>4. /\ q.wait_mu_error => q'.wait_mu_error
        /\ q'.wait_mu_error => q.wait_mu_error \/ "queue" \in l.built
    BY DEF Types, QueueTypes, QueueFields, Refused
  <2> QED
    BY <2>1, <2>2, <2>3, <2>4 DEF LockFrame
<1> QED
  BY <1>1, <1>2, <1>3, <1>4, <1>5, BorrowerLife

\* Publish keeps the lifetimes.
LEMMA PublishLife ==
    ASSUME Types, RecordInv, LifeInv, NEW p \in Producers, Publish(p)
    PROVE  LifeInv'
<1>1. p \in Borrowers /\ p \in Threads /\ p # Host /\ p # Worker
  BY Roles
<1>2. pc[Host] = "using"
  BY <1>1 DEF Publish, At, LifeInv, LentOnly
<1>3. LoggerFrame
  BY DEF LoggerFrame, Types, LoggerFields, Publish
<1>4. pc'[Host] = pc[Host] /\ pc'[Worker] = pc[Worker] /\ result'[Host] = result[Host]
  BY <1>1, Roles DEF Types, PcTypes, LocalTypes, Publish, Go, locals
<1>5. LockFrame(p)
  <2>1. noting[p] = "nothing" /\ \A o \in Threads \ {p} : noting'[o] = noting[o]
    BY <1>1, Roles DEF Types, LocalTypes, Publish, At, locals
  <2>2. \A m \in Mutexes : owner'[m] # None => owner[m] # None \/ PartOf(m) \in l.built
    BY DEF Types, SharedTypes, Publish
  <2>3. \A u \in unproven' :
          u \in unproven \/ (u[1] = p /\ (noting'[p] = "sync" \/ q'.wait_mu_error))
    BY DEF Publish
  <2>4. /\ q.wait_mu_error => q'.wait_mu_error
        /\ q'.wait_mu_error => q.wait_mu_error \/ "queue" \in l.built
    BY DEF Types, QueueTypes, QueueFields, Publish
  <2> QED
    BY <2>1, <2>2, <2>3, <2>4 DEF LockFrame
<1> QED
  BY <1>1, <1>2, <1>3, <1>4, <1>5, BorrowerLife

\* Probe keeps the lifetimes.
LEMMA ProbeLife ==
    ASSUME Types, RecordInv, LifeInv, NEW p \in Producers, Probe(p)
    PROVE  LifeInv'
<1>1. p \in Borrowers /\ p \in Threads /\ p # Host /\ p # Worker
  BY Roles
<1>2. pc[Host] = "using"
  BY <1>1 DEF Probe, At, LifeInv, LentOnly
<1>3. LoggerFrame
  BY DEF LoggerFrame, Types, LoggerFields, Probe
<1>4. pc'[Host] = pc[Host] /\ pc'[Worker] = pc[Worker] /\ result'[Host] = result[Host]
  BY <1>1, Roles DEF Types, PcTypes, LocalTypes, Probe, Go, Answer, Accept
<1>5. LockFrame(p)
  <2>1. noting[p] = "nothing" /\ \A o \in Threads \ {p} : noting'[o] = noting[o]
    BY <1>1, Roles DEF Types, LocalTypes, Probe, At
  <2>2. \A m \in Mutexes : owner'[m] # None => owner[m] # None \/ PartOf(m) \in l.built
    BY DEF Types, SharedTypes, Probe
  <2>3. \A u \in unproven' :
          u \in unproven \/ (u[1] = p /\ (noting'[p] = "sync" \/ q'.wait_mu_error))
    BY DEF Probe
  <2>4. /\ q.wait_mu_error => q'.wait_mu_error
        /\ q'.wait_mu_error => q.wait_mu_error \/ "queue" \in l.built
    BY DEF Types, QueueTypes, QueueFields, Probe
  <2> QED
    BY <2>1, <2>2, <2>3, <2>4 DEF LockFrame
<1> QED
  BY <1>1, <1>2, <1>3, <1>4, <1>5, BorrowerLife

\* NotifyLock keeps the lifetimes.
LEMMA NotifyLockLife ==
    ASSUME Types, RecordInv, LifeInv, NEW p \in Producers, NotifyLock(p)
    PROVE  LifeInv'
<1>1. p \in Borrowers /\ p \in Threads /\ p # Host /\ p # Worker
  BY Roles
<1>2. pc[Host] = "using"
  BY <1>1 DEF NotifyLock, At, LifeInv, LentOnly
<1>3. LoggerFrame
  BY DEF LoggerFrame, Types, LoggerFields, NotifyLock
<1>4. pc'[Host] = pc[Host] /\ pc'[Worker] = pc[Worker] /\ result'[Host] = result[Host]
  BY <1>1, Roles DEF Types, PcTypes, LocalTypes, NotifyLock, Go, locals
<1>5. LockFrame(p)
  <2>1. noting[p] = "nothing" /\ \A o \in Threads \ {p} : noting'[o] = noting[o]
    BY <1>1, Roles DEF Types, LocalTypes, NotifyLock, At, Note, locals
  <2>2. \A m \in Mutexes : owner'[m] # None => owner[m] # None \/ PartOf(m) \in l.built
    <3>1. PartOf("wait_mu") \in l.built
      BY <1>1, <1>2, WholeHas
      DEF LifeInv, PartsHeld, WholeLabels, RecordInv, QueueUse, AsyncLabels,
          ReservedLabels, NotifyLock, At
    <3>2. owner' = owner \/ Lock(p, "wait_mu")
      BY DEF NotifyLock
    <3> QED
      BY <1>1, <3>1, <3>2, LockTakes, MutexTypes
  <2>3. \A u \in unproven' :
          u \in unproven \/ (u[1] = p /\ (noting'[p] = "sync" \/ q'.wait_mu_error))
    BY DEF NotifyLock
  <2>4. /\ q.wait_mu_error => q'.wait_mu_error
        /\ q'.wait_mu_error => q.wait_mu_error \/ "queue" \in l.built
    BY DEF Types, QueueTypes, QueueFields, NotifyLock
  <2> QED
    BY <2>1, <2>2, <2>3, <2>4 DEF LockFrame
<1> QED
  BY <1>1, <1>2, <1>3, <1>4, <1>5, BorrowerLife

\* Notify keeps the lifetimes.
LEMMA NotifyLife ==
    ASSUME Types, RecordInv, LifeInv, NEW p \in Producers, Notify(p)
    PROVE  LifeInv'
<1>1. p \in Borrowers /\ p \in Threads /\ p # Host /\ p # Worker
  BY Roles
<1>2. pc[Host] = "using"
  BY <1>1 DEF Notify, At, LifeInv, LentOnly
<1>3. LoggerFrame
  BY DEF LoggerFrame, Types, LoggerFields, Notify
<1>4. pc'[Host] = pc[Host] /\ pc'[Worker] = pc[Worker] /\ result'[Host] = result[Host]
  BY <1>1, Roles DEF Types, PcTypes, LocalTypes, Notify, Go, Answer, Accept
<1>5. LockFrame(p)
  <2>1. noting[p] = "nothing" /\ \A o \in Threads \ {p} : noting'[o] = noting[o]
    BY <1>1, Roles DEF Types, LocalTypes, Notify, At, Note, NoteIf
  <2>2. \A m \in Mutexes : owner'[m] # None => owner[m] # None \/ PartOf(m) \in l.built
    BY <1>1, UnlockLeaves, MutexTypes DEF Notify
  <2>3. \A u \in unproven' :
          u \in unproven \/ (u[1] = p /\ (noting'[p] = "sync" \/ q'.wait_mu_error))
    BY <1>1, UnlockLeaves, MutexTypes
    DEF Types, LocalTypes, QueueTypes, QueueFields, Notify, Note, NoteIf
  <2>4. /\ q.wait_mu_error => q'.wait_mu_error
        /\ q'.wait_mu_error => q.wait_mu_error \/ "queue" \in l.built
    <3>1. "queue" \in l.built
      BY <1>1, <1>2, WholeHas
      DEF LifeInv, PartsHeld, WholeLabels, RecordInv, QueueUse, AsyncLabels,
          ReservedLabels, Notify, At
    <3> QED
      BY <3>1 DEF Types, QueueTypes, QueueFields, Notify
  <2> QED
    BY <2>1, <2>2, <2>3, <2>4 DEF LockFrame
<1> QED
  BY <1>1, <1>2, <1>3, <1>4, <1>5, BorrowerLife

\* PushFailed keeps the lifetimes.
LEMMA PushFailedLife ==
    ASSUME Types, RecordInv, LifeInv, NEW p \in Producers, PushFailed(p)
    PROVE  LifeInv'
<1>1. p \in Borrowers /\ p \in Threads /\ p # Host /\ p # Worker
  BY Roles
<1>2. pc[Host] = "using"
  BY <1>1 DEF PushFailed, At, LifeInv, LentOnly
<1>3. LoggerFrame
  BY DEF LoggerFrame, Types, LoggerFields, PushFailed
<1>4. pc'[Host] = pc[Host] /\ pc'[Worker] = pc[Worker] /\ result'[Host] = result[Host]
  BY <1>1, Roles DEF Types, PcTypes, LocalTypes, PushFailed, Go, Answer
<1>5. LockFrame(p)
  <2>1. noting[p] = "nothing" /\ \A o \in Threads \ {p} : noting'[o] = noting[o]
    BY <1>1, Roles DEF Types, LocalTypes, PushFailed, At, Note
  <2>2. \A m \in Mutexes : owner'[m] # None => owner[m] # None \/ PartOf(m) \in l.built
    BY DEF Types, SharedTypes, PushFailed
  <2>3. \A u \in unproven' :
          u \in unproven \/ (u[1] = p /\ (noting'[p] = "sync" \/ q'.wait_mu_error))
    BY DEF PushFailed
  <2>4. /\ q.wait_mu_error => q'.wait_mu_error
        /\ q'.wait_mu_error => q.wait_mu_error \/ "queue" \in l.built
    BY DEF Types, QueueTypes, QueueFields, PushFailed
  <2> QED
    BY <2>1, <2>2, <2>3, <2>4 DEF LockFrame
<1> QED
  BY <1>1, <1>2, <1>3, <1>4, <1>5, BorrowerLife

\* FormatStatus keeps the lifetimes.
LEMMA FormatStatusLife ==
    ASSUME Types, RecordInv, LifeInv, NEW p \in Producers, FormatStatus(p)
    PROVE  LifeInv'
<1>1. p \in Borrowers /\ p \in Threads /\ p # Host /\ p # Worker
  BY Roles
<1>2. pc[Host] = "using"
  BY <1>1 DEF FormatStatus, At, LifeInv, LentOnly
<1>3. LoggerFrame
  BY DEF LoggerFrame, Types, LoggerFields, FormatStatus, Unsent
<1>4. pc'[Host] = pc[Host] /\ pc'[Worker] = pc[Worker] /\ result'[Host] = result[Host]
  BY <1>1, Roles DEF Types, PcTypes, LocalTypes, FormatStatus, Go, Answer, Unsent
<1>5. LockFrame(p)
  <2>1. noting[p] = "nothing" /\ \A o \in Threads \ {p} : noting'[o] = noting[o]
    BY <1>1, Roles DEF Types, LocalTypes, FormatStatus, At
  <2>2. \A m \in Mutexes : owner'[m] # None => owner[m] # None \/ PartOf(m) \in l.built
    BY DEF Types, SharedTypes, FormatStatus
  <2>3. \A u \in unproven' :
          u \in unproven \/ (u[1] = p /\ (noting'[p] = "sync" \/ q'.wait_mu_error))
    BY DEF FormatStatus
  <2>4. /\ q.wait_mu_error => q'.wait_mu_error
        /\ q'.wait_mu_error => q.wait_mu_error \/ "queue" \in l.built
    BY DEF Types, QueueTypes, QueueFields, FormatStatus
  <2> QED
    BY <2>1, <2>2, <2>3, <2>4 DEF LockFrame
<1> QED
  BY <1>1, <1>2, <1>3, <1>4, <1>5, BorrowerLife

\* EmitCheck keeps the lifetimes.
LEMMA EmitCheckLife ==
    ASSUME Types, RecordInv, LifeInv, NEW p \in Producers, EmitCheck(p)
    PROVE  LifeInv'
<1>1. p \in Borrowers /\ p \in Threads /\ p # Host /\ p # Worker
  BY Roles
<1>2. pc[Host] = "using"
  BY <1>1 DEF EmitCheck, At, LifeInv, LentOnly
<1>3. LoggerFrame
  BY DEF LoggerFrame, Types, LoggerFields, EmitCheck, Unsent
<1>4. pc'[Host] = pc[Host] /\ pc'[Worker] = pc[Worker] /\ result'[Host] = result[Host]
  BY <1>1, Roles DEF Types, PcTypes, LocalTypes, EmitCheck, Go, Answer, Unsent
<1>5. LockFrame(p)
  <2>1. noting[p] = "nothing" /\ \A o \in Threads \ {p} : noting'[o] = noting[o]
    BY <1>1, Roles DEF Types, LocalTypes, EmitCheck, At
  <2>2. \A m \in Mutexes : owner'[m] # None => owner[m] # None \/ PartOf(m) \in l.built
    BY DEF Types, SharedTypes, EmitCheck
  <2>3. \A u \in unproven' :
          u \in unproven \/ (u[1] = p /\ (noting'[p] = "sync" \/ q'.wait_mu_error))
    BY DEF EmitCheck
  <2>4. /\ q.wait_mu_error => q'.wait_mu_error
        /\ q'.wait_mu_error => q.wait_mu_error \/ "queue" \in l.built
    BY DEF Types, QueueTypes, QueueFields, EmitCheck
  <2> QED
    BY <2>1, <2>2, <2>3, <2>4 DEF LockFrame
<1> QED
  BY <1>1, <1>2, <1>3, <1>4, <1>5, BorrowerLife

\* EmitLock keeps the lifetimes.
LEMMA EmitLockLife ==
    ASSUME Types, RecordInv, LifeInv, NEW p \in Producers, EmitLock(p)
    PROVE  LifeInv'
<1>1. p \in Borrowers /\ p \in Threads /\ p # Host /\ p # Worker
  BY Roles
<1>2. pc[Host] = "using"
  BY <1>1 DEF EmitLock, At, LifeInv, LentOnly
<1>3. LoggerFrame
  BY DEF LoggerFrame, Types, LoggerFields, EmitLock, Unsent
<1>4. pc'[Host] = pc[Host] /\ pc'[Worker] = pc[Worker] /\ result'[Host] = result[Host]
  BY <1>1, Roles DEF Types, PcTypes, LocalTypes, EmitLock, Go, Answer, Unsent
<1>5. LockFrame(p)
  <2>1. noting[p] = "nothing" /\ \A o \in Threads \ {p} : noting'[o] = noting[o]
    BY <1>1, Roles DEF Types, LocalTypes, EmitLock, At
  <2>2. \A m \in Mutexes : owner'[m] # None => owner[m] # None \/ PartOf(m) \in l.built
    <3>1. PartOf("emit_mu") \in l.built
      BY <1>1, <1>2, WholeHas DEF LifeInv, PartsHeld, WholeLabels
    <3>2. owner' = owner \/ Lock(p, "emit_mu")
      BY DEF EmitLock
    <3> QED
      BY <1>1, <3>1, <3>2, LockTakes, MutexTypes
  <2>3. \A u \in unproven' :
          u \in unproven \/ (u[1] = p /\ (noting'[p] = "sync" \/ q'.wait_mu_error))
    BY DEF EmitLock
  <2>4. /\ q.wait_mu_error => q'.wait_mu_error
        /\ q'.wait_mu_error => q.wait_mu_error \/ "queue" \in l.built
    BY DEF Types, QueueTypes, QueueFields, EmitLock
  <2> QED
    BY <2>1, <2>2, <2>3, <2>4 DEF LockFrame
<1> QED
  BY <1>1, <1>2, <1>3, <1>4, <1>5, BorrowerLife

\* EmitStatus keeps the lifetimes.
LEMMA EmitStatusLife ==
    ASSUME Types, RecordInv, LifeInv, NEW p \in Producers, EmitStatus(p)
    PROVE  LifeInv'
<1>1. p \in Borrowers /\ p \in Threads /\ p # Host /\ p # Worker
  BY Roles
<1>2. pc[Host] = "using"
  BY <1>1 DEF EmitStatus, At, LifeInv, LentOnly
<1>3. LoggerFrame
  BY DEF LoggerFrame, Types, LoggerFields, EmitStatus
<1>4. pc'[Host] = pc[Host] /\ pc'[Worker] = pc[Worker] /\ result'[Host] = result[Host]
  BY <1>1, Roles DEF Types, PcTypes, LocalTypes, EmitStatus, Go, Answer, Accept
<1>5. LockFrame(p)
  <2>1. noting[p] = "nothing" /\ \A o \in Threads \ {p} : noting'[o] = noting[o]
    BY <1>1, Roles DEF Types, LocalTypes, EmitStatus, At, Note, NoteIf
  <2>2. \A m \in Mutexes : owner'[m] # None => owner[m] # None \/ PartOf(m) \in l.built
    BY <1>1, UnlockLeaves, MutexTypes DEF EmitStatus
  <2>3. \A u \in unproven' :
          u \in unproven \/ (u[1] = p /\ (noting'[p] = "sync" \/ q'.wait_mu_error))
    BY <1>1, UnlockLeaves, MutexTypes
    DEF Types, LocalTypes, QueueTypes, QueueFields, EmitStatus, Note, NoteIf
  <2>4. /\ q.wait_mu_error => q'.wait_mu_error
        /\ q'.wait_mu_error => q.wait_mu_error \/ "queue" \in l.built
    BY DEF Types, QueueTypes, QueueFields, EmitStatus
  <2> QED
    BY <2>1, <2>2, <2>3, <2>4 DEF LockFrame
<1> QED
  BY <1>1, <1>2, <1>3, <1>4, <1>5, BorrowerLife

\* EnterFlush keeps the lifetimes.
LEMMA EnterFlushLife ==
    ASSUME Types, RecordInv, LifeInv, NEW f \in Flushers, EnterFlush(f)
    PROVE  LifeInv'
<1>1. f \in Borrowers /\ f \in Threads /\ f # Host /\ f # Worker
  BY Roles
<1>2. pc[Host] = "using"
  BY <1>1 DEF EnterFlush, At
<1>3. LoggerFrame
  BY DEF LoggerFrame, Types, LoggerFields, EnterFlush
<1>4. pc'[Host] = pc[Host] /\ pc'[Worker] = pc[Worker] /\ result'[Host] = result[Host]
  BY <1>1, Roles DEF Types, PcTypes, LocalTypes, EnterFlush, Go, Answer
<1>5. LockFrame(f)
  <2>1. noting[f] = "nothing" /\ \A o \in Threads \ {f} : noting'[o] = noting[o]
    BY <1>1, Roles DEF Types, LocalTypes, EnterFlush, At
  <2>2. \A m \in Mutexes : owner'[m] # None => owner[m] # None \/ PartOf(m) \in l.built
    BY DEF Types, SharedTypes, EnterFlush
  <2>3. \A u \in unproven' :
          u \in unproven \/ (u[1] = f /\ (noting'[f] = "sync" \/ q'.wait_mu_error))
    BY DEF EnterFlush
  <2>4. /\ q.wait_mu_error => q'.wait_mu_error
        /\ q'.wait_mu_error => q.wait_mu_error \/ "queue" \in l.built
    BY DEF Types, QueueTypes, QueueFields, EnterFlush
  <2> QED
    BY <2>1, <2>2, <2>3, <2>4 DEF LockFrame
<1> QED
  BY <1>1, <1>2, <1>3, <1>4, <1>5, BorrowerLife

\* FlushCheck keeps the lifetimes.
LEMMA FlushCheckLife ==
    ASSUME Types, RecordInv, LifeInv, NEW f \in Flushers, FlushCheck(f)
    PROVE  LifeInv'
<1>1. f \in Borrowers /\ f \in Threads /\ f # Host /\ f # Worker
  BY Roles
<1>2. pc[Host] = "using"
  BY <1>1 DEF FlushCheck, At, LifeInv, LentOnly
<1>3. LoggerFrame
  BY DEF LoggerFrame, Types, LoggerFields, FlushCheck
<1>4. pc'[Host] = pc[Host] /\ pc'[Worker] = pc[Worker] /\ result'[Host] = result[Host]
  BY <1>1, Roles DEF Types, PcTypes, LocalTypes, FlushCheck, Go, Answer
<1>5. LockFrame(f)
  <2>1. noting[f] = "nothing" /\ \A o \in Threads \ {f} : noting'[o] = noting[o]
    BY <1>1, Roles DEF Types, LocalTypes, FlushCheck, At
  <2>2. \A m \in Mutexes : owner'[m] # None => owner[m] # None \/ PartOf(m) \in l.built
    BY DEF Types, SharedTypes, FlushCheck
  <2>3. \A u \in unproven' :
          u \in unproven \/ (u[1] = f /\ (noting'[f] = "sync" \/ q'.wait_mu_error))
    BY DEF FlushCheck
  <2>4. /\ q.wait_mu_error => q'.wait_mu_error
        /\ q'.wait_mu_error => q.wait_mu_error \/ "queue" \in l.built
    BY DEF Types, QueueTypes, QueueFields, FlushCheck
  <2> QED
    BY <2>1, <2>2, <2>3, <2>4 DEF LockFrame
<1> QED
  BY <1>1, <1>2, <1>3, <1>4, <1>5, BorrowerLife

\* FlushTarget keeps the lifetimes.
LEMMA FlushTargetLife ==
    ASSUME Types, RecordInv, LifeInv, NEW f \in Flushers, FlushTarget(f)
    PROVE  LifeInv'
<1>1. f \in Borrowers /\ f \in Threads /\ f # Host /\ f # Worker
  BY Roles
<1>2. pc[Host] = "using"
  BY <1>1 DEF FlushTarget, At, LifeInv, LentOnly
<1>3. LoggerFrame
  BY DEF LoggerFrame, Types, LoggerFields, FlushTarget
<1>4. pc'[Host] = pc[Host] /\ pc'[Worker] = pc[Worker] /\ result'[Host] = result[Host]
  BY <1>1, Roles DEF Types, PcTypes, LocalTypes, FlushTarget, Go
<1>5. LockFrame(f)
  <2>1. noting[f] = "nothing" /\ \A o \in Threads \ {f} : noting'[o] = noting[o]
    BY <1>1, Roles DEF Types, LocalTypes, FlushTarget, At
  <2>2. \A m \in Mutexes : owner'[m] # None => owner[m] # None \/ PartOf(m) \in l.built
    BY DEF Types, SharedTypes, FlushTarget
  <2>3. \A u \in unproven' :
          u \in unproven \/ (u[1] = f /\ (noting'[f] = "sync" \/ q'.wait_mu_error))
    BY DEF FlushTarget
  <2>4. /\ q.wait_mu_error => q'.wait_mu_error
        /\ q'.wait_mu_error => q.wait_mu_error \/ "queue" \in l.built
    BY DEF Types, QueueTypes, QueueFields, FlushTarget
  <2> QED
    BY <2>1, <2>2, <2>3, <2>4 DEF LockFrame
<1> QED
  BY <1>1, <1>2, <1>3, <1>4, <1>5, BorrowerLife

\* FlushLock keeps the lifetimes.
LEMMA FlushLockLife ==
    ASSUME Types, RecordInv, LifeInv, NEW f \in Flushers, FlushLock(f)
    PROVE  LifeInv'
<1>1. f \in Borrowers /\ f \in Threads /\ f # Host /\ f # Worker
  BY Roles
<1>2. pc[Host] = "using"
  BY <1>1 DEF FlushLock, At, LifeInv, LentOnly
<1>3. LoggerFrame
  BY DEF LoggerFrame, Types, LoggerFields, FlushLock
<1>4. pc'[Host] = pc[Host] /\ pc'[Worker] = pc[Worker] /\ result'[Host] = result[Host]
  BY <1>1, Roles DEF Types, PcTypes, LocalTypes, FlushLock, Go, Answer
<1>5. LockFrame(f)
  <2>1. noting[f] = "nothing" /\ \A o \in Threads \ {f} : noting'[o] = noting[o]
    BY <1>1, Roles DEF Types, LocalTypes, FlushLock, At
  <2>2. \A m \in Mutexes : owner'[m] # None => owner[m] # None \/ PartOf(m) \in l.built
    <3>1. PartOf("progress_mu") \in l.built
      BY <1>1, <1>2, WholeHas DEF LifeInv, PartsHeld, WholeLabels
    <3>2. owner' = owner \/ Lock(f, "progress_mu")
      BY DEF FlushLock
    <3> QED
      BY <1>1, <3>1, <3>2, LockTakes, MutexTypes
  <2>3. \A u \in unproven' :
          u \in unproven \/ (u[1] = f /\ (noting'[f] = "sync" \/ q'.wait_mu_error))
    BY DEF FlushLock
  <2>4. /\ q.wait_mu_error => q'.wait_mu_error
        /\ q'.wait_mu_error => q.wait_mu_error \/ "queue" \in l.built
    BY DEF Types, QueueTypes, QueueFields, FlushLock
  <2> QED
    BY <2>1, <2>2, <2>3, <2>4 DEF LockFrame
<1> QED
  BY <1>1, <1>2, <1>3, <1>4, <1>5, BorrowerLife

\* FlushTest keeps the lifetimes.
LEMMA FlushTestLife ==
    ASSUME Types, RecordInv, LifeInv, NEW f \in Flushers, FlushTest(f)
    PROVE  LifeInv'
<1>1. f \in Borrowers /\ f \in Threads /\ f # Host /\ f # Worker
  BY Roles
<1>2. pc[Host] = "using"
  BY <1>1 DEF FlushTest, At, LifeInv, LentOnly
<1>3. LoggerFrame
  BY DEF LoggerFrame, Types, LoggerFields, FlushTest
<1>4. pc'[Host] = pc[Host] /\ pc'[Worker] = pc[Worker] /\ result'[Host] = result[Host]
  BY <1>1, Roles DEF Types, PcTypes, LocalTypes, FlushTest, Go, Answer
<1>5. LockFrame(f)
  <2>1. noting[f] = "nothing" /\ \A o \in Threads \ {f} : noting'[o] = noting[o]
    BY <1>1, Roles DEF Types, LocalTypes, FlushTest, At, Note, NoteIf
  <2>2. \A m \in Mutexes : owner'[m] # None => owner[m] # None \/ PartOf(m) \in l.built
    BY <1>1, UnlockLeaves, MutexTypes DEF FlushTest, Types, SharedTypes
  <2>3. \A u \in unproven' :
          u \in unproven \/ (u[1] = f /\ (noting'[f] = "sync" \/ q'.wait_mu_error))
    <3>1. unproven' = unproven \/ \E hit : Unlock(f, "progress_mu", hit) /\ NoteIf(f, hit # {}, "sync")
      BY DEF FlushTest
    <3>2. ASSUME NEW hit, Unlock(f, "progress_mu", hit), NoteIf(f, hit # {}, "sync"), NEW u \in unproven'
          PROVE  u \in unproven \/ (u[1] = f /\ noting'[f] = "sync")
      <4>1. <<"unlock", "progress_mu">> \in hit => noting'[f] = "sync"
        BY <1>1, <3>2 DEF Types, LocalTypes, NoteIf, Note
      <4> QED
        BY <1>1, <3>2, <4>1, UnlockLeaves, MutexTypes
    <3> QED
      BY <3>1, <3>2
  <2>4. /\ q.wait_mu_error => q'.wait_mu_error
        /\ q'.wait_mu_error => q.wait_mu_error \/ "queue" \in l.built
    BY DEF Types, QueueTypes, QueueFields, FlushTest
  <2> QED
    BY <2>1, <2>2, <2>3, <2>4 DEF LockFrame
<1> QED
  BY <1>1, <1>2, <1>3, <1>4, <1>5, BorrowerLife

\* FlushAwake keeps the lifetimes.
LEMMA FlushAwakeLife ==
    ASSUME Types, RecordInv, LifeInv, NEW f \in Flushers, FlushAwake(f)
    PROVE  LifeInv'
<1>1. f \in Borrowers /\ f \in Threads /\ f # Host /\ f # Worker
  BY Roles
<1>2. pc[Host] = "using"
  BY <1>1 DEF FlushAwake, At, LifeInv, LentOnly
<1>3. LoggerFrame
  BY DEF LoggerFrame, Types, LoggerFields, FlushAwake
<1>4. pc'[Host] = pc[Host] /\ pc'[Worker] = pc[Worker] /\ result'[Host] = result[Host]
  BY <1>1, Roles DEF Types, PcTypes, LocalTypes, FlushAwake, Go, locals
<1>5. LockFrame(f)
  <2>1. noting[f] = "nothing" /\ \A o \in Threads \ {f} : noting'[o] = noting[o]
    BY <1>1, Roles DEF Types, LocalTypes, FlushAwake, At, locals
  <2>2. \A m \in Mutexes : owner'[m] # None => owner[m] # None \/ PartOf(m) \in l.built
    <3>1. PartOf("progress_mu") \in l.built
      BY <1>1, <1>2, WholeHas DEF LifeInv, PartsHeld, WholeLabels
    <3>2. owner' = owner \/ Lock(f, "progress_mu")
      BY DEF FlushAwake
    <3> QED
      BY <1>1, <3>1, <3>2, LockTakes, MutexTypes
  <2>3. \A u \in unproven' :
          u \in unproven \/ (u[1] = f /\ (noting'[f] = "sync" \/ q'.wait_mu_error))
    BY DEF FlushAwake
  <2>4. /\ q.wait_mu_error => q'.wait_mu_error
        /\ q'.wait_mu_error => q.wait_mu_error \/ "queue" \in l.built
    BY DEF Types, QueueTypes, QueueFields, FlushAwake
  <2> QED
    BY <2>1, <2>2, <2>3, <2>4 DEF LockFrame
<1> QED
  BY <1>1, <1>2, <1>3, <1>4, <1>5, BorrowerLife

\* FlushError keeps the lifetimes.
LEMMA FlushErrorLife ==
    ASSUME Types, RecordInv, LifeInv, NEW f \in Flushers, FlushError(f)
    PROVE  LifeInv'
<1>1. f \in Borrowers /\ f \in Threads /\ f # Host /\ f # Worker
  BY Roles
<1>2. pc[Host] = "using"
  BY <1>1 DEF FlushError, At, LifeInv, LentOnly
<1>3. LoggerFrame
  BY DEF LoggerFrame, Types, LoggerFields, FlushError
<1>4. pc'[Host] = pc[Host] /\ pc'[Worker] = pc[Worker] /\ result'[Host] = result[Host]
  BY <1>1, Roles DEF Types, PcTypes, LocalTypes, FlushError, Go, Answer
<1>5. LockFrame(f)
  <2>1. noting[f] = "nothing" /\ \A o \in Threads \ {f} : noting'[o] = noting[o]
    BY <1>1, Roles DEF Types, LocalTypes, FlushError, At
  <2>2. \A m \in Mutexes : owner'[m] # None => owner[m] # None \/ PartOf(m) \in l.built
    BY DEF Types, SharedTypes, FlushError
  <2>3. \A u \in unproven' :
          u \in unproven \/ (u[1] = f /\ (noting'[f] = "sync" \/ q'.wait_mu_error))
    BY DEF FlushError
  <2>4. /\ q.wait_mu_error => q'.wait_mu_error
        /\ q'.wait_mu_error => q.wait_mu_error \/ "queue" \in l.built
    BY DEF Types, QueueTypes, QueueFields, FlushError
  <2> QED
    BY <2>1, <2>2, <2>3, <2>4 DEF LockFrame
<1> QED
  BY <1>1, <1>2, <1>3, <1>4, <1>5, BorrowerLife

\* SyncCheck keeps the lifetimes.
LEMMA SyncCheckLife ==
    ASSUME Types, RecordInv, LifeInv, NEW f \in Flushers, SyncCheck(f)
    PROVE  LifeInv'
<1>1. f \in Borrowers /\ f \in Threads /\ f # Host /\ f # Worker
  BY Roles
<1>2. pc[Host] = "using"
  BY <1>1 DEF SyncCheck, At, LifeInv, LentOnly
<1>3. LoggerFrame
  BY DEF LoggerFrame, Types, LoggerFields, SyncCheck
<1>4. pc'[Host] = pc[Host] /\ pc'[Worker] = pc[Worker] /\ result'[Host] = result[Host]
  BY <1>1, Roles DEF Types, PcTypes, LocalTypes, SyncCheck, Go, Answer
<1>5. LockFrame(f)
  <2>1. noting[f] = "nothing" /\ \A o \in Threads \ {f} : noting'[o] = noting[o]
    BY <1>1, Roles DEF Types, LocalTypes, SyncCheck, At
  <2>2. \A m \in Mutexes : owner'[m] # None => owner[m] # None \/ PartOf(m) \in l.built
    BY DEF Types, SharedTypes, SyncCheck
  <2>3. \A u \in unproven' :
          u \in unproven \/ (u[1] = f /\ (noting'[f] = "sync" \/ q'.wait_mu_error))
    BY DEF SyncCheck
  <2>4. /\ q.wait_mu_error => q'.wait_mu_error
        /\ q'.wait_mu_error => q.wait_mu_error \/ "queue" \in l.built
    BY DEF Types, QueueTypes, QueueFields, SyncCheck
  <2> QED
    BY <2>1, <2>2, <2>3, <2>4 DEF LockFrame
<1> QED
  BY <1>1, <1>2, <1>3, <1>4, <1>5, BorrowerLife

\* SyncLock keeps the lifetimes.
LEMMA SyncLockLife ==
    ASSUME Types, RecordInv, LifeInv, NEW f \in Flushers, SyncLock(f)
    PROVE  LifeInv'
<1>1. f \in Borrowers /\ f \in Threads /\ f # Host /\ f # Worker
  BY Roles
<1>2. pc[Host] = "using"
  BY <1>1 DEF SyncLock, At, LifeInv, LentOnly
<1>3. LoggerFrame
  BY DEF LoggerFrame, Types, LoggerFields, SyncLock
<1>4. pc'[Host] = pc[Host] /\ pc'[Worker] = pc[Worker] /\ result'[Host] = result[Host]
  BY <1>1, Roles DEF Types, PcTypes, LocalTypes, SyncLock, Go, Answer
<1>5. LockFrame(f)
  <2>1. noting[f] = "nothing" /\ \A o \in Threads \ {f} : noting'[o] = noting[o]
    BY <1>1, Roles DEF Types, LocalTypes, SyncLock, At
  <2>2. \A m \in Mutexes : owner'[m] # None => owner[m] # None \/ PartOf(m) \in l.built
    <3>1. PartOf("emit_mu") \in l.built
      BY <1>1, <1>2, WholeHas DEF LifeInv, PartsHeld, WholeLabels
    <3>2. owner' = owner \/ Lock(f, "emit_mu")
      BY DEF SyncLock
    <3> QED
      BY <1>1, <3>1, <3>2, LockTakes, MutexTypes
  <2>3. \A u \in unproven' :
          u \in unproven \/ (u[1] = f /\ (noting'[f] = "sync" \/ q'.wait_mu_error))
    BY DEF SyncLock
  <2>4. /\ q.wait_mu_error => q'.wait_mu_error
        /\ q'.wait_mu_error => q.wait_mu_error \/ "queue" \in l.built
    BY DEF Types, QueueTypes, QueueFields, SyncLock
  <2> QED
    BY <2>1, <2>2, <2>3, <2>4 DEF LockFrame
<1> QED
  BY <1>1, <1>2, <1>3, <1>4, <1>5, BorrowerLife

\* Sync keeps the lifetimes.
LEMMA SyncLife ==
    ASSUME Types, RecordInv, LifeInv, NEW f \in Flushers, Sync(f)
    PROVE  LifeInv'
<1>1. f \in Borrowers /\ f \in Threads /\ f # Host /\ f # Worker
  BY Roles
<1>2. pc[Host] = "using"
  BY <1>1 DEF Sync, At, LifeInv, LentOnly
<1>3. LoggerFrame
  BY DEF LoggerFrame, Types, LoggerFields, Sync, SyncOutputs
<1>4. pc'[Host] = pc[Host] /\ pc'[Worker] = pc[Worker] /\ result'[Host] = result[Host]
  BY <1>1, Roles DEF Types, PcTypes, LocalTypes, Sync, Go, SyncOutputs
<1>5. LockFrame(f)
  <2>1. noting[f] = "nothing" /\ \A o \in Threads \ {f} : noting'[o] = noting[o]
    BY <1>1, Roles DEF Types, LocalTypes, Sync, At, Note, NoteIf, SyncOutputs
  <2>2. \A m \in Mutexes : owner'[m] # None => owner[m] # None \/ PartOf(m) \in l.built
    BY <1>1, UnlockLeaves, MutexTypes DEF Sync, SyncOutputs
  <2>3. \A u \in unproven' :
          u \in unproven \/ (u[1] = f /\ (noting'[f] = "sync" \/ q'.wait_mu_error))
    BY <1>1, UnlockLeaves, MutexTypes
    DEF Types, LocalTypes, QueueTypes, QueueFields, Sync, SyncOutputs, Note, NoteIf
  <2>4. /\ q.wait_mu_error => q'.wait_mu_error
        /\ q'.wait_mu_error => q.wait_mu_error \/ "queue" \in l.built
    BY DEF Types, QueueTypes, QueueFields, Sync
  <2> QED
    BY <2>1, <2>2, <2>3, <2>4 DEF LockFrame
<1> QED
  BY <1>1, <1>2, <1>3, <1>4, <1>5, BorrowerLife

\* ForceLock keeps the lifetimes, in a producer.
LEMMA ForceLockLentLife ==
    ASSUME Types, RecordInv, LifeInv, NEW p \in Producers, ForceLock(p)
    PROVE  LifeInv'
<1>1. p \in Borrowers /\ p \in Threads /\ p # Host /\ p # Worker
  BY Roles
<1>2. pc[Host] = "using"
  BY <1>1 DEF ForceLock, At, LifeInv, LentOnly
<1>3. LoggerFrame
  BY DEF LoggerFrame, Types, LoggerFields, ForceLock
<1>4. pc'[Host] = pc[Host] /\ pc'[Worker] = pc[Worker] /\ result'[Host] = result[Host]
  BY <1>1, Roles DEF Types, PcTypes, LocalTypes, ForceLock, Go, locals
<1>5. LockFrame(p)
  <2>1. noting[p] = "nothing" /\ \A o \in Threads \ {p} : noting'[o] = noting[o]
    BY <1>1, Roles DEF Types, LocalTypes, ForceLock, At, Note, locals
  <2>2. \A m \in Mutexes : owner'[m] # None => owner[m] # None \/ PartOf(m) \in l.built
    <3>1. PartOf("wait_mu") \in l.built
      BY <1>1, <1>2, WholeHas
      DEF LifeInv, PartsHeld, WholeLabels, RecordInv, QueueUse, AsyncLabels,
          ReservedLabels, ForceLock, At
    <3>2. owner' = owner \/ Lock(p, "wait_mu")
      BY DEF ForceLock
    <3> QED
      BY <1>1, <3>1, <3>2, LockTakes, MutexTypes
  <2>3. \A u \in unproven' :
          u \in unproven \/ (u[1] = p /\ (noting'[p] = "sync" \/ q'.wait_mu_error))
    BY DEF ForceLock
  <2>4. /\ q.wait_mu_error => q'.wait_mu_error
        /\ q'.wait_mu_error => q.wait_mu_error \/ "queue" \in l.built
    BY DEF Types, QueueTypes, QueueFields, ForceLock
  <2> QED
    BY <2>1, <2>2, <2>3, <2>4 DEF LockFrame
<1> QED
  BY <1>1, <1>2, <1>3, <1>4, <1>5, BorrowerLife

\* WakeForce keeps the lifetimes, in a producer.
LEMMA WakeForceLentLife ==
    ASSUME Types, RecordInv, LifeInv, NEW p \in Producers, WakeForce(p)
    PROVE  LifeInv'
<1>1. p \in Borrowers /\ p \in Threads /\ p # Host /\ p # Worker
  BY Roles
<1>2. pc[Host] = "using"
  BY <1>1 DEF WakeForce, At, LifeInv, LentOnly
<1>3. LoggerFrame
  BY DEF LoggerFrame, Types, LoggerFields, WakeForce
<1>4. pc'[Host] = pc[Host] /\ pc'[Worker] = pc[Worker] /\ result'[Host] = result[Host]
  BY <1>1, Roles DEF Types, PcTypes, LocalTypes, WakeForce, Go
<1>5. LockFrame(p)
  <2>1. noting[p] = "nothing" /\ \A o \in Threads \ {p} : noting'[o] = noting[o]
    BY <1>1, Roles DEF Types, LocalTypes, WakeForce, At, Note, NoteIf
  <2>2. \A m \in Mutexes : owner'[m] # None => owner[m] # None \/ PartOf(m) \in l.built
    BY <1>1, UnlockLeaves, MutexTypes DEF WakeForce
  <2>3. \A u \in unproven' :
          u \in unproven \/ (u[1] = p /\ (noting'[p] = "sync" \/ q'.wait_mu_error))
    BY <1>1, UnlockLeaves, MutexTypes
    DEF Types, LocalTypes, QueueTypes, QueueFields, WakeForce, Note, NoteIf
  <2>4. /\ q.wait_mu_error => q'.wait_mu_error
        /\ q'.wait_mu_error => q.wait_mu_error \/ "queue" \in l.built
    <3>1. "queue" \in l.built
      BY <1>1, <1>2, WholeHas
      DEF LifeInv, PartsHeld, WholeLabels, RecordInv, QueueUse, AsyncLabels,
          ReservedLabels, WakeForce, At
    <3> QED
      BY <3>1 DEF Types, QueueTypes, QueueFields, WakeForce
  <2> QED
    BY <2>1, <2>2, <2>3, <2>4 DEF LockFrame
<1> QED
  BY <1>1, <1>2, <1>3, <1>4, <1>5, BorrowerLife

\* ForceFailed keeps the lifetimes, in a producer.
LEMMA ForceFailedLentLife ==
    ASSUME Types, RecordInv, LifeInv, NEW p \in Producers, ForceFailed(p)
    PROVE  LifeInv'
<1>1. p \in Borrowers /\ p \in Threads /\ p # Host /\ p # Worker
  BY Roles
<1>2. pc[Host] = "using"
  BY <1>1 DEF ForceFailed, At, LifeInv, LentOnly
<1>3. LoggerFrame
  BY DEF LoggerFrame, Types, LoggerFields, ForceFailed
<1>4. pc'[Host] = pc[Host] /\ pc'[Worker] = pc[Worker] /\ result'[Host] = result[Host]
  BY <1>1, Roles DEF Types, PcTypes, LocalTypes, ForceFailed, Go
<1>5. LockFrame(p)
  <2>1. noting[p] = "nothing" /\ \A o \in Threads \ {p} : noting'[o] = noting[o]
    BY <1>1, Roles DEF Types, LocalTypes, ForceFailed, At, Note, NoteIf
  <2>2. \A m \in Mutexes : owner'[m] # None => owner[m] # None \/ PartOf(m) \in l.built
    BY DEF Types, SharedTypes, ForceFailed
  <2>3. \A u \in unproven' :
          u \in unproven \/ (u[1] = p /\ (noting'[p] = "sync" \/ q'.wait_mu_error))
    BY DEF ForceFailed
  <2>4. /\ q.wait_mu_error => q'.wait_mu_error
        /\ q'.wait_mu_error => q.wait_mu_error \/ "queue" \in l.built
    BY DEF Types, QueueTypes, QueueFields, ForceFailed
  <2> QED
    BY <2>1, <2>2, <2>3, <2>4 DEF LockFrame
<1> QED
  BY <1>1, <1>2, <1>3, <1>4, <1>5, BorrowerLife

\* Drain keeps the lifetimes.
LEMMA DrainLife ==
    ASSUME Types, RecordInv, LifeInv, Drain
    PROVE  LifeInv'
<1>1. Worker \in Threads /\ pc[Worker] \notin {"none", "exited"} /\ l.async_mode
  BY Roles DEF Drain, At, LifeInv, WorkerLife
<1>2. Whole
  BY <1>1 DEF LifeInv, PartsHeld
<1>3. LoggerFrame
  BY DEF LoggerFrame, Types, LoggerFields, Drain
<1>4. pc'[Worker] # "none" /\ (\A t \in Threads \ {Worker} : pc'[t] = pc[t]) /\ result' = result
  BY <1>1 DEF Types, PcTypes, Drain, At
<1>5. LockFrame(Worker)
  <2>1. noting[Worker] = "nothing" /\ \A o \in Threads \ {Worker} : noting'[o] = noting[o]
    BY <1>1, Roles DEF Types, LocalTypes, Drain, At
  <2>2. \A m \in Mutexes : owner'[m] # None => owner[m] # None \/ PartOf(m) \in l.built
    BY DEF Types, SharedTypes, Drain
  <2>3. \A u \in unproven' :
          u \in unproven \/ (u[1] = Worker /\ (noting'[Worker] = "sync" \/ q'.wait_mu_error))
    BY DEF Drain
  <2>4. /\ q.wait_mu_error => q'.wait_mu_error
        /\ q'.wait_mu_error => q.wait_mu_error \/ "queue" \in l.built
    BY DEF Types, QueueTypes, QueueFields, Drain
  <2> QED
    BY <2>1, <2>2, <2>3, <2>4 DEF LockFrame
<1>6. pc'[Worker] \in EndLabels =>
        \/ pc[Worker] \in EndLabels \/ noting'[Worker] # "nothing"
        \/ l.synchronization_error \/ ~l.running
  BY Roles DEF Types, PcTypes, LocalTypes, EndLabels, Drain, At
<1> QED
  BY <1>1, <1>3, <1>4, <1>5, <1>6, WorkerStepLife

\* DrainEnd keeps the lifetimes.
LEMMA DrainEndLife ==
    ASSUME Types, RecordInv, LifeInv, DrainEnd
    PROVE  LifeInv'
<1>1. Worker \in Threads /\ pc[Worker] \notin {"none", "exited"} /\ l.async_mode
  BY Roles DEF DrainEnd, At, LifeInv, WorkerLife
<1>2. Whole
  BY <1>1 DEF LifeInv, PartsHeld
<1>3. LoggerFrame
  BY DEF LoggerFrame, Types, LoggerFields, DrainEnd
<1>4. pc'[Worker] # "none" /\ (\A t \in Threads \ {Worker} : pc'[t] = pc[t]) /\ result' = result
  BY <1>1 DEF Types, PcTypes, DrainEnd, Go, At, locals
<1>5. LockFrame(Worker)
  <2>1. noting[Worker] = "nothing" /\ \A o \in Threads \ {Worker} : noting'[o] = noting[o]
    BY <1>1, Roles DEF Types, LocalTypes, DrainEnd, At, locals
  <2>2. \A m \in Mutexes : owner'[m] # None => owner[m] # None \/ PartOf(m) \in l.built
    BY DEF Types, SharedTypes, DrainEnd
  <2>3. \A u \in unproven' :
          u \in unproven \/ (u[1] = Worker /\ (noting'[Worker] = "sync" \/ q'.wait_mu_error))
    BY DEF DrainEnd
  <2>4. /\ q.wait_mu_error => q'.wait_mu_error
        /\ q'.wait_mu_error => q.wait_mu_error \/ "queue" \in l.built
    BY DEF Types, QueueTypes, QueueFields, DrainEnd
  <2> QED
    BY <2>1, <2>2, <2>3, <2>4 DEF LockFrame
<1>6. pc'[Worker] \in EndLabels =>
        \/ pc[Worker] \in EndLabels \/ noting'[Worker] # "nothing"
        \/ l.synchronization_error \/ ~l.running
  BY Roles DEF Types, PcTypes, LocalTypes, EndLabels, DrainEnd, Go, At
<1> QED
  BY <1>1, <1>3, <1>4, <1>5, <1>6, WorkerStepLife

\* BatchFormat keeps the lifetimes.
LEMMA BatchFormatLife ==
    ASSUME Types, RecordInv, LifeInv, BatchFormat
    PROVE  LifeInv'
<1>1. Worker \in Threads /\ pc[Worker] \notin {"none", "exited"} /\ l.async_mode
  BY Roles DEF BatchFormat, At, LifeInv, WorkerLife
<1>2. Whole
  BY <1>1 DEF LifeInv, PartsHeld
<1>3. LoggerFrame
  BY DEF LoggerFrame, Types, LoggerFields, BatchFormat
<1>4. pc'[Worker] # "none" /\ (\A t \in Threads \ {Worker} : pc'[t] = pc[t]) /\ result' = result
  BY <1>1 DEF Types, PcTypes, BatchFormat, Go, At, locals
<1>5. LockFrame(Worker)
  <2>1. noting[Worker] = "nothing" /\ \A o \in Threads \ {Worker} : noting'[o] = noting[o]
    BY <1>1, Roles DEF Types, LocalTypes, BatchFormat, At, locals
  <2>2. \A m \in Mutexes : owner'[m] # None => owner[m] # None \/ PartOf(m) \in l.built
    BY DEF Types, SharedTypes, BatchFormat
  <2>3. \A u \in unproven' :
          u \in unproven \/ (u[1] = Worker /\ (noting'[Worker] = "sync" \/ q'.wait_mu_error))
    BY DEF BatchFormat
  <2>4. /\ q.wait_mu_error => q'.wait_mu_error
        /\ q'.wait_mu_error => q.wait_mu_error \/ "queue" \in l.built
    BY DEF Types, QueueTypes, QueueFields, BatchFormat
  <2> QED
    BY <2>1, <2>2, <2>3, <2>4 DEF LockFrame
<1>6. pc'[Worker] \in EndLabels =>
        \/ pc[Worker] \in EndLabels \/ noting'[Worker] # "nothing"
        \/ l.synchronization_error \/ ~l.running
  BY Roles DEF Types, PcTypes, LocalTypes, EndLabels, BatchFormat, Go, At
<1> QED
  BY <1>1, <1>3, <1>4, <1>5, <1>6, WorkerStepLife

\* BatchLock keeps the lifetimes.
LEMMA BatchLockLife ==
    ASSUME Types, RecordInv, LifeInv, BatchLock
    PROVE  LifeInv'
<1>1. Worker \in Threads /\ pc[Worker] \notin {"none", "exited"} /\ l.async_mode
  BY Roles DEF BatchLock, At, LifeInv, WorkerLife
<1>2. Whole
  BY <1>1 DEF LifeInv, PartsHeld
<1>3. LoggerFrame
  BY DEF LoggerFrame, Types, LoggerFields, BatchLock
<1>4. pc'[Worker] # "none" /\ (\A t \in Threads \ {Worker} : pc'[t] = pc[t]) /\ result' = result
  BY <1>1 DEF Types, PcTypes, BatchLock, Go, At, locals
<1>5. LockFrame(Worker)
  <2>1. noting[Worker] = "nothing" /\ \A o \in Threads \ {Worker} : noting'[o] = noting[o]
    BY <1>1, Roles DEF Types, LocalTypes, BatchLock, At, Note, locals
  <2>2. \A m \in Mutexes : owner'[m] # None => owner[m] # None \/ PartOf(m) \in l.built
    <3>1. PartOf("emit_mu") \in l.built
      BY <1>1, <1>2, WholeHas DEF LifeInv, PartsHeld, WholeLabels
    <3>2. owner' = owner \/ Lock(Worker, "emit_mu")
      BY DEF BatchLock
    <3> QED
      BY <1>1, <3>1, <3>2, LockTakes, MutexTypes
  <2>3. \A u \in unproven' :
          u \in unproven \/ (u[1] = Worker /\ (noting'[Worker] = "sync" \/ q'.wait_mu_error))
    BY DEF BatchLock
  <2>4. /\ q.wait_mu_error => q'.wait_mu_error
        /\ q'.wait_mu_error => q.wait_mu_error \/ "queue" \in l.built
    BY DEF Types, QueueTypes, QueueFields, BatchLock
  <2> QED
    BY <2>1, <2>2, <2>3, <2>4 DEF LockFrame
<1>6. pc'[Worker] \in EndLabels =>
        \/ pc[Worker] \in EndLabels \/ noting'[Worker] # "nothing"
        \/ l.synchronization_error \/ ~l.running
  BY Roles DEF Types, PcTypes, LocalTypes, EndLabels, BatchLock, Go, At, Note
<1> QED
  BY <1>1, <1>3, <1>4, <1>5, <1>6, WorkerStepLife

\* EmitBatch keeps the lifetimes.
LEMMA EmitBatchLife ==
    ASSUME Types, RecordInv, LifeInv, EmitBatch
    PROVE  LifeInv'
<1>1. Worker \in Threads /\ pc[Worker] \notin {"none", "exited"} /\ l.async_mode
  BY Roles DEF EmitBatch, At, LifeInv, WorkerLife
<1>2. Whole
  BY <1>1 DEF LifeInv, PartsHeld
<1>3. LoggerFrame
  BY DEF LoggerFrame, Types, LoggerFields, EmitBatch
<1>4. pc'[Worker] # "none" /\ (\A t \in Threads \ {Worker} : pc'[t] = pc[t]) /\ result' = result
  BY <1>1 DEF Types, PcTypes, EmitBatch, Go, At, locals
<1>5. LockFrame(Worker)
  <2>1. noting[Worker] = "nothing" /\ \A o \in Threads \ {Worker} : noting'[o] = noting[o]
    BY <1>1, Roles DEF Types, LocalTypes, EmitBatch, At, Note, NoteIf, locals
  <2>2. \A m \in Mutexes : owner'[m] # None => owner[m] # None \/ PartOf(m) \in l.built
    BY <1>1, UnlockLeaves, MutexTypes DEF EmitBatch
  <2>3. \A u \in unproven' :
          u \in unproven \/ (u[1] = Worker /\ (noting'[Worker] = "sync" \/ q'.wait_mu_error))
    BY <1>1, UnlockLeaves, MutexTypes
    DEF Types, LocalTypes, QueueTypes, QueueFields, EmitBatch, Note, NoteIf
  <2>4. /\ q.wait_mu_error => q'.wait_mu_error
        /\ q'.wait_mu_error => q.wait_mu_error \/ "queue" \in l.built
    BY DEF Types, QueueTypes, QueueFields, EmitBatch
  <2> QED
    BY <2>1, <2>2, <2>3, <2>4 DEF LockFrame
<1>6. pc'[Worker] \in EndLabels =>
        \/ pc[Worker] \in EndLabels \/ noting'[Worker] # "nothing"
        \/ l.synchronization_error \/ ~l.running
  BY Roles DEF Types, PcTypes, LocalTypes, EndLabels, EmitBatch, Go, At, Note, NoteIf
<1> QED
  BY <1>1, <1>3, <1>4, <1>5, <1>6, WorkerStepLife

\* BatchDone keeps the lifetimes.
LEMMA BatchDoneLife ==
    ASSUME Types, RecordInv, LifeInv, BatchDone
    PROVE  LifeInv'
<1>1. Worker \in Threads /\ pc[Worker] \notin {"none", "exited"} /\ l.async_mode
  BY Roles DEF BatchDone, At, LifeInv, WorkerLife
<1>2. Whole
  BY <1>1 DEF LifeInv, PartsHeld
<1>3. LoggerFrame
  BY DEF LoggerFrame, Types, LoggerFields, BatchDone
<1>4. pc'[Worker] # "none" /\ (\A t \in Threads \ {Worker} : pc'[t] = pc[t]) /\ result' = result
  BY <1>1 DEF Types, PcTypes, BatchDone, Go, At
<1>5. LockFrame(Worker)
  <2>1. noting[Worker] = "nothing" /\ \A o \in Threads \ {Worker} : noting'[o] = noting[o]
    BY <1>1, Roles DEF Types, LocalTypes, BatchDone, At
  <2>2. \A m \in Mutexes : owner'[m] # None => owner[m] # None \/ PartOf(m) \in l.built
    BY DEF Types, SharedTypes, BatchDone
  <2>3. \A u \in unproven' :
          u \in unproven \/ (u[1] = Worker /\ (noting'[Worker] = "sync" \/ q'.wait_mu_error))
    BY DEF BatchDone
  <2>4. /\ q.wait_mu_error => q'.wait_mu_error
        /\ q'.wait_mu_error => q.wait_mu_error \/ "queue" \in l.built
    BY DEF Types, QueueTypes, QueueFields, BatchDone
  <2> QED
    BY <2>1, <2>2, <2>3, <2>4 DEF LockFrame
<1>6. pc'[Worker] \in EndLabels =>
        \/ pc[Worker] \in EndLabels \/ noting'[Worker] # "nothing"
        \/ l.synchronization_error \/ ~l.running
  BY Roles DEF Types, PcTypes, LocalTypes, EndLabels, BatchDone, Go, At
<1> QED
  BY <1>1, <1>3, <1>4, <1>5, <1>6, WorkerStepLife

\* ProgressLock keeps the lifetimes.
LEMMA ProgressLockLife ==
    ASSUME Types, RecordInv, LifeInv, ProgressLock
    PROVE  LifeInv'
<1>1. Worker \in Threads /\ pc[Worker] \notin {"none", "exited"} /\ l.async_mode
  BY Roles DEF ProgressLock, At, LifeInv, WorkerLife
<1>2. Whole
  BY <1>1 DEF LifeInv, PartsHeld
<1>3. LoggerFrame
  BY DEF LoggerFrame, Types, LoggerFields, ProgressLock
<1>4. pc'[Worker] # "none" /\ (\A t \in Threads \ {Worker} : pc'[t] = pc[t]) /\ result' = result
  BY <1>1 DEF Types, PcTypes, ProgressLock, Go, At, locals
<1>5. LockFrame(Worker)
  <2>1. noting[Worker] = "nothing" /\ \A o \in Threads \ {Worker} : noting'[o] = noting[o]
    BY <1>1, Roles DEF Types, LocalTypes, ProgressLock, At, Note, locals
  <2>2. \A m \in Mutexes : owner'[m] # None => owner[m] # None \/ PartOf(m) \in l.built
    <3>1. PartOf("progress_mu") \in l.built
      BY <1>1, <1>2, WholeHas DEF LifeInv, PartsHeld, WholeLabels
    <3>2. owner' = owner \/ Lock(Worker, "progress_mu")
      BY DEF ProgressLock
    <3> QED
      BY <1>1, <3>1, <3>2, LockTakes, MutexTypes
  <2>3. \A u \in unproven' :
          u \in unproven \/ (u[1] = Worker /\ (noting'[Worker] = "sync" \/ q'.wait_mu_error))
    BY DEF ProgressLock
  <2>4. /\ q.wait_mu_error => q'.wait_mu_error
        /\ q'.wait_mu_error => q.wait_mu_error \/ "queue" \in l.built
    BY DEF Types, QueueTypes, QueueFields, ProgressLock
  <2> QED
    BY <2>1, <2>2, <2>3, <2>4 DEF LockFrame
<1>6. pc'[Worker] \in EndLabels =>
        \/ pc[Worker] \in EndLabels \/ noting'[Worker] # "nothing"
        \/ l.synchronization_error \/ ~l.running
  BY Roles DEF Types, PcTypes, LocalTypes, EndLabels, ProgressLock, Go, At, Note
<1> QED
  BY <1>1, <1>3, <1>4, <1>5, <1>6, WorkerStepLife

\* Progress keeps the lifetimes.
LEMMA ProgressLife ==
    ASSUME Types, RecordInv, LifeInv, Progress
    PROVE  LifeInv'
<1>1. Worker \in Threads /\ pc[Worker] \notin {"none", "exited"} /\ l.async_mode
  BY Roles DEF Progress, At, LifeInv, WorkerLife
<1>2. Whole
  BY <1>1 DEF LifeInv, PartsHeld
<1>3. LoggerFrame
  BY DEF LoggerFrame, Types, LoggerFields, Progress
<1>4. pc'[Worker] # "none" /\ (\A t \in Threads \ {Worker} : pc'[t] = pc[t]) /\ result' = result
  BY <1>1 DEF Types, PcTypes, Progress, Go, At, locals
<1>5. LockFrame(Worker)
  <2>1. noting[Worker] = "nothing" /\ \A o \in Threads \ {Worker} : noting'[o] = noting[o]
    BY <1>1, Roles DEF Types, LocalTypes, Progress, At, Note, NoteIf, locals
  <2>2. \A m \in Mutexes : owner'[m] # None => owner[m] # None \/ PartOf(m) \in l.built
    BY <1>1, UnlockLeaves, MutexTypes DEF Progress
  <2>3. \A u \in unproven' :
          u \in unproven \/ (u[1] = Worker /\ (noting'[Worker] = "sync" \/ q'.wait_mu_error))
    <3>1. PICK hit : Unlock(Worker, "progress_mu", hit) /\ NoteIf(Worker, hit # {}, "sync")
      BY DEF Progress
    <3>2. <<"unlock", "progress_mu">> \in hit => noting'[Worker] = "sync"
      BY <1>1, <3>1 DEF Types, LocalTypes, NoteIf, Note
    <3> QED
      BY <1>1, <3>1, <3>2, UnlockLeaves, MutexTypes
  <2>4. /\ q.wait_mu_error => q'.wait_mu_error
        /\ q'.wait_mu_error => q.wait_mu_error \/ "queue" \in l.built
    BY DEF Types, QueueTypes, QueueFields, Progress
  <2> QED
    BY <2>1, <2>2, <2>3, <2>4 DEF LockFrame
<1>6. pc'[Worker] \in EndLabels =>
        \/ pc[Worker] \in EndLabels \/ noting'[Worker] # "nothing"
        \/ l.synchronization_error \/ ~l.running
  BY Roles DEF Types, PcTypes, LocalTypes, EndLabels, Progress, Go, At, Note, NoteIf
<1> QED
  BY <1>1, <1>3, <1>4, <1>5, <1>6, WorkerStepLife

\* WaitLock keeps the lifetimes.
LEMMA WaitLockLife ==
    ASSUME Types, RecordInv, LifeInv, WaitLock
    PROVE  LifeInv'
<1>1. Worker \in Threads /\ pc[Worker] \notin {"none", "exited"} /\ l.async_mode
  BY Roles DEF WaitLock, At, LifeInv, WorkerLife
<1>2. Whole
  BY <1>1 DEF LifeInv, PartsHeld
<1>3. LoggerFrame
  BY DEF LoggerFrame, Types, LoggerFields, WaitLock
<1>4. pc'[Worker] # "none" /\ (\A t \in Threads \ {Worker} : pc'[t] = pc[t]) /\ result' = result
  BY <1>1 DEF Types, PcTypes, WaitLock, Go, At, locals
<1>5. LockFrame(Worker)
  <2>1. noting[Worker] = "nothing" /\ \A o \in Threads \ {Worker} : noting'[o] = noting[o]
    BY <1>1, Roles DEF Types, LocalTypes, WaitLock, At, Note, locals
  <2>2. \A m \in Mutexes : owner'[m] # None => owner[m] # None \/ PartOf(m) \in l.built
    <3>1. PartOf("wait_mu") \in l.built
      BY <1>1, <1>2, WholeHas DEF LifeInv, PartsHeld, WholeLabels
    <3>2. owner' = owner \/ Lock(Worker, "wait_mu")
      BY DEF WaitLock
    <3> QED
      BY <1>1, <3>1, <3>2, LockTakes, MutexTypes
  <2>3. \A u \in unproven' :
          u \in unproven \/ (u[1] = Worker /\ (noting'[Worker] = "sync" \/ q'.wait_mu_error))
    BY DEF WaitLock
  <2>4. /\ q.wait_mu_error => q'.wait_mu_error
        /\ q'.wait_mu_error => q.wait_mu_error \/ "queue" \in l.built
    BY DEF Types, QueueTypes, QueueFields, WaitLock
  <2> QED
    BY <2>1, <2>2, <2>3, <2>4 DEF LockFrame
<1>6. pc'[Worker] \in EndLabels =>
        \/ pc[Worker] \in EndLabels \/ noting'[Worker] # "nothing"
        \/ l.synchronization_error \/ ~l.running
  BY Roles DEF Types, PcTypes, LocalTypes, EndLabels, WaitLock, Go, At, Note
<1> QED
  BY <1>1, <1>3, <1>4, <1>5, <1>6, WorkerStepLife

\* WaitTest keeps the lifetimes.
LEMMA WaitTestLife ==
    ASSUME Types, RecordInv, LifeInv, WaitTest
    PROVE  LifeInv'
<1>1. Worker \in Threads /\ pc[Worker] \notin {"none", "exited"} /\ l.async_mode
  BY Roles DEF WaitTest, At, LifeInv, WorkerLife
<1>2. Whole
  BY <1>1 DEF LifeInv, PartsHeld
<1>3. LoggerFrame
  BY DEF LoggerFrame, Types, LoggerFields, WaitTest
<1>4. pc'[Worker] # "none" /\ (\A t \in Threads \ {Worker} : pc'[t] = pc[t]) /\ result' = result
  BY <1>1 DEF Types, PcTypes, WaitTest, Go, At, locals
<1>5. LockFrame(Worker)
  <2>1. noting[Worker] = "nothing" /\ \A o \in Threads \ {Worker} : noting'[o] = noting[o]
    BY <1>1, Roles DEF Types, LocalTypes, WaitTest, At, locals
  <2>2. \A m \in Mutexes : owner'[m] # None => owner[m] # None \/ PartOf(m) \in l.built
    BY DEF Types, SharedTypes, WaitTest
  <2>3. \A u \in unproven' :
          u \in unproven \/ (u[1] = Worker /\ (noting'[Worker] = "sync" \/ q'.wait_mu_error))
    BY DEF WaitTest
  <2>4. /\ q.wait_mu_error => q'.wait_mu_error
        /\ q'.wait_mu_error => q.wait_mu_error \/ "queue" \in l.built
    BY DEF Types, QueueTypes, QueueFields, WaitTest
  <2> QED
    BY <2>1, <2>2, <2>3, <2>4 DEF LockFrame
<1>6. pc'[Worker] \in EndLabels =>
        \/ pc[Worker] \in EndLabels \/ noting'[Worker] # "nothing"
        \/ l.synchronization_error \/ ~l.running
  BY Roles DEF Types, PcTypes, LocalTypes, EndLabels, WaitTest, Go, At
<1> QED
  BY <1>1, <1>3, <1>4, <1>5, <1>6, WorkerStepLife

\* WaitRetest keeps the lifetimes.
LEMMA WaitRetestLife ==
    ASSUME Types, RecordInv, LifeInv, WaitRetest
    PROVE  LifeInv'
<1>1. Worker \in Threads /\ pc[Worker] \notin {"none", "exited"} /\ l.async_mode
  BY Roles DEF WaitRetest, At, LifeInv, WorkerLife
<1>2. Whole
  BY <1>1 DEF LifeInv, PartsHeld
<1>3. LoggerFrame
  BY DEF LoggerFrame, Types, LoggerFields, WaitRetest
<1>4. pc'[Worker] # "none" /\ (\A t \in Threads \ {Worker} : pc'[t] = pc[t]) /\ result' = result
  BY <1>1 DEF Types, PcTypes, WaitRetest, Go, At, locals
<1>5. LockFrame(Worker)
  <2>1. noting[Worker] = "nothing" /\ \A o \in Threads \ {Worker} : noting'[o] = noting[o]
    BY <1>1, Roles DEF Types, LocalTypes, WaitRetest, At, Note, locals
  <2>2. \A m \in Mutexes : owner'[m] # None => owner[m] # None \/ PartOf(m) \in l.built
    BY DEF Types, SharedTypes, WaitRetest
  <2>3. \A u \in unproven' :
          u \in unproven \/ (u[1] = Worker /\ (noting'[Worker] = "sync" \/ q'.wait_mu_error))
    BY DEF WaitRetest
  <2>4. /\ q.wait_mu_error => q'.wait_mu_error
        /\ q'.wait_mu_error => q.wait_mu_error \/ "queue" \in l.built
    BY DEF Types, QueueTypes, QueueFields, WaitRetest
  <2> QED
    BY <2>1, <2>2, <2>3, <2>4 DEF LockFrame
<1>6. pc'[Worker] \in EndLabels =>
        \/ pc[Worker] \in EndLabels \/ noting'[Worker] # "nothing"
        \/ l.synchronization_error \/ ~l.running
  BY Roles DEF Types, PcTypes, LocalTypes, EndLabels, WaitRetest, Go, At, Note
<1> QED
  BY <1>1, <1>3, <1>4, <1>5, <1>6, WorkerStepLife

\* WaitAwake keeps the lifetimes.
LEMMA WaitAwakeLife ==
    ASSUME Types, RecordInv, LifeInv, WaitAwake
    PROVE  LifeInv'
<1>1. Worker \in Threads /\ pc[Worker] \notin {"none", "exited"} /\ l.async_mode
  BY Roles DEF WaitAwake, At, LifeInv, WorkerLife
<1>2. Whole
  BY <1>1 DEF LifeInv, PartsHeld
<1>3. LoggerFrame
  BY DEF LoggerFrame, Types, LoggerFields, WaitAwake
<1>4. pc'[Worker] # "none" /\ (\A t \in Threads \ {Worker} : pc'[t] = pc[t]) /\ result' = result
  BY <1>1 DEF Types, PcTypes, WaitAwake, Go, At, locals
<1>5. LockFrame(Worker)
  <2>1. noting[Worker] = "nothing" /\ \A o \in Threads \ {Worker} : noting'[o] = noting[o]
    BY <1>1, Roles DEF Types, LocalTypes, WaitAwake, At, locals
  <2>2. \A m \in Mutexes : owner'[m] # None => owner[m] # None \/ PartOf(m) \in l.built
    <3>1. PartOf("wait_mu") \in l.built
      BY <1>1, <1>2, WholeHas DEF LifeInv, PartsHeld, WholeLabels
    <3>2. owner' = owner \/ Lock(Worker, "wait_mu")
      BY DEF WaitAwake
    <3> QED
      BY <1>1, <3>1, <3>2, LockTakes, MutexTypes
  <2>3. \A u \in unproven' :
          u \in unproven \/ (u[1] = Worker /\ (noting'[Worker] = "sync" \/ q'.wait_mu_error))
    BY DEF WaitAwake
  <2>4. /\ q.wait_mu_error => q'.wait_mu_error
        /\ q'.wait_mu_error => q.wait_mu_error \/ "queue" \in l.built
    BY DEF Types, QueueTypes, QueueFields, WaitAwake
  <2> QED
    BY <2>1, <2>2, <2>3, <2>4 DEF LockFrame
<1>6. pc'[Worker] \in EndLabels =>
        \/ pc[Worker] \in EndLabels \/ noting'[Worker] # "nothing"
        \/ l.synchronization_error \/ ~l.running
  BY Roles DEF Types, PcTypes, LocalTypes, EndLabels, WaitAwake, Go, At
<1> QED
  BY <1>1, <1>3, <1>4, <1>5, <1>6, WorkerStepLife

\* WaitEnd keeps the lifetimes.
LEMMA WaitEndLife ==
    ASSUME Types, RecordInv, LifeInv, WaitEnd
    PROVE  LifeInv'
<1>1. Worker \in Threads /\ pc[Worker] \notin {"none", "exited"} /\ l.async_mode
  BY Roles DEF WaitEnd, At, LifeInv, WorkerLife
<1>2. Whole
  BY <1>1 DEF LifeInv, PartsHeld
<1>3. LoggerFrame
  BY DEF LoggerFrame, Types, LoggerFields, WaitEnd
<1>4. pc'[Worker] # "none" /\ (\A t \in Threads \ {Worker} : pc'[t] = pc[t]) /\ result' = result
  BY <1>1 DEF Types, PcTypes, WaitEnd, Go, At, locals
<1>5. LockFrame(Worker)
  <2>1. noting[Worker] = "nothing" /\ \A o \in Threads \ {Worker} : noting'[o] = noting[o]
    BY <1>1, Roles DEF Types, LocalTypes, WaitEnd, At, Note, NoteIf, locals
  <2>2. \A m \in Mutexes : owner'[m] # None => owner[m] # None \/ PartOf(m) \in l.built
    BY <1>1, UnlockLeaves, MutexTypes DEF WaitEnd
  <2>3. \A u \in unproven' :
          u \in unproven \/ (u[1] = Worker /\ (noting'[Worker] = "sync" \/ q'.wait_mu_error))
    <3>1. PICK hit : Unlock(Worker, "wait_mu", hit) /\ NoteIf(Worker, hit # {}, "sync")
      BY DEF WaitEnd
    <3>2. <<"unlock", "wait_mu">> \in hit => noting'[Worker] = "sync"
      BY <1>1, <3>1 DEF Types, LocalTypes, NoteIf, Note
    <3> QED
      BY <1>1, <3>1, <3>2, UnlockLeaves, MutexTypes
  <2>4. /\ q.wait_mu_error => q'.wait_mu_error
        /\ q'.wait_mu_error => q.wait_mu_error \/ "queue" \in l.built
    BY DEF Types, QueueTypes, QueueFields, WaitEnd
  <2> QED
    BY <2>1, <2>2, <2>3, <2>4 DEF LockFrame
<1>6. pc'[Worker] \in EndLabels =>
        \/ pc[Worker] \in EndLabels \/ noting'[Worker] # "nothing"
        \/ l.synchronization_error \/ ~l.running
  BY Roles DEF Types, PcTypes, LocalTypes, EndLabels, WaitEnd, Go, At, Note, NoteIf
<1> QED
  BY <1>1, <1>3, <1>4, <1>5, <1>6, WorkerStepLife

\* Final keeps the lifetimes.
LEMMA FinalLife ==
    ASSUME Types, RecordInv, LifeInv, Final
    PROVE  LifeInv'
<1>1. Worker \in Threads /\ pc[Worker] \notin {"none", "exited"} /\ l.async_mode
  BY Roles DEF Final, At, LifeInv, WorkerLife
<1>2. Whole
  BY <1>1 DEF LifeInv, PartsHeld
<1>3. LoggerFrame
  BY DEF LoggerFrame, Types, LoggerFields, Final
<1>4. pc'[Worker] # "none" /\ (\A t \in Threads \ {Worker} : pc'[t] = pc[t]) /\ result' = result
  BY <1>1 DEF Types, PcTypes, Final, Go, At, locals
<1>5. LockFrame(Worker)
  <2>1. noting[Worker] = "nothing" /\ \A o \in Threads \ {Worker} : noting'[o] = noting[o]
    BY <1>1, Roles DEF Types, LocalTypes, Final, At, locals
  <2>2. \A m \in Mutexes : owner'[m] # None => owner[m] # None \/ PartOf(m) \in l.built
    BY DEF Types, SharedTypes, Final
  <2>3. \A u \in unproven' :
          u \in unproven \/ (u[1] = Worker /\ (noting'[Worker] = "sync" \/ q'.wait_mu_error))
    BY DEF Final
  <2>4. /\ q.wait_mu_error => q'.wait_mu_error
        /\ q'.wait_mu_error => q.wait_mu_error \/ "queue" \in l.built
    BY DEF Types, QueueTypes, QueueFields, Final
  <2> QED
    BY <2>1, <2>2, <2>3, <2>4 DEF LockFrame
<1>6. pc'[Worker] \in EndLabels =>
        \/ pc[Worker] \in EndLabels \/ noting'[Worker] # "nothing"
        \/ l.synchronization_error \/ ~l.running
  BY Roles DEF Types, PcTypes, LocalTypes, EndLabels, Final, Go, At
<1> QED
  BY <1>1, <1>3, <1>4, <1>5, <1>6, WorkerStepLife

\* FinalLock keeps the lifetimes.
LEMMA FinalLockLife ==
    ASSUME Types, RecordInv, LifeInv, FinalLock
    PROVE  LifeInv'
<1>1. Worker \in Threads /\ pc[Worker] \notin {"none", "exited"} /\ l.async_mode
  BY Roles DEF FinalLock, At, LifeInv, WorkerLife
<1>2. Whole
  BY <1>1 DEF LifeInv, PartsHeld
<1>3. LoggerFrame
  BY DEF LoggerFrame, Types, LoggerFields, FinalLock
<1>4. pc'[Worker] # "none" /\ (\A t \in Threads \ {Worker} : pc'[t] = pc[t]) /\ result' = result
  BY <1>1 DEF Types, PcTypes, FinalLock, Go, At, locals
<1>5. LockFrame(Worker)
  <2>1. noting[Worker] = "nothing" /\ \A o \in Threads \ {Worker} : noting'[o] = noting[o]
    BY <1>1, Roles DEF Types, LocalTypes, FinalLock, At, Note, locals
  <2>2. \A m \in Mutexes : owner'[m] # None => owner[m] # None \/ PartOf(m) \in l.built
    <3>1. PartOf("progress_mu") \in l.built
      BY <1>1, <1>2, WholeHas DEF LifeInv, PartsHeld, WholeLabels
    <3>2. owner' = owner \/ Lock(Worker, "progress_mu")
      BY DEF FinalLock
    <3> QED
      BY <1>1, <3>1, <3>2, LockTakes, MutexTypes
  <2>3. \A u \in unproven' :
          u \in unproven \/ (u[1] = Worker /\ (noting'[Worker] = "sync" \/ q'.wait_mu_error))
    BY DEF FinalLock
  <2>4. /\ q.wait_mu_error => q'.wait_mu_error
        /\ q'.wait_mu_error => q.wait_mu_error \/ "queue" \in l.built
    BY DEF Types, QueueTypes, QueueFields, FinalLock
  <2> QED
    BY <2>1, <2>2, <2>3, <2>4 DEF LockFrame
<1>6. pc'[Worker] \in EndLabels =>
        \/ pc[Worker] \in EndLabels \/ noting'[Worker] # "nothing"
        \/ l.synchronization_error \/ ~l.running
  BY Roles DEF Types, PcTypes, LocalTypes, EndLabels, FinalLock, Go, At, Note
<1> QED
  BY <1>1, <1>3, <1>4, <1>5, <1>6, WorkerStepLife

\* Broadcast keeps the lifetimes.
LEMMA BroadcastLife ==
    ASSUME Types, RecordInv, LifeInv, Broadcast
    PROVE  LifeInv'
<1>1. Worker \in Threads /\ pc[Worker] \notin {"none", "exited"} /\ l.async_mode
  BY Roles DEF Broadcast, At, LifeInv, WorkerLife
<1>2. Whole
  BY <1>1 DEF LifeInv, PartsHeld
<1>3. LoggerFrame
  BY DEF LoggerFrame, Types, LoggerFields, Broadcast
<1>4. pc'[Worker] # "none" /\ (\A t \in Threads \ {Worker} : pc'[t] = pc[t]) /\ result' = result
  BY <1>1 DEF Types, PcTypes, Broadcast, Go, At, locals
<1>5. LockFrame(Worker)
  <2>1. noting[Worker] = "nothing" /\ \A o \in Threads \ {Worker} : noting'[o] = noting[o]
    BY <1>1, Roles DEF Types, LocalTypes, Broadcast, At, Note, NoteIf, locals
  <2>2. \A m \in Mutexes : owner'[m] # None => owner[m] # None \/ PartOf(m) \in l.built
    BY <1>1, UnlockLeaves, MutexTypes DEF Broadcast
  <2>3. \A u \in unproven' :
          u \in unproven \/ (u[1] = Worker /\ (noting'[Worker] = "sync" \/ q'.wait_mu_error))
    <3>1. PICK hit : Unlock(Worker, "progress_mu", hit) /\ NoteIf(Worker, hit # {}, "sync")
      BY DEF Broadcast
    <3>2. <<"unlock", "progress_mu">> \in hit => noting'[Worker] = "sync"
      BY <1>1, <3>1 DEF Types, LocalTypes, NoteIf, Note
    <3> QED
      BY <1>1, <3>1, <3>2, UnlockLeaves, MutexTypes
  <2>4. /\ q.wait_mu_error => q'.wait_mu_error
        /\ q'.wait_mu_error => q.wait_mu_error \/ "queue" \in l.built
    BY DEF Types, QueueTypes, QueueFields, Broadcast
  <2> QED
    BY <2>1, <2>2, <2>3, <2>4 DEF LockFrame
<1>6. pc'[Worker] \in EndLabels =>
        \/ pc[Worker] \in EndLabels \/ noting'[Worker] # "nothing"
        \/ l.synchronization_error \/ ~l.running
  BY Roles DEF Types, PcTypes, LocalTypes, EndLabels, Broadcast, Go, At, Note, NoteIf
<1> QED
  BY <1>1, <1>3, <1>4, <1>5, <1>6, WorkerStepLife

-----------------------------------------------------------------------------
(* The steps of the host, and of a thread recording an error               *)

\* Acquire keeps the lifetimes: no thread but the host has seen the logger.
LEMMA AcquireLife ==
    ASSUME Types, RecordInv, LifeInv, Acquire
    PROVE  LifeInv'
<1>1. /\ pc[Host] = "create" /\ noting[Host] = "nothing" /\ pc[Worker] = "none"
      /\ unproven = {} /\ unproven' = {} /\ owner' = owner
  BY DEF Acquire, At, LifeInv, WorkerLife, LocksHeld
<1>2. /\ pc'[Worker] = "none"
      /\ \A t \in Threads \ {Host} : pc'[t] = pc[t] /\ noting'[t] = noting[t]
  <2>1. pc' = pc \/ Go(Host, "rollback")
    BY DEF Acquire
  <2>2. noting' = noting \/ Note(Host, "sync")
    BY DEF Acquire, NoteIf
  <2> QED
    BY <1>1, <2>1, <2>2, Roles DEF Types, PcTypes, LocalTypes, Go, Note
<1>3. /\ l.built \subseteq l'.built /\ l'.async_mode = l.async_mode /\ l'.state = l.state
      /\ l'.running = l.running /\ l'.synchronization_error = l.synchronization_error
  <2>1. l' = l \/ \E part, late : l' = [l EXCEPT !.built = @ \cup {part}, !.first_error = late]
    BY DEF Acquire
  <2>2. CASE l' = l
    BY <2>2
  <2>3. ASSUME NEW part, NEW late, l' = [l EXCEPT !.built = @ \cup {part}, !.first_error = late]
        PROVE  /\ l.built \subseteq l'.built /\ l'.async_mode = l.async_mode /\ l'.state = l.state
               /\ l'.running = l.running /\ l'.synchronization_error = l.synchronization_error
    BY <2>3 DEF Types, LoggerFields
  <2> QED
    BY <2>1, <2>2, <2>3
<1>4. \/ /\ pc'[Host] = "create" /\ result'[Host] = result[Host] /\ noting'[Host] = "nothing"
         /\ q' = q
      \/ /\ pc'[Host] = "rollback" /\ result'[Host] = "uncreated" /\ l' = l
         /\ q'.wait_mu_error => noting'[Host] = "sync"
  <2>1. \/ UNCHANGED <<q, pc, noting, result>>
        \/ /\ Go(Host, "rollback") /\ Answer(Host, "uncreated") /\ l' = l
           /\ \E doubt \in BOOLEAN : q' = [q EXCEPT !.wait_mu_error = doubt] /\ NoteIf(Host, doubt, "sync")
    BY DEF Acquire
  <2>2. CASE UNCHANGED <<q, pc, noting, result>>
    BY <1>1, <2>2
  <2>3. ASSUME Go(Host, "rollback"), Answer(Host, "uncreated"), l' = l,
               NEW doubt \in BOOLEAN, q' = [q EXCEPT !.wait_mu_error = doubt], NoteIf(Host, doubt, "sync")
        PROVE  /\ pc'[Host] = "rollback" /\ result'[Host] = "uncreated" /\ l' = l
               /\ q'.wait_mu_error => noting'[Host] = "sync"
    BY <2>3, Roles
    DEF Types, PcTypes, LocalTypes, QueueTypes, QueueFields, Go, Answer, NoteIf, Note
  <2> QED
    BY <2>1, <2>2, <2>3
<1>5. \A t \in Threads : noting[t] # "nothing" => noting'[t] = noting[t]
  BY <1>1, <1>2
<1>6. LentOnly'
  <2>1. \A b \in Borrowers : b \in Threads /\ b # Host
    BY ThreadsAssumption DEF Threads
  <2> QED
    BY <1>1, <1>2, <2>1 DEF LifeInv, LentOnly
<1>7. PartsHeld'
  <2>1. l' = l /\ "memory" \notin l'.built => l'.built \subseteq {"object"}
    BY <1>1, MemorySecond
  <2> QED
    BY <1>2, <1>4, <2>1 DEF PartsHeld, WholeLabels
<1>8. WorkerLife' /\ HostLife'
  BY <1>1, <1>2, <1>4, Roles DEF LifeInv, WorkerLife, HostLife
<1>9. LocksHeld'
  <2>1. \A m \in Mutexes : owner'[m] # None => PartOf(m) \in l'.built
    BY <1>1, <1>3 DEF LifeInv, LocksHeld, PartOf
  <2>2. q'.wait_mu_error =>
          "queue" \in l'.built \/ l'.synchronization_error \/ noting'[Host] = "sync"
    BY <1>1, <1>3, <1>4 DEF LifeInv, LocksHeld
  <2> QED
    BY <1>1, <2>1, <2>2 DEF LocksHeld
<1>10. ErrorsNoted'
  BY <1>2, <1>3, <1>5 DEF LifeInv, ErrorsNoted, EndLabels
<1> QED
  BY <1>6, <1>7, <1>8, <1>9, <1>10 DEF LifeInv

\* StartWorker keeps the lifetimes: the worker starts on a whole logger.
LEMMA StartWorkerLife ==
    ASSUME Types, RecordInv, LifeInv, StartWorker
    PROVE  LifeInv'
<1>1. /\ pc[Host] = "create" /\ noting[Host] = "nothing" /\ pc[Worker] = "none"
      /\ unproven' = {} /\ owner' = owner /\ q' = q /\ noting' = noting /\ result[Host] # "uncreated"
  BY DEF StartWorker, At, LifeInv, WorkerLife, HostLife, LocksHeld
<1>2. Whole /\ l.async_mode \in BOOLEAN
  BY <1>1, CompleteIsWhole, LoggerFieldTypes DEF StartWorker, Types
<1>3. /\ l'.built = l.built /\ l'.async_mode = l.async_mode /\ l'.state = l.state
      /\ l'.synchronization_error = l.synchronization_error
  BY DEF Types, LoggerFields, StartWorker
<1>4. \/ /\ pc'[Host] = "publish" /\ result'[Host] = result[Host] /\ l'.running = l.async_mode
         /\ pc'[Worker] = IF l.async_mode THEN "drain" ELSE "none"
      \/ /\ pc'[Host] = "rollback" /\ result'[Host] = "uncreated" /\ l' = l /\ pc'[Worker] = "none"
  BY <1>1, Roles DEF Types, PcTypes, LocalTypes, LoggerFields, StartWorker, Go, Answer
<1>5. \A b \in Borrowers : pc'[b] = pc[b]
  BY Roles, ThreadsAssumption DEF Borrowers, Types, PcTypes, StartWorker, Go
<1>6. Whole' /\ "memory" \in l'.built
  BY <1>2, <1>3, WholeFrame, WholeHas
<1>7. LentOnly'
  BY <1>1, <1>5 DEF LifeInv, LentOnly
<1>8. PartsHeld'
  BY <1>4, <1>6 DEF PartsHeld
<1>9. WorkerLife' /\ HostLife'
  BY <1>1, <1>2, <1>3, <1>4 DEF LifeInv, WorkerLife, HostLife
<1>10. LocksHeld'
  BY <1>1, <1>3 DEF LifeInv, LocksHeld, PartOf
<1>11. ErrorsNoted'
  BY <1>1, <1>2, <1>3, <1>4 DEF LifeInv, ErrorsNoted, EndLabels
<1> QED
  BY <1>7, <1>8, <1>9, <1>10, <1>11 DEF LifeInv

\* PublishRunning keeps the lifetimes: a worker that failed first is still there
\* when the constructor rolls back.
LEMMA PublishRunningLife ==
    ASSUME Types, RecordInv, LifeInv, PublishRunning
    PROVE  LifeInv'
<1>1. /\ pc[Host] = "publish" /\ noting[Host] = "nothing"
      /\ unproven' = unproven /\ owner' = owner /\ q' = q /\ noting' = noting
  BY DEF PublishRunning, At
<1>2. Whole /\ "memory" \in l.built
  BY <1>1, WholeHas DEF LifeInv, PartsHeld, WholeLabels
<1>3. /\ l'.built = l.built /\ l'.async_mode = l.async_mode /\ l'.running = l.running
      /\ l'.synchronization_error = l.synchronization_error
  BY DEF Types, LoggerFields, PublishRunning
<1>4. \/ /\ pc'[Host] = "using" /\ result'[Host] = result[Host]
         /\ l.state = "CREATED" /\ l'.state = "RUNNING"
      \/ pc'[Host] = "rollback" /\ result'[Host] = "uncreated" /\ l' = l
  BY <1>1, Roles DEF Types, PcTypes, LocalTypes, LoggerFields, PublishRunning, Go, Answer
<1>5. pc'[Worker] = pc[Worker] /\ \A b \in Borrowers : pc'[b] = pc[b]
  BY Roles, ThreadsAssumption DEF Borrowers, Types, PcTypes, PublishRunning, Go
<1>6. Whole' /\ "memory" \in l'.built
  BY <1>2, <1>3, WholeFrame
<1>7. LentOnly'
  BY <1>1, <1>5 DEF LifeInv, LentOnly
<1>8. PartsHeld'
  BY <1>4, <1>6 DEF PartsHeld
<1>9. WorkerLife' /\ HostLife'
  BY <1>1, <1>3, <1>4, <1>5 DEF LifeInv, WorkerLife, HostLife
<1>10. LocksHeld'
  BY <1>1, <1>3, <1>4 DEF LifeInv, HostLife, LocksHeld, PartOf
<1>11. ErrorsNoted'
  BY <1>1, <1>3, <1>4, <1>5 DEF LifeInv, ErrorsNoted
<1> QED
  BY <1>7, <1>8, <1>9, <1>10, <1>11 DEF LifeInv

\* Rollback keeps the lifetimes: what was never lent is freed, kept, or taken
\* down after its worker.
LEMMA RollbackLife ==
    ASSUME Types, RecordInv, LifeInv, Rollback
    PROVE  LifeInv'
<1>1. /\ pc[Host] = "rollback" /\ noting[Host] = "nothing" /\ result' = result
      /\ unproven' = unproven /\ owner' = owner /\ q' = q /\ noting' = noting
  BY DEF Rollback, At, locals
<1>2. result[Host] = "uncreated" /\ \A u \in unproven : u[1] # Host
  BY <1>1 DEF LifeInv, HostLife, LocksHeld
<1>3. pc'[Worker] = pc[Worker] /\ \A b \in Borrowers : pc'[b] = pc[b]
  BY Roles, ThreadsAssumption DEF Borrowers, Types, PcTypes, Rollback, Go
<1>4. l'.async_mode = l.async_mode /\ l'.synchronization_error = l.synchronization_error
  BY DEF Types, LoggerFields, Rollback
<1>5. \/ /\ "memory" \notin l.built /\ l'.built = {} /\ l'.state = l.state /\ l'.running = l.running
         /\ pc'[Host] = "freed"
      \/ /\ "memory" \in l.built /\ l'.built = l.built /\ l'.state = "STOPPING"
         /\ pc'[Host] = "retained"
      \/ /\ "memory" \in l.built /\ l'.built = l.built /\ l'.state = "STOPPING"
         /\ pc'[Host] = IF pc[Worker] = "none" THEN "destroy" ELSE "force_lock"
  BY <1>1, Roles DEF Types, PcTypes, LoggerFields, Rollback, Go
<1>6. "memory" \notin l.built => pc[Worker] = "none" /\ l.built \subseteq {"object"}
  BY <1>1, WholeHas DEF LifeInv, PartsHeld
<1>7. pc[Worker] # "none" => Whole /\ Whole'
  <2>1. pc[Worker] # "none" => Whole
    BY <1>1 DEF LifeInv, PartsHeld
  <2>2. pc[Worker] # "none" => l'.built = l.built
    BY <1>5, <1>6
  <2> QED
    BY <1>4, <2>1, <2>2, WholeFrame
<1>8. LentOnly'
  BY <1>1, <1>3, <1>5 DEF LifeInv, LentOnly
<1>9. PartsHeld'
  BY <1>3, <1>5, <1>7 DEF PartsHeld, WholeLabels
<1>10. WorkerLife' /\ HostLife'
  BY <1>1, <1>2, <1>3, <1>4, <1>5, <1>6 DEF LifeInv, WorkerLife, HostLife
<1>11. LocksHeld'
  <2>1. \A m \in Mutexes : owner'[m] # None => PartOf(m) \in l'.built
    BY <1>1, <1>5, <1>6 DEF LifeInv, LocksHeld, PartOf, Mutexes
  <2>2. q'.wait_mu_error =>
          "queue" \in l'.built \/ l'.synchronization_error \/ noting'[Host] = "sync"
    BY <1>1, <1>4, <1>5, <1>6 DEF LifeInv, LocksHeld
  <2> QED
    BY <1>1, <1>2, <1>4, <1>5, <2>1, <2>2 DEF LifeInv, LocksHeld
<1>12. ErrorsNoted'
  BY <1>1, <1>3, <1>4, <1>5 DEF LifeInv, ErrorsNoted
<1> QED
  BY <1>8, <1>9, <1>10, <1>11, <1>12 DEF LifeInv

\* Destroy keeps the lifetimes: every borrower has returned.
LEMMA DestroyLife ==
    ASSUME Types, RecordInv, LifeInv, Destroy
    PROVE  LifeInv'
<1>1. /\ pc[Host] = "using" /\ noting[Host] = "nothing" /\ result' = result
      /\ unproven' = unproven /\ owner' = owner /\ q' = q /\ noting' = noting
      /\ \A b \in Borrowers : pc[b] = "idle" /\ noting[b] = "nothing"
  BY DEF Destroy, At, locals
<1>2. pc'[Worker] = pc[Worker] /\ pc'[Host] = "stop_check" /\ \A b \in Borrowers : pc'[b] = pc[b]
  BY Roles, ThreadsAssumption DEF Borrowers, Types, PcTypes, Destroy, Go
<1>3. /\ l'.built = l.built /\ l'.async_mode = l.async_mode /\ l'.running = l.running
      /\ l'.synchronization_error = l.synchronization_error /\ l'.state = "STOPPING"
  BY DEF Types, LoggerFields, Destroy
<1>4. Whole'
  BY <1>1, <1>3, WholeFrame DEF LifeInv, PartsHeld, WholeLabels
<1>5. LentOnly' /\ PartsHeld' /\ WorkerLife' /\ HostLife' /\ ErrorsNoted'
  BY <1>1, <1>2, <1>3, <1>4 DEF LifeInv, LentOnly, PartsHeld, WorkerLife, HostLife, ErrorsNoted
<1>6. LocksHeld'
  BY <1>1, <1>2, <1>3 DEF LifeInv, HostLife, LocksHeld, PartOf
<1> QED
  BY <1>5, <1>6 DEF LifeInv

\* StopCheck keeps the lifetimes: it stops a worker only if there is one, and
\* keeps the logger if a mutex is in doubt.
LEMMA StopCheckLife ==
    ASSUME Types, RecordInv, LifeInv, StopCheck
    PROVE  LifeInv'
<1>1. /\ pc[Host] = "stop_check" /\ noting[Host] = "nothing"
      /\ unproven' = unproven /\ owner' = owner /\ q' = q
  BY DEF StopCheck, At
<1>2. /\ result[Host] # "uncreated" /\ l.state \notin {"CREATED", "RUNNING"} /\ Whole
      /\ \A u \in unproven : u[1] # Host
  BY <1>1 DEF LifeInv, HostLife, PartsHeld, WholeLabels, LocksHeld
<1>3. /\ l'.built = l.built /\ l'.async_mode = l.async_mode /\ l'.state = l.state
      /\ l'.synchronization_error = l.synchronization_error
  BY DEF Types, LoggerFields, StopCheck
<1>4. /\ pc'[Worker] = pc[Worker]
      /\ \A t \in Threads \ {Host} : pc'[t] = pc[t] /\ noting'[t] = noting[t]
  BY Roles DEF Types, PcTypes, LocalTypes, StopCheck, Go, Note
<1>5. \/ pc'[Host] = "retained" /\ result'[Host] = "error"
      \/ /\ pc'[Host] = IF l.async_mode THEN "force_lock" ELSE "joined"
         /\ result'[Host] = result[Host] /\ noting'[Host] = "nothing"
  BY <1>1, Roles DEF Types, PcTypes, LocalTypes, StopCheck, Go, Answer
<1>6. Whole' /\ "memory" \in l'.built
  BY <1>2, <1>3, WholeFrame, WholeHas
<1>7. \A b \in Borrowers : pc'[b] = pc[b] /\ noting'[b] = noting[b]
  BY <1>4, Roles, ThreadsAssumption DEF Borrowers, Threads
<1>8. LentOnly' /\ PartsHeld'
  BY <1>1, <1>5, <1>6, <1>7 DEF LifeInv, LentOnly, PartsHeld
<1>9. WorkerLife'
  BY <1>1, <1>3, <1>4, <1>5, Roles DEF LifeInv, WorkerLife
<1>10. HostLife'
  BY <1>1, <1>2, <1>3, <1>5 DEF HostLife
<1>11. LocksHeld'
  <2>1. \A u \in unproven : noting'[u[1]] = noting[u[1]]
    BY <1>2, <1>4 DEF Types, SharedTypes
  <2> QED
    BY <1>1, <1>2, <1>3, <1>5, <2>1 DEF LifeInv, LocksHeld, PartOf
<1>12. ErrorsNoted'
  BY <1>2, <1>3 DEF ErrorsNoted
<1> QED
  BY <1>8, <1>9, <1>10, <1>11, <1>12 DEF LifeInv

\* Join keeps the lifetimes: the worker is gone, or everything is kept.
LEMMA JoinLife ==
    ASSUME Types, RecordInv, LifeInv, Join
    PROVE  LifeInv'
<1>1. /\ pc[Host] = "join" /\ noting[Host] = "nothing" /\ noting' = noting
      /\ unproven' = unproven /\ owner' = owner /\ q' = q
  BY DEF Join, At
<1>2. Whole /\ pc[Worker] # "none" /\ \A u \in unproven : u[1] # Host
  BY <1>1 DEF LifeInv, WorkerLife, PartsHeld, WholeLabels, LocksHeld
<1>3. /\ l'.built = l.built /\ l'.async_mode = l.async_mode /\ l'.state = l.state
      /\ l'.synchronization_error = l.synchronization_error /\ l'.running = l.running
  BY DEF Types, LoggerFields, Join
<1>4. pc'[Worker] = pc[Worker] /\ \A b \in Borrowers : pc'[b] = pc[b]
  BY Roles, ThreadsAssumption DEF Borrowers, Types, PcTypes, Join, Go
<1>5. \/ /\ pc'[Host] = IF result[Host] = "uncreated" THEN "destroy" ELSE "joined"
         /\ result'[Host] = result[Host] /\ pc[Worker] = "exited" /\ noting[Worker] = "nothing"
      \/ pc'[Host] = "retained" /\ (result'[Host] = "uncreated" <=> result[Host] = "uncreated")
  BY <1>1, Roles DEF Types, PcTypes, LocalTypes, Join, Go, At
<1>6. Whole' /\ "memory" \in l'.built
  BY <1>2, <1>3, WholeFrame, WholeHas
<1>7. LentOnly' /\ PartsHeld'
  BY <1>1, <1>4, <1>5, <1>6 DEF LifeInv, LentOnly, PartsHeld
<1>8. WorkerLife' /\ HostLife'
  BY <1>1, <1>2, <1>3, <1>4, <1>5 DEF LifeInv, WorkerLife, HostLife
<1>9. LocksHeld'
  BY <1>1, <1>2, <1>3, <1>5 DEF LifeInv, LocksHeld, PartOf
<1>10. ErrorsNoted'
  BY <1>1, <1>3, <1>4 DEF LifeInv, ErrorsNoted
<1> QED
  BY <1>7, <1>8, <1>9, <1>10 DEF LifeInv

\* Joined keeps the lifetimes: no error is on record when the last sync begins.
LEMMA JoinedLife ==
    ASSUME Types, RecordInv, LifeInv, Joined
    PROVE  LifeInv'
<1>1. /\ pc[Host] = "joined" /\ noting[Host] = "nothing" /\ noting' = noting
      /\ unproven' = unproven /\ q' = q
  BY DEF Joined, At
<1>2. Whole /\ result[Host] # "uncreated" /\ \A u \in unproven : u[1] # Host
  BY <1>1 DEF LifeInv, HostLife, PartsHeld, WholeLabels, LocksHeld
<1>3. /\ l'.built = l.built /\ l'.async_mode = l.async_mode /\ l'.state = l.state
      /\ l'.synchronization_error = l.synchronization_error /\ l'.running = l.running
  BY DEF Types, LoggerFields, Joined
<1>4. pc'[Worker] = pc[Worker] /\ \A b \in Borrowers : pc'[b] = pc[b]
  BY Roles, ThreadsAssumption DEF Borrowers, Types, PcTypes, Joined, Go
<1>5. \/ pc'[Host] = "retained" /\ result'[Host] = "error" /\ owner' = owner
      \/ /\ pc'[Host] = "final_sync" /\ result'[Host] = result[Host]
         /\ ~l.synchronization_error /\ Lock(Host, "emit_mu")
  BY <1>1, Roles DEF Types, PcTypes, LocalTypes, Joined, Go, Answer
<1>6. Whole' /\ "memory" \in l'.built
  BY <1>2, <1>3, WholeFrame, WholeHas
<1>7. LentOnly' /\ PartsHeld'
  BY <1>1, <1>4, <1>5, <1>6 DEF LifeInv, LentOnly, PartsHeld
<1>8. WorkerLife' /\ HostLife'
  BY <1>1, <1>2, <1>3, <1>4, <1>5 DEF LifeInv, WorkerLife, HostLife
<1>9. LocksHeld'
  <2>1. PartOf("emit_mu") \in l.built
    BY <1>2, WholeHas
  <2>2. \A m \in Mutexes : owner'[m] # None => owner[m] # None \/ m = "emit_mu"
    BY <1>5, LockTakes, Roles, MutexTypes
  <2>3. \A m \in Mutexes : owner'[m] # None => PartOf(m) \in l'.built
    BY <1>3, <2>1, <2>2 DEF LifeInv, LocksHeld, PartOf
  <2> QED
    BY <1>1, <1>2, <1>3, <1>5, <2>3 DEF LifeInv, LocksHeld
<1>10. ErrorsNoted'
  BY <1>1, <1>3, <1>4 DEF LifeInv, ErrorsNoted
<1> QED
  BY <1>7, <1>8, <1>9, <1>10 DEF LifeInv

\* FinalSync keeps the lifetimes: a failed release of emit_mu keeps the logger.
LEMMA FinalSyncLife ==
    ASSUME Types, RecordInv, LifeInv, FinalSync
    PROVE  LifeInv'
<1>1. pc[Host] = "final_sync" /\ noting[Host] = "nothing" /\ q' = q
  BY DEF FinalSync, At
<1>2. /\ Whole /\ result[Host] # "uncreated" /\ ~l.synchronization_error
      /\ \A u \in unproven : u[1] # Host
  BY <1>1 DEF LifeInv, HostLife, PartsHeld, WholeLabels, LocksHeld
<1>3. /\ l'.built = l.built /\ l'.async_mode = l.async_mode /\ l'.state = l.state
      /\ l'.synchronization_error = l.synchronization_error /\ l'.running = l.running
  BY DEF Types, LoggerFields, FinalSync, SyncOutputs
<1>4. /\ pc'[Worker] = pc[Worker]
      /\ \A t \in Threads \ {Host} : pc'[t] = pc[t] /\ noting'[t] = noting[t]
  BY Roles DEF Types, PcTypes, LocalTypes, FinalSync, SyncOutputs, Go, Note, NoteIf
<1>5. PICK hit \in SUBSET {<<"io", "fsync">>, <<"unlock", "emit_mu">>} :
        /\ Unlock(Host, "emit_mu", hit)
        /\ NoteIf(Host, <<"unlock", "emit_mu">> \in hit, "sync")
        /\ Go(Host, IF <<"unlock", "emit_mu">> \in hit THEN "retained" ELSE "destroy")
        /\ Answer(Host, "error") \/ result' = result
  <2>1. PICK hit \in SUBSET {<<"io", "fsync">>, <<"unlock", "emit_mu">>} :
          /\ Go(Host, IF <<"unlock", "emit_mu">> \in hit THEN "retained" ELSE "destroy")
          /\ \/ /\ <<"io", "fsync">> \notin hit /\ Unlock(Host, "emit_mu", hit)
                /\ NoteIf(Host, hit # {}, "sync") /\ Answer(Host, "error")
             \/ SyncOutputs(Host, hit)
    BY DEF FinalSync
  <2>2. CASE SyncOutputs(Host, hit)
    BY <2>1, <2>2 DEF SyncOutputs, Answer
  <2>3. CASE /\ <<"io", "fsync">> \notin hit /\ Unlock(Host, "emit_mu", hit)
             /\ NoteIf(Host, hit # {}, "sync") /\ Answer(Host, "error")
    <3>1. hit # {} <=> <<"unlock", "emit_mu">> \in hit
      BY <2>1, <2>3
    <3> QED
      BY <2>1, <2>3, <3>1 DEF NoteIf
  <2> QED
    BY <2>1, <2>2, <2>3
<1>6. /\ result'[Host] # "uncreated"
      /\ \/ pc'[Host] = "retained" /\ noting'[Host] = "sync" /\ <<"unlock", "emit_mu">> \in hit
         \/ pc'[Host] = "destroy" /\ noting'[Host] = "nothing" /\ <<"unlock", "emit_mu">> \notin hit
  BY <1>1, <1>2, <1>5, Roles DEF Types, PcTypes, LocalTypes, Go, Answer, Note, NoteIf
<1>7. Whole' /\ "memory" \in l'.built
  BY <1>2, <1>3, WholeFrame, WholeHas
<1>8. \A b \in Borrowers : pc'[b] = pc[b] /\ noting'[b] = noting[b]
  BY <1>4, Roles, ThreadsAssumption DEF Borrowers, Threads
<1>9. LentOnly' /\ PartsHeld'
  BY <1>1, <1>6, <1>7, <1>8 DEF LifeInv, LentOnly, PartsHeld
<1>10. WorkerLife'
  BY <1>1, <1>3, <1>4, <1>6, Roles DEF LifeInv, WorkerLife
<1>11. HostLife'
  BY <1>1, <1>2, <1>3, <1>6 DEF HostLife
<1>12. LocksHeld'
  <2>1. /\ \A m \in Mutexes : owner'[m] # None => owner[m] # None
        /\ \A u \in unproven' : u \in unproven \/ (u[1] = Host /\ <<"unlock", "emit_mu">> \in hit)
    BY <1>5, UnlockLeaves, Roles, MutexTypes
  <2>2. \A u \in unproven : u[1] \in Threads /\ (noting[u[1]] = "sync" \/ q.wait_mu_error)
    BY <1>2 DEF LifeInv, LocksHeld, Types, SharedTypes
  <2>3. \A u \in unproven' : /\ noting'[u[1]] = "sync" \/ q'.wait_mu_error
                             /\ u[1] = Host => pc'[Host] = "retained"
    BY <1>1, <1>2, <1>4, <1>6, <2>1, <2>2
  <2>4. \A m \in Mutexes : owner'[m] # None => PartOf(m) \in l'.built
    BY <1>3, <2>1 DEF LifeInv, LocksHeld, PartOf
  <2>5. q'.wait_mu_error => "queue" \in l'.built
    BY <1>1, <1>2, <1>3 DEF LifeInv, LocksHeld
  <2> QED
    BY <1>6, <2>3, <2>4, <2>5 DEF LocksHeld
<1>13. ErrorsNoted'
  <2>1. \A t \in Threads : noting[t] # "nothing" => noting'[t] = noting[t]
    BY <1>1, <1>4
  <2> QED
    BY <1>3, <1>4, <2>1 DEF LifeInv, ErrorsNoted
<1> QED
  BY <1>9, <1>10, <1>11, <1>12, <1>13 DEF LifeInv

\* Release keeps the lifetimes: it gives back a part that no thread holds, and
\* the memory last.
LEMMA ReleaseLife ==
    ASSUME Types, RecordInv, LifeInv, Release
    PROVE  LifeInv'
<1> DEFINE first == CHOOSE i \in 1..Len(Destruction) :
                       /\ Destruction[i] \in l.built
                       /\ \A j \in 1..(i - 1) : Destruction[j] \notin l.built
           part == Destruction[first]
<1>1. /\ pc[Host] = "destroy" /\ noting[Host] = "nothing" /\ noting' = noting
      /\ unproven' = unproven /\ owner' = owner /\ q' = q
  BY DEF Release, At
<1>2. /\ "memory" \in l.built /\ pc[Worker] \in {"none", "exited"} /\ noting[Worker] = "nothing"
      /\ \A u \in unproven : u[1] # Host
  BY <1>1 DEF LifeInv, PartsHeld, WorkerLife, LocksHeld
<1>3. part \in l.built /\ (part = "memory" => l.built = {"memory"})
  BY <1>2, NextRelease
<1>4. result' = result \/ (result' = [result EXCEPT ![Host] = "error"] /\ result[Host] = "ok")
  BY DEF Release
<1>5. result'[Host] = "uncreated" <=> result[Host] = "uncreated"
  BY <1>4, Roles DEF Types, LocalTypes
<1>6. \/ /\ ~Held(part) /\ l'.built = l.built \ {part}
         /\ (l'.state = l.state \/ l'.state = "STOPPED")
         /\ Go(Host, IF part = "memory" THEN "freed" ELSE "destroy")
      \/ l'.built = l.built /\ l'.state = l.state /\ Go(Host, "retained")
  BY DEF Release, Types, LoggerFields
<1>7. /\ l'.async_mode = l.async_mode /\ l'.running = l.running
      /\ l'.synchronization_error = l.synchronization_error
  BY DEF Release, Types, LoggerFields
<1> HIDE DEF part, first
<1>8. pc'[Worker] = pc[Worker] /\ \A b \in Borrowers : pc'[b] = pc[b]
  BY <1>6, Roles, ThreadsAssumption DEF Borrowers, Types, PcTypes, Go
<1>9. \/ /\ ~Held(part) /\ l'.built = l.built \ {part}
         /\ pc'[Host] = IF part = "memory" THEN "freed" ELSE "destroy"
      \/ l'.built = l.built /\ pc'[Host] = "retained"
  BY <1>6, Roles DEF Types, PcTypes, Go
<1>10. LentOnly'
  BY <1>1, <1>8, <1>9 DEF LifeInv, LentOnly
<1>11. PartsHeld'
  BY <1>2, <1>3, <1>8, <1>9 DEF PartsHeld, WholeLabels
<1>12. WorkerLife' /\ HostLife'
  BY <1>1, <1>2, <1>5, <1>7, <1>8, <1>9 DEF LifeInv, WorkerLife, HostLife
<1>13. LocksHeld'
  <2>1. \A m \in Mutexes : owner'[m] # None => PartOf(m) \in l'.built
    BY <1>1, <1>9 DEF LifeInv, LocksHeld, PartOf, Held, Mutexes
  <2>2. q'.wait_mu_error =>
          "queue" \in l'.built \/ l'.synchronization_error \/ noting'[Host] = "sync"
    BY <1>1, <1>7, <1>9 DEF LifeInv, LocksHeld, Held
  <2> QED
    BY <1>1, <1>2, <1>5, <1>7, <1>9, <2>1, <2>2 DEF LifeInv, LocksHeld
<1>14. ErrorsNoted'
  BY <1>1, <1>6, <1>7, <1>8 DEF LifeInv, ErrorsNoted
<1> QED
  BY <1>10, <1>11, <1>12, <1>13, <1>14 DEF LifeInv

\* ForceLock keeps the lifetimes, in the host.
LEMMA ForceLockHostLife ==
    ASSUME Types, RecordInv, LifeInv, ForceLock(Host)
    PROVE  LifeInv'
<1>1. /\ pc[Host] = "force_lock" /\ noting[Host] = "nothing" /\ result' = result
      /\ unproven' = unproven /\ q' = q /\ l' = l
  BY DEF ForceLock, At, locals
<1>2. /\ Whole /\ l.async_mode /\ pc[Worker] # "none" /\ \A u \in unproven : u[1] # Host
  BY <1>1 DEF LifeInv, WorkerLife, PartsHeld, WholeLabels, LocksHeld
<1>3. /\ pc'[Worker] = pc[Worker]
      /\ \A t \in Threads \ {Host} : pc'[t] = pc[t] /\ noting'[t] = noting[t]
  BY Roles DEF Types, PcTypes, LocalTypes, ForceLock, Go, Note
<1>4. \/ pc'[Host] = "force" /\ noting'[Host] = "nothing" /\ Lock(Host, "wait_mu")
      \/ pc'[Host] = "force_failed" /\ owner' = owner
  BY <1>1, Roles DEF Types, PcTypes, LocalTypes, ForceLock, Go
<1>5. Whole'
  BY <1>1, <1>2, WholeFrame
<1>6. \A b \in Borrowers : pc'[b] = pc[b] /\ noting'[b] = noting[b]
  BY <1>3, Roles, ThreadsAssumption DEF Borrowers, Threads
<1>7. LentOnly' /\ PartsHeld'
  BY <1>1, <1>4, <1>5, <1>6 DEF LifeInv, LentOnly, PartsHeld
<1>8. WorkerLife' /\ HostLife'
  BY <1>1, <1>2, <1>3, <1>4, Roles DEF LifeInv, WorkerLife, HostLife
<1>9. LocksHeld'
  <2>1. \A m \in Mutexes : owner'[m] # None => owner[m] # None \/ m = "wait_mu"
    BY <1>4, LockTakes, Roles, MutexTypes
  <2>2. \A m \in Mutexes : owner'[m] # None => PartOf(m) \in l'.built
    BY <1>1, <1>2, <2>1, WholeHas DEF LifeInv, LocksHeld, PartOf
  <2>3. \A u \in unproven : noting'[u[1]] = noting[u[1]]
    BY <1>2, <1>3 DEF Types, SharedTypes
  <2>4. q'.wait_mu_error => "queue" \in l'.built
    BY <1>1, <1>2, WholeHas
  <2> QED
    BY <1>1, <1>2, <1>4, <2>2, <2>3, <2>4 DEF LifeInv, LocksHeld
<1>10. ErrorsNoted'
  <2>1. \A t \in Threads : noting[t] # "nothing" => noting'[t] = noting[t]
    BY <1>1, <1>3
  <2> QED
    BY <1>1, <1>3, <2>1 DEF LifeInv, ErrorsNoted
<1> QED
  BY <1>7, <1>8, <1>9, <1>10 DEF LifeInv

\* WakeForce keeps the lifetimes, in the host.
LEMMA WakeForceHostLife ==
    ASSUME Types, RecordInv, LifeInv, WakeForce(Host)
    PROVE  LifeInv'
<1>1. pc[Host] = "force" /\ noting[Host] = "nothing" /\ l' = l
  BY DEF WakeForce, At
<1>2. /\ Whole /\ l.async_mode /\ pc[Worker] # "none" /\ \A u \in unproven : u[1] # Host
  BY <1>1 DEF LifeInv, WorkerLife, PartsHeld, WholeLabels, LocksHeld
<1>3. PICK hit \in SUBSET {<<"cond_signal", "wait_cv">>, <<"unlock", "wait_mu">>} :
        /\ Unlock(Host, "wait_mu", hit)
        /\ q' = [q EXCEPT !.consumer_waiting = FALSE,
                          !.wait_mu_error = @ \/ <<"unlock", "wait_mu">> \in hit]
        /\ NoteIf(Host, hit # {}, "life")
        /\ Go(Host, IF hit # {} THEN "force_failed" ELSE "join")
        /\ result' = result
  BY DEF WakeForce
<1>4. /\ pc'[Worker] = pc[Worker]
      /\ \A t \in Threads \ {Host} : pc'[t] = pc[t] /\ noting'[t] = noting[t]
  BY <1>3, Roles DEF Types, PcTypes, LocalTypes, Go, Note, NoteIf
<1>5. \/ hit # {} /\ pc'[Host] = "force_failed"
      \/ hit = {} /\ pc'[Host] = "join" /\ noting'[Host] = "nothing"
  BY <1>1, <1>3, Roles DEF Types, PcTypes, LocalTypes, Go, NoteIf
<1>6. /\ q.wait_mu_error => q'.wait_mu_error
      /\ <<"unlock", "wait_mu">> \in hit => q'.wait_mu_error
  BY <1>3 DEF Types, QueueTypes, QueueFields
<1>7. Whole'
  BY <1>1, <1>2, WholeFrame
<1>8. \A b \in Borrowers : pc'[b] = pc[b] /\ noting'[b] = noting[b]
  BY <1>4, Roles, ThreadsAssumption DEF Borrowers, Threads
<1>9. LentOnly' /\ PartsHeld'
  BY <1>1, <1>5, <1>7, <1>8 DEF LifeInv, LentOnly, PartsHeld
<1>10. WorkerLife' /\ HostLife'
  BY <1>1, <1>2, <1>3, <1>4, <1>5, Roles DEF LifeInv, WorkerLife, HostLife
<1>11. LocksHeld'
  <2>1. /\ \A m \in Mutexes : owner'[m] # None => owner[m] # None
        /\ \A u \in unproven' : u \in unproven \/ (u[1] = Host /\ <<"unlock", "wait_mu">> \in hit)
    BY <1>3, UnlockLeaves, Roles, MutexTypes
  <2>2. \A m \in Mutexes : owner'[m] # None => PartOf(m) \in l'.built
    BY <1>1, <2>1 DEF LifeInv, LocksHeld, PartOf
  <2>3. \A u \in unproven :
          /\ l.synchronization_error \/ noting[u[1]] = "sync" \/ q.wait_mu_error
          /\ u[1] \in Threads /\ u[1] # Host
          /\ result[Host] = "uncreated" => u[1] \notin Borrowers
    BY <1>2 DEF LifeInv, LocksHeld, Types, SharedTypes
  <2>4. Host \notin Borrowers
    BY ThreadsAssumption
  <2>5. \A u \in unproven' :
          /\ l'.synchronization_error \/ noting'[u[1]] = "sync" \/ q'.wait_mu_error
          /\ u[1] = Host => pc'[Host] = "force_failed"
          /\ result[Host] = "uncreated" => u[1] \notin Borrowers
    BY <1>1, <1>4, <1>5, <1>6, <2>1, <2>3, <2>4
  <2>6. q'.wait_mu_error => "queue" \in l'.built
    BY <1>1, <1>2, WholeHas
  <2> QED
    BY <1>3, <1>5, <2>2, <2>5, <2>6 DEF LocksHeld
<1>12. ErrorsNoted'
  <2>1. \A t \in Threads : noting[t] # "nothing" => noting'[t] = noting[t]
    BY <1>1, <1>4
  <2> QED
    BY <1>1, <1>4, <2>1 DEF LifeInv, ErrorsNoted
<1> QED
  BY <1>9, <1>10, <1>11, <1>12 DEF LifeInv

\* ForceFailed keeps the lifetimes, in the host: the logger is kept.
LEMMA ForceFailedHostLife ==
    ASSUME Types, RecordInv, LifeInv, ForceFailed(Host)
    PROVE  LifeInv'
<1>1. /\ pc[Host] = "force_failed" /\ noting[Host] = "nothing" /\ l' = l /\ q' = q
      /\ owner' = owner /\ unproven' = unproven
  BY DEF ForceFailed, At
<1>2. /\ Whole /\ l.async_mode /\ pc[Worker] # "none"
  BY <1>1 DEF LifeInv, WorkerLife, PartsHeld, WholeLabels
<1>3. /\ pc'[Worker] = pc[Worker]
      /\ \A t \in Threads \ {Host} : pc'[t] = pc[t] /\ noting'[t] = noting[t]
  BY Roles DEF Types, PcTypes, LocalTypes, ForceFailed, Go, Note, NoteIf
<1>4. pc'[Host] = "retained" /\ (result'[Host] = "uncreated" <=> result[Host] = "uncreated")
  BY Roles DEF Types, PcTypes, LocalTypes, ForceFailed, Go
<1>5. Whole' /\ "memory" \in l'.built
  BY <1>1, <1>2, WholeFrame, WholeHas
<1>6. \A b \in Borrowers : pc'[b] = pc[b] /\ noting'[b] = noting[b]
  BY <1>3, Roles, ThreadsAssumption DEF Borrowers, Threads
<1>7. LentOnly' /\ PartsHeld'
  BY <1>1, <1>4, <1>5, <1>6 DEF LifeInv, LentOnly, PartsHeld
<1>8. WorkerLife' /\ HostLife'
  BY <1>1, <1>2, <1>3, <1>4, Roles DEF LifeInv, WorkerLife, HostLife
<1>9. \A t \in Threads : noting[t] # "nothing" => noting'[t] = noting[t]
  BY <1>1, <1>3
<1>10. LocksHeld'
  <2>1. \A u \in unproven : u[1] \in Threads
    BY DEF Types, SharedTypes
  <2>2. q'.wait_mu_error => "queue" \in l'.built
    BY <1>1, <1>2, WholeHas
  <2> QED
    BY <1>1, <1>4, <1>9, <2>1, <2>2 DEF LifeInv, LocksHeld, PartOf
<1>11. ErrorsNoted'
  BY <1>1, <1>3, <1>9 DEF LifeInv, ErrorsNoted
<1> QED
  BY <1>7, <1>8, <1>10, <1>11 DEF LifeInv

\* The forced wake-up keeps the lifetimes, in a producer and in the host.
LEMMA ForceLockLife ==
    ASSUME Types, RecordInv, LifeInv, NEW t \in Producers \cup {Host}, ForceLock(t)
    PROVE  LifeInv'
BY ForceLockLentLife, ForceLockHostLife

\* WakeForce keeps the lifetimes.
LEMMA WakeForceLife ==
    ASSUME Types, RecordInv, LifeInv, NEW t \in Producers \cup {Host}, WakeForce(t)
    PROVE  LifeInv'
BY WakeForceLentLife, WakeForceHostLife

\* ForceFailed keeps the lifetimes.
LEMMA ForceFailedLife ==
    ASSUME Types, RecordInv, LifeInv, NEW t \in Producers \cup {Host}, ForceFailed(t)
    PROVE  LifeInv'
BY ForceFailedLentLife, ForceFailedHostLife

\* NoteStep keeps the lifetimes: the error a thread was about to record is on
\* record, and the logger no longer looks usable at the end.
LEMMA NoteStepLife ==
    ASSUME Types, RecordInv, LifeInv, NEW t \in Threads, NoteStep(t)
    PROVE  LifeInv'
<1>1. /\ q' = q /\ owner' = owner /\ unproven' = unproven /\ pc' = pc /\ result' = result
  BY DEF NoteStep, locals
<1>2. \/ /\ noting[t] = "sync" /\ l' = [l EXCEPT !.synchronization_error = TRUE] /\ Note(t, "life")
      \/ /\ noting[t] = "life" /\ l' = [l EXCEPT !.lifecycle_error = TRUE] /\ Note(t, "stop")
      \/ /\ noting[t] = "stop" /\ l' = [l EXCEPT !.state = "STOPPING", !.running = FALSE]
         /\ Note(t, "nothing")
  BY DEF NoteStep
<1>3. \/ /\ noting[t] = "sync" /\ l'.synchronization_error /\ l'.state = l.state
         /\ l'.running = l.running /\ noting'[t] = "life"
      \/ /\ noting[t] = "life" /\ l'.synchronization_error = l.synchronization_error
         /\ l'.state = l.state /\ l'.running = l.running /\ noting'[t] = "stop"
      \/ /\ noting[t] = "stop" /\ l'.synchronization_error = l.synchronization_error
         /\ l'.state = "STOPPING"
  BY <1>2 DEF Types, LocalTypes, LoggerFields, Note
<1>4. l'.built = l.built /\ l'.async_mode = l.async_mode
  BY <1>2 DEF Types, LoggerFields
<1>5. \A o \in Threads \ {t} : noting'[o] = noting[o]
  BY <1>2 DEF Types, LocalTypes, Note
<1>6. noting[t] # "nothing" /\ (l.synchronization_error => l'.synchronization_error)
  BY <1>3
<1>7. Whole' = Whole
  BY <1>4, WholeFrame
<1>8. LentOnly'
  <2>1. \A b \in Borrowers : b \in Threads
    BY DEF Threads
  <2> QED
    BY <1>1, <1>5, <1>6, <2>1 DEF LifeInv, LentOnly
<1>9. PartsHeld'
  BY <1>1, <1>4, <1>7 DEF LifeInv, PartsHeld
<1>10. WorkerLife'
  BY <1>1, <1>4, <1>5, <1>6, Roles DEF LifeInv, WorkerLife
<1>11. HostLife'
  <2>1. t \in Borrowers \/ t = Worker \/ t = Host
    BY Roles
  <2>2. pc[Host] \notin {"final_sync", "destroy", "freed"}
    BY <1>6, <2>1 DEF LifeInv, LentOnly, WorkerLife, HostLife
  <2>3. l'.state = l.state \/ l'.state = "STOPPING"
    BY <1>3
  <2>4. noting'[Host] # "nothing" => noting[Host] # "nothing"
    BY <1>5, <1>6, Roles
  <2> QED
    BY <1>1, <2>2, <2>3, <2>4 DEF LifeInv, HostLife
<1>12. LocksHeld'
  <2>1. \A u \in unproven : u[1] \in Threads
    BY DEF Types, SharedTypes
  <2>2. \A o \in Threads : noting[o] = "sync" => noting'[o] = "sync" \/ l'.synchronization_error
    BY <1>3, <1>5
  <2> QED
    BY <1>1, <1>4, <1>6, <2>1, <2>2, Roles DEF LifeInv, LocksHeld, PartOf
<1>13. ErrorsNoted'
  <2>1. l'.state \in {"CREATED", "RUNNING"} =>
           /\ noting'[t] \in {"life", "stop"} /\ l'.state = l.state /\ l'.running = l.running
    BY <1>3
  <2> QED
    BY <1>1, <2>1 DEF LifeInv, ErrorsNoted
<1> QED
  BY <1>8, <1>9, <1>10, <1>11, <1>12, <1>13 DEF LifeInv

\* A step that changes nothing the lifetimes depend on keeps them.
LEMMA LifeFrame ==
    ASSUME LifeInv, l' = l, q' = q, owner' = owner, unproven' = unproven, pc' = pc,
           noting' = noting, result' = result
    PROVE  LifeInv'
<1>1. Whole' = Whole
  BY WholeFrame
<1>2. LentOnly' /\ PartsHeld' /\ WorkerLife' /\ HostLife'
  BY <1>1 DEF LifeInv, LentOnly, PartsHeld, WorkerLife, HostLife
<1>3. LocksHeld' /\ ErrorsNoted'
  BY DEF LifeInv, LocksHeld, PartOf, ErrorsNoted
<1> QED
  BY <1>2, <1>3 DEF LifeInv

\* Spurious keeps the lifetimes.
LEMMA SpuriousLife ==
    ASSUME Types, RecordInv, LifeInv, NEW t \in Threads, Spurious(t)
    PROVE  LifeInv'
BY LifeFrame DEF Spurious, locals

\* Before the first step nothing is built, held or in doubt.
LEMMA InitLife ==
    ASSUME Init
    PROVE  LifeInv
<1>1. /\ pc[Host] = "create" /\ pc[Worker] = "none" /\ unproven = {} /\ result[Host] = "ok"
      /\ \A t \in Threads : noting[t] = "nothing"
      /\ \A b \in Borrowers : pc[b] = "idle"
      /\ \A m \in Mutexes : owner[m] = None
  BY Roles, ThreadsAssumption DEF Init, Borrowers, Threads
<1>2. q.wait_mu_error = FALSE /\ l.synchronization_error = FALSE
  BY DEF Init
<1>3. LentOnly /\ PartsHeld
  BY <1>1, Roles DEF LentOnly, PartsHeld, WholeLabels, Borrowers, Threads
<1>4. WorkerLife /\ HostLife
  BY <1>1, Roles DEF WorkerLife, HostLife
<1>5. LocksHeld /\ ErrorsNoted
  BY <1>1, <1>2 DEF LocksHeld, ErrorsNoted, EndLabels
<1> QED
  BY <1>3, <1>4, <1>5 DEF LifeInv

\* Every step keeps the lifetimes.
LEMMA NextLife ==
    ASSUME Types, RecordInv, LifeInv, [Next]_vars
    PROVE  LifeInv'
<1>1. CASE UNCHANGED vars
  <2>1. /\ l' = l /\ q' = q /\ pc' = pc /\ batch' = batch /\ slot' = slot /\ noting' = noting
        /\ calls' = calls /\ kind' = kind /\ target' = target /\ result' = result
        /\ faults' = faults /\ owner' = owner /\ unproven' = unproven /\ asleep' = asleep
        /\ written' = written /\ durable' = durable /\ emitted' = emitted /\ failed' = failed
        /\ accepted' = accepted /\ due' = due
    BY <1>1 DEF vars, outputs, promises, locals
  <2> QED
    BY <2>1, LifeFrame
<1>2. ASSUME NEW p \in Producers, ProducerStep(p) PROVE LifeInv'
  BY <1>2, EnterLogLife, PushLife, RefusedLife, PublishLife, ProbeLife, NotifyLockLife,
     NotifyLife, PushFailedLife, FormatStatusLife, EmitCheckLife, EmitLockLife, EmitStatusLife
  DEF ProducerStep
<1>3. ASSUME NEW t \in Producers \cup {Host}, ForceStep(t) PROVE LifeInv'
  BY <1>3, ForceLockLife, WakeForceLife, ForceFailedLife DEF ForceStep
<1>4. ASSUME NEW f \in Flushers, FlusherStep(f) PROVE LifeInv'
  BY <1>4, EnterFlushLife, FlushCheckLife, FlushTargetLife, FlushLockLife, FlushTestLife,
     FlushAwakeLife, FlushErrorLife, SyncCheckLife, SyncLockLife, SyncLife
  DEF FlusherStep
<1>5. CASE WorkerStep
  BY <1>5, DrainLife, DrainEndLife, BatchFormatLife, BatchLockLife, EmitBatchLife,
     BatchDoneLife, ProgressLockLife, ProgressLife, WaitLockLife, WaitTestLife,
     WaitRetestLife, WaitAwakeLife, WaitEndLife, FinalLife, FinalLockLife, BroadcastLife
  DEF WorkerStep
<1>6. CASE HostStep \/ Destroy
  BY <1>6, AcquireLife, StartWorkerLife, PublishRunningLife, RollbackLife, DestroyLife,
     StopCheckLife, JoinLife, JoinedLife, FinalSyncLife, ReleaseLife
  DEF HostStep
<1>7. ASSUME NEW t \in Threads, NoteStep(t) \/ Spurious(t) PROVE LifeInv'
  BY <1>7, NoteStepLife, SpuriousLife
<1> QED
  BY <1>1, <1>2, <1>3, <1>4, <1>5, <1>6, <1>7 DEF Next

\* The lifetimes hold in every behaviour.
LEMMA LifeInvariant == Spec => []LifeInv
<1>1. Init => LifeInv
  BY InitLife
<1>2. Types /\ RecordInv /\ LifeInv /\ [Next]_vars => LifeInv'
  BY NextLife
<1> QED
  BY <1>1, <1>2, TypesInvariant, RecordsInvariant, PTL DEF Spec

\* LifetimesNest: a thread at work finds a whole logger, a worker that left a
\* usable logger is being reported, and the logger is freed only when nobody
\* works on it and no mutex of it is held or in doubt (a failed constructor
\* excepted, whose worker's last unlock it does not look at); else it is kept.
THEOREM LifetimesAreNested == Spec => []LifetimesNest
<1>1. ASSUME Types, LifeInv PROVE LifetimesNest
  <2>1. ASSUME NEW t \in Borrowers \cup {Worker}, pc[t] \notin {"idle", "none", "exited"}
        PROVE  Complete
    <3>1. CASE t \in Borrowers
      BY <1>1, <2>1, <3>1 DEF LifeInv, LentOnly, PartsHeld, WholeLabels, Whole
    <3>2. CASE t = Worker
      BY <1>1, <2>1, <3>2 DEF LifeInv, PartsHeld, Whole
    <3> QED
      BY <3>1, <3>2
  <2>2. l.async_mode /\ l.state = "RUNNING" /\ pc[Worker] = "exited" =>
          \E t \in Threads : noting[t] # "nothing"
    BY <1>1 DEF LifeInv, ErrorsNoted, EndLabels
  <2>3. ASSUME pc[Host] = "freed"
        PROVE  /\ l.built = {}
               /\ pc[Worker] \in {"none", "exited"}
               /\ \A t \in Threads : noting[t] = "nothing" /\ (t \in Borrowers => pc[t] = "idle")
               /\ \A m \in Mutexes : owner[m] = None
               /\ \A u \in unproven : result[Host] = "uncreated" /\ u[1] = Worker
    <3>1. l.built = {} /\ pc[Worker] \in {"none", "exited"}
      BY <1>1, <2>3 DEF LifeInv, PartsHeld, WorkerLife
    <3>2. noting[Host] = "nothing" /\ noting[Worker] = "nothing"
      BY <1>1, <2>3 DEF LifeInv, WorkerLife, HostLife
    <3>3. \A b \in Borrowers : pc[b] = "idle" /\ noting[b] = "nothing"
      BY <1>1, <2>3 DEF LifeInv, LentOnly
    <3>4. \A t \in Threads : noting[t] = "nothing" /\ (t \in Borrowers => pc[t] = "idle")
      BY <3>2, <3>3, Roles
    <3>5. \A m \in Mutexes : owner[m] = None
      BY <1>1, <3>1 DEF LifeInv, LocksHeld
    <3>6. ASSUME NEW u \in unproven PROVE result[Host] = "uncreated" /\ u[1] = Worker
      <4>1. u[1] \in Threads
        BY <1>1 DEF Types, SharedTypes
      <4>2. l.synchronization_error /\ u[1] # Host
        BY <1>1, <2>3, <3>1, <3>4, <4>1, Roles DEF LifeInv, LocksHeld
      <4>3. result[Host] = "uncreated"
        BY <1>1, <2>3, <4>2 DEF LifeInv, HostLife
      <4>4. u[1] \notin Borrowers
        BY <1>1, <4>3 DEF LifeInv, LocksHeld
      <4> QED
        BY <4>1, <4>2, <4>3, <4>4, Roles
    <3> QED
      BY <3>1, <3>4, <3>5, <3>6
  <2>4. pc[Host] = "retained" => "memory" \in l.built
    BY <1>1 DEF LifeInv, PartsHeld
  <2> QED
    BY <2>1, <2>2, <2>3, <2>4 DEF LifetimesNest
<1> QED
  BY <1>1, TypesInvariant, LifeInvariant, PTL

-----------------------------------------------------------------------------
(* What logger_destroy answers for                                         *)

StoppingLabels == {"force_lock", "force", "force_failed", "join", "joined", "final_sync",
                   "destroy", "freed", "retained"}
Drained == q.dequeue_pos = Len(q.fifo) /\ batch = 0

\* A reserved position is published or its producer is about to publish it.
PositionsOwned ==
    \A i \in Positions : i \in q.published \/ \E p \in Producers : pc[p] = "publish" /\ slot[p] = i
\* The worker stops because an error was recorded or the host stops it.
StopCause ==
    /\ ~l.running => pc[Worker] = "none" \/ l.lifecycle_error \/ pc[Host] \in StoppingLabels
    /\ \A t \in Threads : noting[t] = "stop" => l.lifecycle_error
\* A worker that leaves has failed, on record, or has emptied the queue of a
\* logger that nobody uses any more.
EndCause ==
    pc[Worker] \in EndLabels =>
        \/ l.lifecycle_error \/ l.synchronization_error \/ noting[Worker] \in {"sync", "life"}
        \/ Drained /\ pc[Host] \in StoppingLabels
DestroyPromise ==
    pc[Host] \in {"destroy", "freed"} /\ result[Host] = "ok" =>
        accepted \subseteq durable /\ failed = {}

DestroyInv == PositionsOwned /\ StopCause /\ EndCause /\ DestroyPromise

\* A step that neither reserves nor publishes keeps the positions owned.
LEMMA OwnedFrame ==
    ASSUME PositionsOwned, q'.fifo = q.fifo, q'.published = q.published, slot' = slot,
           \A p \in Producers : pc[p] = "publish" => pc'[p] = "publish"
    PROVE  PositionsOwned'
BY DEF PositionsOwned, Positions

\* What a step leaves of the errors on record.
ErrorFrame ==
    /\ l.lifecycle_error => l'.lifecycle_error
    /\ l.synchronization_error => l'.synchronization_error
    /\ \A t \in Threads : noting'[t] = "stop" => noting[t] = "stop"

\* A borrower's step keeps what logger_destroy answers for.
LEMMA BorrowerClose ==
    ASSUME DestroyInv, pc[Host] = "using", PositionsOwned', ErrorFrame, l'.running = l.running,
           pc'[Host] = pc[Host], pc'[Worker] = pc[Worker], noting'[Worker] = noting[Worker]
    PROVE  DestroyInv'
<1>1. StopCause'
  BY DEF DestroyInv, StopCause, ErrorFrame, StoppingLabels
<1>2. EndCause'
  BY DEF DestroyInv, EndCause, ErrorFrame, StoppingLabels
<1>3. DestroyPromise'
  BY DEF DestroyPromise
<1> QED
  BY <1>1, <1>2, <1>3 DEF DestroyInv

\* The worker's step keeps it: a worker leaves with an error on record, or
\* stopped by the host and with the queue empty.
LEMMA WorkerClose ==
    ASSUME LifeInv, DestroyInv, pc[Worker] \notin {"none", "exited"}, PositionsOwned', ErrorFrame,
           l'.running = l.running, pc'[Host] = pc[Host], pc'[Worker] # "none",
           pc'[Worker] \in EndLabels =>
               \/ l.lifecycle_error \/ l.synchronization_error \/ noting'[Worker] \in {"sync", "life"}
               \/ Drained' /\ pc[Host] \in StoppingLabels
    PROVE  DestroyInv'
<1>1. pc[Host] \notin {"destroy", "freed"}
  BY DEF LifeInv, WorkerLife
<1>2. StopCause'
  BY DEF DestroyInv, StopCause, ErrorFrame
<1>3. EndCause'
  BY DEF EndCause, ErrorFrame
<1>4. DestroyPromise'
  BY <1>1 DEF DestroyPromise
<1> QED
  BY <1>2, <1>3, <1>4 DEF DestroyInv

\* The host's step keeps it, if what it answers is true.
LEMMA HostClose ==
    ASSUME DestroyInv, PositionsOwned', ErrorFrame, Drained' = Drained,
           pc'[Worker] = pc[Worker], noting'[Worker] = noting[Worker],
           ~l'.running => ~l.running \/ pc'[Host] \in StoppingLabels \/ pc[Worker] = "none",
           pc[Host] \in StoppingLabels => pc'[Host] \in StoppingLabels,
           DestroyPromise'
    PROVE  DestroyInv'
<1>1. StopCause'
  BY DEF DestroyInv, StopCause, ErrorFrame
<1>2. EndCause'
  BY DEF DestroyInv, EndCause, ErrorFrame
<1> QED
  BY <1>1, <1>2 DEF DestroyInv

\* When nobody publishes and the next position is unpublished, the queue is empty.
LEMMA NothingLeft ==
    ASSUME Types, RecordInv, LifeInv, PositionsOwned, pc[Host] # "using", QueueEmpty,
           pc[Worker] = "wait_end"
    PROVE  Drained
<1>1. Len(q.fifo) \in Nat /\ q.dequeue_pos \in Nat /\ q.dequeue_pos <= Len(q.fifo)
  BY RecordPlaces DEF Types, QueueTypes
<1>2. \A p \in Producers : pc[p] # "publish"
  BY Roles DEF LifeInv, LentOnly
<1>3. Positions \subseteq q.published
  BY <1>2 DEF PositionsOwned
<1>4. q.dequeue_pos + 1 \notin 1..Len(q.fifo)
  BY <1>3 DEF QueueEmpty, Positions
<1>5. q.dequeue_pos = Len(q.fifo)
  BY <1>1, <1>4
<1>6. batch = 0
  BY DEF RecordInv, WatermarkBehind, BatchLabels
<1> QED
  BY <1>5, <1>6 DEF Drained

\* At the last sync without an error on record every accepted record is counted.
LEMMA AcceptedCounted ==
    ASSUME Types, RecordInv, LifeInv, DestroyInv, pc[Host] = "final_sync",
           ~l.lifecycle_error, ~l.first_error
    PROVE  failed = {} /\ accepted \subseteq written
<1>1. failed = {} /\ emitted \subseteq written
  BY DEF RecordInv, FailureLatched, WrittenFirst
<1>2. l.async_mode \in BOOLEAN
  BY LoggerFieldTypes DEF Types
<1>3. CASE l.async_mode
  <2>1. pc[Worker] = "exited" /\ noting[Worker] = "nothing" /\ ~l.synchronization_error
    BY <1>3 DEF LifeInv, WorkerLife, HostLife
  <2>2. Drained
    BY <2>1 DEF DestroyInv, EndCause, EndLabels
  <2>3. Len(q.fifo) \in Nat
    BY RecordPlaces
  <2>4. \A i \in Positions : i <= Handled
    BY <2>1, <2>2, <2>3 DEF Drained, Positions, Handled
  <2>5. \A i \in Positions : q.fifo[i] \in emitted
    BY <1>1, <2>4 DEF RecordInv, CountedInOrder, Counted
  <2> QED
    BY <1>1, <2>5 DEF RecordInv, AcceptedKept
<1>4. CASE ~l.async_mode
  <2>1. Positions = {}
    BY <1>4 DEF RecordInv, QueueUse, Positions
  <2> QED
    BY <1>1, <2>1 DEF RecordInv, AcceptedKept
<1> QED
  BY <1>2, <1>3, <1>4

\* EnterLog keeps what logger_destroy answers for.
LEMMA EnterLogClose ==
    ASSUME Types, RecordInv, LifeInv, DestroyInv, NEW p \in Producers, EnterLog(p)
    PROVE  DestroyInv'
<1>1. p \in Borrowers /\ p \in Threads /\ p # Host /\ p # Worker
  BY Roles
<1>2. pc[Host] = "using"
  BY <1>1 DEF EnterLog, At
<1>3. ErrorFrame /\ l'.running = l.running
  <2>1. /\ l'.running = l.running /\ l'.lifecycle_error = l.lifecycle_error
        /\ l'.synchronization_error = l.synchronization_error
    BY DEF Types, LoggerFields, EnterLog
  <2>2. \A t \in Threads : noting'[t] = "stop" => noting[t] = "stop"
    BY DEF Types, LocalTypes, EnterLog
  <2> QED
    BY <2>1, <2>2 DEF ErrorFrame
<1>4. pc'[Host] = pc[Host] /\ pc'[Worker] = pc[Worker] /\ noting'[Worker] = noting[Worker]
  BY <1>1, Roles DEF Types, PcTypes, LocalTypes, EnterLog, Go
<1>5. PositionsOwned'
  <2>1. q'.fifo = q.fifo /\ q'.published = q.published /\ slot' = slot
    BY DEF Types, QueueTypes, QueueFields, EnterLog
  <2>2. \A o \in Producers : pc[o] = "publish" => pc'[o] = "publish"
    BY Roles DEF Types, PcTypes, EnterLog, Go, At
  <2> QED
    BY <2>1, <2>2, OwnedFrame DEF DestroyInv
<1> QED
  BY <1>2, <1>3, <1>4, <1>5, BorrowerClose

\* Push keeps what logger_destroy answers for.
LEMMA PushClose ==
    ASSUME Types, RecordInv, LifeInv, DestroyInv, NEW p \in Producers, Push(p)
    PROVE  DestroyInv'
<1>1. p \in Borrowers /\ p \in Threads /\ p # Host /\ p # Worker
  BY Roles
<1>2. pc[Host] = "using"
  BY <1>1 DEF Push, At, LifeInv, LentOnly
<1>3. ErrorFrame /\ l'.running = l.running
  <2>1. /\ l'.running = l.running /\ l'.lifecycle_error = l.lifecycle_error
        /\ l'.synchronization_error = l.synchronization_error
    BY DEF Types, LoggerFields, Push
  <2>2. \A t \in Threads : noting'[t] = "stop" => noting[t] = "stop"
    BY DEF Types, LocalTypes, Push
  <2> QED
    BY <2>1, <2>2 DEF ErrorFrame
<1>4. pc'[Host] = pc[Host] /\ pc'[Worker] = pc[Worker] /\ noting'[Worker] = noting[Worker]
  BY <1>1, Roles DEF Types, PcTypes, LocalTypes, Push, Go
<1>5. PositionsOwned'
  <2>1. /\ Len(q.fifo) \in Nat /\ Len(q'.fifo) = Len(q.fifo) + 1
    BY PushEffect, RecordPlaces
  <2>2. q'.published = q.published /\ slot'[p] = Len(q.fifo) + 1 /\ pc'[p] = "publish"
    BY Roles DEF Types, PcTypes, LocalTypes, QueueTypes, QueueFields, Push, Go
  <2>3. \A o \in Producers \ {p} : slot'[o] = slot[o] /\ pc'[o] = pc[o]
    BY Roles DEF Types, PcTypes, LocalTypes, Push, Go
  <2>4. \A i \in Positions' : i \in Positions \/ i = slot'[p]
    BY <2>1, <2>2 DEF Positions
  <2>5. pc[p] # "publish"
    BY DEF Push, At
  <2> QED
    BY <2>2, <2>3, <2>4, <2>5 DEF DestroyInv, PositionsOwned
<1> QED
  BY <1>2, <1>3, <1>4, <1>5, BorrowerClose

\* Refused keeps what logger_destroy answers for.
LEMMA RefusedClose ==
    ASSUME Types, RecordInv, LifeInv, DestroyInv, NEW p \in Producers, Refused(p)
    PROVE  DestroyInv'
<1>1. p \in Borrowers /\ p \in Threads /\ p # Host /\ p # Worker
  BY Roles
<1>2. pc[Host] = "using"
  BY <1>1 DEF Refused, At, LifeInv, LentOnly
<1>3. ErrorFrame /\ l'.running = l.running
  <2>1. /\ l'.running = l.running /\ l'.lifecycle_error = l.lifecycle_error
        /\ l'.synchronization_error = l.synchronization_error
    BY DEF Types, LoggerFields, Refused
  <2>2. \A t \in Threads : noting'[t] = "stop" => noting[t] = "stop"
    BY DEF Types, LocalTypes, Refused
  <2> QED
    BY <2>1, <2>2 DEF ErrorFrame
<1>4. pc'[Host] = pc[Host] /\ pc'[Worker] = pc[Worker] /\ noting'[Worker] = noting[Worker]
  BY <1>1, Roles DEF Types, PcTypes, LocalTypes, Refused, Go
<1>5. PositionsOwned'
  <2>1. q'.fifo = q.fifo /\ q'.published = q.published /\ slot' = slot
    BY DEF Types, QueueTypes, QueueFields, Refused
  <2>2. \A o \in Producers : pc[o] = "publish" => pc'[o] = "publish"
    BY Roles DEF Types, PcTypes, Refused, Go, At
  <2> QED
    BY <2>1, <2>2, OwnedFrame DEF DestroyInv
<1> QED
  BY <1>2, <1>3, <1>4, <1>5, BorrowerClose

\* Publish keeps what logger_destroy answers for.
LEMMA PublishClose ==
    ASSUME Types, RecordInv, LifeInv, DestroyInv, NEW p \in Producers, Publish(p)
    PROVE  DestroyInv'
<1>1. p \in Borrowers /\ p \in Threads /\ p # Host /\ p # Worker
  BY Roles
<1>2. pc[Host] = "using"
  BY <1>1 DEF Publish, At, LifeInv, LentOnly
<1>3. ErrorFrame /\ l'.running = l.running
  <2>1. /\ l'.running = l.running /\ l'.lifecycle_error = l.lifecycle_error
        /\ l'.synchronization_error = l.synchronization_error
    BY DEF Types, LoggerFields, Publish
  <2>2. \A t \in Threads : noting'[t] = "stop" => noting[t] = "stop"
    BY DEF Types, LocalTypes, Publish
  <2> QED
    BY <2>1, <2>2 DEF ErrorFrame
<1>4. pc'[Host] = pc[Host] /\ pc'[Worker] = pc[Worker] /\ noting'[Worker] = noting[Worker]
  BY <1>1, Roles DEF Types, PcTypes, LocalTypes, Publish, Go, locals
<1>5. PositionsOwned'
  <2>1. q'.fifo = q.fifo /\ q'.published = q.published \cup {slot[p]} /\ slot' = slot
    BY DEF Types, QueueTypes, QueueFields, Publish, locals
  <2>2. \A o \in Producers \ {p} : pc'[o] = pc[o]
    BY Roles DEF Types, PcTypes, Publish, Go
  <2> QED
    BY <2>1, <2>2 DEF DestroyInv, PositionsOwned, Positions
<1> QED
  BY <1>2, <1>3, <1>4, <1>5, BorrowerClose

\* Probe keeps what logger_destroy answers for.
LEMMA ProbeClose ==
    ASSUME Types, RecordInv, LifeInv, DestroyInv, NEW p \in Producers, Probe(p)
    PROVE  DestroyInv'
<1>1. p \in Borrowers /\ p \in Threads /\ p # Host /\ p # Worker
  BY Roles
<1>2. pc[Host] = "using"
  BY <1>1 DEF Probe, At, LifeInv, LentOnly
<1>3. ErrorFrame /\ l'.running = l.running
  <2>1. /\ l'.running = l.running /\ l'.lifecycle_error = l.lifecycle_error
        /\ l'.synchronization_error = l.synchronization_error
    BY DEF Types, LoggerFields, Probe
  <2>2. \A t \in Threads : noting'[t] = "stop" => noting[t] = "stop"
    BY DEF Types, LocalTypes, Probe
  <2> QED
    BY <2>1, <2>2 DEF ErrorFrame
<1>4. pc'[Host] = pc[Host] /\ pc'[Worker] = pc[Worker] /\ noting'[Worker] = noting[Worker]
  BY <1>1, Roles DEF Types, PcTypes, LocalTypes, Probe, Go
<1>5. PositionsOwned'
  <2>1. q'.fifo = q.fifo /\ q'.published = q.published /\ slot' = slot
    BY DEF Types, QueueTypes, QueueFields, Probe
  <2>2. \A o \in Producers : pc[o] = "publish" => pc'[o] = "publish"
    BY Roles DEF Types, PcTypes, Probe, Go, At
  <2> QED
    BY <2>1, <2>2, OwnedFrame DEF DestroyInv
<1> QED
  BY <1>2, <1>3, <1>4, <1>5, BorrowerClose

\* NotifyLock keeps what logger_destroy answers for.
LEMMA NotifyLockClose ==
    ASSUME Types, RecordInv, LifeInv, DestroyInv, NEW p \in Producers, NotifyLock(p)
    PROVE  DestroyInv'
<1>1. p \in Borrowers /\ p \in Threads /\ p # Host /\ p # Worker
  BY Roles
<1>2. pc[Host] = "using"
  BY <1>1 DEF NotifyLock, At, LifeInv, LentOnly
<1>3. ErrorFrame /\ l'.running = l.running
  <2>1. /\ l'.running = l.running /\ l'.lifecycle_error = l.lifecycle_error
        /\ l'.synchronization_error = l.synchronization_error
    BY DEF Types, LoggerFields, NotifyLock
  <2>2. \A t \in Threads : noting'[t] = "stop" => noting[t] = "stop"
    BY DEF Types, LocalTypes, NotifyLock, Note
  <2> QED
    BY <2>1, <2>2 DEF ErrorFrame
<1>4. pc'[Host] = pc[Host] /\ pc'[Worker] = pc[Worker] /\ noting'[Worker] = noting[Worker]
  BY <1>1, Roles DEF Types, PcTypes, LocalTypes, NotifyLock, Go, Note, locals
<1>5. PositionsOwned'
  <2>1. q'.fifo = q.fifo /\ q'.published = q.published /\ slot' = slot
    BY DEF Types, QueueTypes, QueueFields, NotifyLock, locals
  <2>2. \A o \in Producers : pc[o] = "publish" => pc'[o] = "publish"
    BY Roles DEF Types, PcTypes, NotifyLock, Go, At
  <2> QED
    BY <2>1, <2>2, OwnedFrame DEF DestroyInv
<1> QED
  BY <1>2, <1>3, <1>4, <1>5, BorrowerClose

\* Notify keeps what logger_destroy answers for.
LEMMA NotifyClose ==
    ASSUME Types, RecordInv, LifeInv, DestroyInv, NEW p \in Producers, Notify(p)
    PROVE  DestroyInv'
<1>1. p \in Borrowers /\ p \in Threads /\ p # Host /\ p # Worker
  BY Roles
<1>2. pc[Host] = "using"
  BY <1>1 DEF Notify, At, LifeInv, LentOnly
<1>3. ErrorFrame /\ l'.running = l.running
  <2>1. /\ l'.running = l.running /\ l'.lifecycle_error = l.lifecycle_error
        /\ l'.synchronization_error = l.synchronization_error
    BY DEF Types, LoggerFields, Notify
  <2>2. \A t \in Threads : noting'[t] = "stop" => noting[t] = "stop"
    BY DEF Types, LocalTypes, Notify, Note, NoteIf
  <2> QED
    BY <2>1, <2>2 DEF ErrorFrame
<1>4. pc'[Host] = pc[Host] /\ pc'[Worker] = pc[Worker] /\ noting'[Worker] = noting[Worker]
  BY <1>1, Roles DEF Types, PcTypes, LocalTypes, Notify, Go, Note, NoteIf
<1>5. PositionsOwned'
  <2>1. q'.fifo = q.fifo /\ q'.published = q.published /\ slot' = slot
    BY DEF Types, QueueTypes, QueueFields, Notify
  <2>2. \A o \in Producers : pc[o] = "publish" => pc'[o] = "publish"
    BY Roles DEF Types, PcTypes, Notify, Go, At
  <2> QED
    BY <2>1, <2>2, OwnedFrame DEF DestroyInv
<1> QED
  BY <1>2, <1>3, <1>4, <1>5, BorrowerClose

\* PushFailed keeps what logger_destroy answers for.
LEMMA PushFailedClose ==
    ASSUME Types, RecordInv, LifeInv, DestroyInv, NEW p \in Producers, PushFailed(p)
    PROVE  DestroyInv'
<1>1. p \in Borrowers /\ p \in Threads /\ p # Host /\ p # Worker
  BY Roles
<1>2. pc[Host] = "using"
  BY <1>1 DEF PushFailed, At, LifeInv, LentOnly
<1>3. ErrorFrame /\ l'.running = l.running
  <2>1. /\ l'.running = l.running /\ l'.lifecycle_error = l.lifecycle_error
        /\ l'.synchronization_error = l.synchronization_error
    BY DEF Types, LoggerFields, PushFailed
  <2>2. \A t \in Threads : noting'[t] = "stop" => noting[t] = "stop"
    BY DEF Types, LocalTypes, PushFailed, Note
  <2> QED
    BY <2>1, <2>2 DEF ErrorFrame
<1>4. pc'[Host] = pc[Host] /\ pc'[Worker] = pc[Worker] /\ noting'[Worker] = noting[Worker]
  BY <1>1, Roles DEF Types, PcTypes, LocalTypes, PushFailed, Go, Note
<1>5. PositionsOwned'
  <2>1. q'.fifo = q.fifo /\ q'.published = q.published /\ slot' = slot
    BY DEF Types, QueueTypes, QueueFields, PushFailed
  <2>2. \A o \in Producers : pc[o] = "publish" => pc'[o] = "publish"
    BY Roles DEF Types, PcTypes, PushFailed, Go, At
  <2> QED
    BY <2>1, <2>2, OwnedFrame DEF DestroyInv
<1> QED
  BY <1>2, <1>3, <1>4, <1>5, BorrowerClose

\* FormatStatus keeps what logger_destroy answers for.
LEMMA FormatStatusClose ==
    ASSUME Types, RecordInv, LifeInv, DestroyInv, NEW p \in Producers, FormatStatus(p)
    PROVE  DestroyInv'
<1>1. p \in Borrowers /\ p \in Threads /\ p # Host /\ p # Worker
  BY Roles
<1>2. pc[Host] = "using"
  BY <1>1 DEF FormatStatus, At, LifeInv, LentOnly
<1>3. ErrorFrame /\ l'.running = l.running
  <2>1. /\ l'.running = l.running /\ l'.lifecycle_error = l.lifecycle_error
        /\ l'.synchronization_error = l.synchronization_error
    BY DEF Types, LoggerFields, FormatStatus, Unsent
  <2>2. \A t \in Threads : noting'[t] = "stop" => noting[t] = "stop"
    BY DEF Types, LocalTypes, FormatStatus
  <2> QED
    BY <2>1, <2>2 DEF ErrorFrame
<1>4. pc'[Host] = pc[Host] /\ pc'[Worker] = pc[Worker] /\ noting'[Worker] = noting[Worker]
  BY <1>1, Roles DEF Types, PcTypes, LocalTypes, FormatStatus, Go, Unsent
<1>5. PositionsOwned'
  <2>1. q'.fifo = q.fifo /\ q'.published = q.published /\ slot' = slot
    BY DEF Types, QueueTypes, QueueFields, FormatStatus
  <2>2. \A o \in Producers : pc[o] = "publish" => pc'[o] = "publish"
    BY Roles DEF Types, PcTypes, FormatStatus, Go, At, Unsent
  <2> QED
    BY <2>1, <2>2, OwnedFrame DEF DestroyInv
<1> QED
  BY <1>2, <1>3, <1>4, <1>5, BorrowerClose

\* EmitCheck keeps what logger_destroy answers for.
LEMMA EmitCheckClose ==
    ASSUME Types, RecordInv, LifeInv, DestroyInv, NEW p \in Producers, EmitCheck(p)
    PROVE  DestroyInv'
<1>1. p \in Borrowers /\ p \in Threads /\ p # Host /\ p # Worker
  BY Roles
<1>2. pc[Host] = "using"
  BY <1>1 DEF EmitCheck, At, LifeInv, LentOnly
<1>3. ErrorFrame /\ l'.running = l.running
  <2>1. /\ l'.running = l.running /\ l'.lifecycle_error = l.lifecycle_error
        /\ l'.synchronization_error = l.synchronization_error
    BY DEF Types, LoggerFields, EmitCheck, Unsent
  <2>2. \A t \in Threads : noting'[t] = "stop" => noting[t] = "stop"
    BY DEF Types, LocalTypes, EmitCheck
  <2> QED
    BY <2>1, <2>2 DEF ErrorFrame
<1>4. pc'[Host] = pc[Host] /\ pc'[Worker] = pc[Worker] /\ noting'[Worker] = noting[Worker]
  BY <1>1, Roles DEF Types, PcTypes, LocalTypes, EmitCheck, Go, Unsent
<1>5. PositionsOwned'
  <2>1. q'.fifo = q.fifo /\ q'.published = q.published /\ slot' = slot
    BY DEF Types, QueueTypes, QueueFields, EmitCheck
  <2>2. \A o \in Producers : pc[o] = "publish" => pc'[o] = "publish"
    BY Roles DEF Types, PcTypes, EmitCheck, Go, At, Unsent
  <2> QED
    BY <2>1, <2>2, OwnedFrame DEF DestroyInv
<1> QED
  BY <1>2, <1>3, <1>4, <1>5, BorrowerClose

\* EmitLock keeps what logger_destroy answers for.
LEMMA EmitLockClose ==
    ASSUME Types, RecordInv, LifeInv, DestroyInv, NEW p \in Producers, EmitLock(p)
    PROVE  DestroyInv'
<1>1. p \in Borrowers /\ p \in Threads /\ p # Host /\ p # Worker
  BY Roles
<1>2. pc[Host] = "using"
  BY <1>1 DEF EmitLock, At, LifeInv, LentOnly
<1>3. ErrorFrame /\ l'.running = l.running
  <2>1. /\ l'.running = l.running /\ l'.lifecycle_error = l.lifecycle_error
        /\ l'.synchronization_error = l.synchronization_error
    BY DEF Types, LoggerFields, EmitLock, Unsent
  <2>2. \A t \in Threads : noting'[t] = "stop" => noting[t] = "stop"
    BY DEF Types, LocalTypes, EmitLock
  <2> QED
    BY <2>1, <2>2 DEF ErrorFrame
<1>4. pc'[Host] = pc[Host] /\ pc'[Worker] = pc[Worker] /\ noting'[Worker] = noting[Worker]
  BY <1>1, Roles DEF Types, PcTypes, LocalTypes, EmitLock, Go, Unsent
<1>5. PositionsOwned'
  <2>1. q'.fifo = q.fifo /\ q'.published = q.published /\ slot' = slot
    BY DEF Types, QueueTypes, QueueFields, EmitLock
  <2>2. \A o \in Producers : pc[o] = "publish" => pc'[o] = "publish"
    BY Roles DEF Types, PcTypes, EmitLock, Go, At, Unsent
  <2> QED
    BY <2>1, <2>2, OwnedFrame DEF DestroyInv
<1> QED
  BY <1>2, <1>3, <1>4, <1>5, BorrowerClose

\* EmitStatus keeps what logger_destroy answers for.
LEMMA EmitStatusClose ==
    ASSUME Types, RecordInv, LifeInv, DestroyInv, NEW p \in Producers, EmitStatus(p)
    PROVE  DestroyInv'
<1>1. p \in Borrowers /\ p \in Threads /\ p # Host /\ p # Worker
  BY Roles
<1>2. pc[Host] = "using"
  BY <1>1 DEF EmitStatus, At, LifeInv, LentOnly
<1>3. ErrorFrame /\ l'.running = l.running
  <2>1. /\ l'.running = l.running /\ l'.lifecycle_error = l.lifecycle_error
        /\ l'.synchronization_error = l.synchronization_error
    BY DEF Types, LoggerFields, EmitStatus
  <2>2. \A t \in Threads : noting'[t] = "stop" => noting[t] = "stop"
    BY DEF Types, LocalTypes, EmitStatus, Note, NoteIf
  <2> QED
    BY <2>1, <2>2 DEF ErrorFrame
<1>4. pc'[Host] = pc[Host] /\ pc'[Worker] = pc[Worker] /\ noting'[Worker] = noting[Worker]
  BY <1>1, Roles DEF Types, PcTypes, LocalTypes, EmitStatus, Go, Note, NoteIf
<1>5. PositionsOwned'
  <2>1. q'.fifo = q.fifo /\ q'.published = q.published /\ slot' = slot
    BY DEF Types, QueueTypes, QueueFields, EmitStatus
  <2>2. \A o \in Producers : pc[o] = "publish" => pc'[o] = "publish"
    BY Roles DEF Types, PcTypes, EmitStatus, Go, At
  <2> QED
    BY <2>1, <2>2, OwnedFrame DEF DestroyInv
<1> QED
  BY <1>2, <1>3, <1>4, <1>5, BorrowerClose

\* EnterFlush keeps what logger_destroy answers for.
LEMMA EnterFlushClose ==
    ASSUME Types, RecordInv, LifeInv, DestroyInv, NEW f \in Flushers, EnterFlush(f)
    PROVE  DestroyInv'
<1>1. f \in Borrowers /\ f \in Threads /\ f # Host /\ f # Worker
  BY Roles
<1>2. pc[Host] = "using"
  BY <1>1 DEF EnterFlush, At
<1>3. ErrorFrame /\ l'.running = l.running
  <2>1. /\ l'.running = l.running /\ l'.lifecycle_error = l.lifecycle_error
        /\ l'.synchronization_error = l.synchronization_error
    BY DEF Types, LoggerFields, EnterFlush
  <2>2. \A t \in Threads : noting'[t] = "stop" => noting[t] = "stop"
    BY DEF Types, LocalTypes, EnterFlush
  <2> QED
    BY <2>1, <2>2 DEF ErrorFrame
<1>4. pc'[Host] = pc[Host] /\ pc'[Worker] = pc[Worker] /\ noting'[Worker] = noting[Worker]
  BY <1>1, Roles DEF Types, PcTypes, LocalTypes, EnterFlush, Go
<1>5. PositionsOwned'
  <2>1. q'.fifo = q.fifo /\ q'.published = q.published /\ slot' = slot
    BY DEF Types, QueueTypes, QueueFields, EnterFlush
  <2>2. \A p \in Producers : pc[p] = "publish" => pc'[p] = "publish"
    BY Roles DEF Types, PcTypes, EnterFlush, Go, At
  <2> QED
    BY <2>1, <2>2, OwnedFrame DEF DestroyInv
<1> QED
  BY <1>2, <1>3, <1>4, <1>5, BorrowerClose

\* FlushCheck keeps what logger_destroy answers for.
LEMMA FlushCheckClose ==
    ASSUME Types, RecordInv, LifeInv, DestroyInv, NEW f \in Flushers, FlushCheck(f)
    PROVE  DestroyInv'
<1>1. f \in Borrowers /\ f \in Threads /\ f # Host /\ f # Worker
  BY Roles
<1>2. pc[Host] = "using"
  BY <1>1 DEF FlushCheck, At, LifeInv, LentOnly
<1>3. ErrorFrame /\ l'.running = l.running
  <2>1. /\ l'.running = l.running /\ l'.lifecycle_error = l.lifecycle_error
        /\ l'.synchronization_error = l.synchronization_error
    BY DEF Types, LoggerFields, FlushCheck
  <2>2. \A t \in Threads : noting'[t] = "stop" => noting[t] = "stop"
    BY DEF Types, LocalTypes, FlushCheck
  <2> QED
    BY <2>1, <2>2 DEF ErrorFrame
<1>4. pc'[Host] = pc[Host] /\ pc'[Worker] = pc[Worker] /\ noting'[Worker] = noting[Worker]
  BY <1>1, Roles DEF Types, PcTypes, LocalTypes, FlushCheck, Go
<1>5. PositionsOwned'
  <2>1. q'.fifo = q.fifo /\ q'.published = q.published /\ slot' = slot
    BY DEF Types, QueueTypes, QueueFields, FlushCheck
  <2>2. \A p \in Producers : pc[p] = "publish" => pc'[p] = "publish"
    BY Roles DEF Types, PcTypes, FlushCheck, Go, At
  <2> QED
    BY <2>1, <2>2, OwnedFrame DEF DestroyInv
<1> QED
  BY <1>2, <1>3, <1>4, <1>5, BorrowerClose

\* FlushTarget keeps what logger_destroy answers for.
LEMMA FlushTargetClose ==
    ASSUME Types, RecordInv, LifeInv, DestroyInv, NEW f \in Flushers, FlushTarget(f)
    PROVE  DestroyInv'
<1>1. f \in Borrowers /\ f \in Threads /\ f # Host /\ f # Worker
  BY Roles
<1>2. pc[Host] = "using"
  BY <1>1 DEF FlushTarget, At, LifeInv, LentOnly
<1>3. ErrorFrame /\ l'.running = l.running
  <2>1. /\ l'.running = l.running /\ l'.lifecycle_error = l.lifecycle_error
        /\ l'.synchronization_error = l.synchronization_error
    BY DEF Types, LoggerFields, FlushTarget
  <2>2. \A t \in Threads : noting'[t] = "stop" => noting[t] = "stop"
    BY DEF Types, LocalTypes, FlushTarget
  <2> QED
    BY <2>1, <2>2 DEF ErrorFrame
<1>4. pc'[Host] = pc[Host] /\ pc'[Worker] = pc[Worker] /\ noting'[Worker] = noting[Worker]
  BY <1>1, Roles DEF Types, PcTypes, LocalTypes, FlushTarget, Go
<1>5. PositionsOwned'
  <2>1. q'.fifo = q.fifo /\ q'.published = q.published /\ slot' = slot
    BY DEF Types, QueueTypes, QueueFields, FlushTarget
  <2>2. \A p \in Producers : pc[p] = "publish" => pc'[p] = "publish"
    BY Roles DEF Types, PcTypes, FlushTarget, Go, At
  <2> QED
    BY <2>1, <2>2, OwnedFrame DEF DestroyInv
<1> QED
  BY <1>2, <1>3, <1>4, <1>5, BorrowerClose

\* FlushLock keeps what logger_destroy answers for.
LEMMA FlushLockClose ==
    ASSUME Types, RecordInv, LifeInv, DestroyInv, NEW f \in Flushers, FlushLock(f)
    PROVE  DestroyInv'
<1>1. f \in Borrowers /\ f \in Threads /\ f # Host /\ f # Worker
  BY Roles
<1>2. pc[Host] = "using"
  BY <1>1 DEF FlushLock, At, LifeInv, LentOnly
<1>3. ErrorFrame /\ l'.running = l.running
  <2>1. /\ l'.running = l.running /\ l'.lifecycle_error = l.lifecycle_error
        /\ l'.synchronization_error = l.synchronization_error
    BY DEF Types, LoggerFields, FlushLock
  <2>2. \A t \in Threads : noting'[t] = "stop" => noting[t] = "stop"
    BY DEF Types, LocalTypes, FlushLock
  <2> QED
    BY <2>1, <2>2 DEF ErrorFrame
<1>4. pc'[Host] = pc[Host] /\ pc'[Worker] = pc[Worker] /\ noting'[Worker] = noting[Worker]
  BY <1>1, Roles DEF Types, PcTypes, LocalTypes, FlushLock, Go
<1>5. PositionsOwned'
  <2>1. q'.fifo = q.fifo /\ q'.published = q.published /\ slot' = slot
    BY DEF Types, QueueTypes, QueueFields, FlushLock
  <2>2. \A p \in Producers : pc[p] = "publish" => pc'[p] = "publish"
    BY Roles DEF Types, PcTypes, FlushLock, Go, At
  <2> QED
    BY <2>1, <2>2, OwnedFrame DEF DestroyInv
<1> QED
  BY <1>2, <1>3, <1>4, <1>5, BorrowerClose

\* FlushTest keeps what logger_destroy answers for.
LEMMA FlushTestClose ==
    ASSUME Types, RecordInv, LifeInv, DestroyInv, NEW f \in Flushers, FlushTest(f)
    PROVE  DestroyInv'
<1>1. f \in Borrowers /\ f \in Threads /\ f # Host /\ f # Worker
  BY Roles
<1>2. pc[Host] = "using"
  BY <1>1 DEF FlushTest, At, LifeInv, LentOnly
<1>3. ErrorFrame /\ l'.running = l.running
  <2>1. /\ l'.running = l.running /\ l'.lifecycle_error = l.lifecycle_error
        /\ l'.synchronization_error = l.synchronization_error
    BY DEF Types, LoggerFields, FlushTest
  <2>2. \A t \in Threads : noting'[t] = "stop" => noting[t] = "stop"
    BY DEF Types, LocalTypes, FlushTest, Note, NoteIf
  <2> QED
    BY <2>1, <2>2 DEF ErrorFrame
<1>4. pc'[Host] = pc[Host] /\ pc'[Worker] = pc[Worker] /\ noting'[Worker] = noting[Worker]
  BY <1>1, Roles DEF Types, PcTypes, LocalTypes, FlushTest, Go, Note, NoteIf
<1>5. PositionsOwned'
  <2>1. q'.fifo = q.fifo /\ q'.published = q.published /\ slot' = slot
    BY DEF Types, QueueTypes, QueueFields, FlushTest
  <2>2. \A p \in Producers : pc[p] = "publish" => pc'[p] = "publish"
    BY Roles DEF Types, PcTypes, FlushTest, Go, At
  <2> QED
    BY <2>1, <2>2, OwnedFrame DEF DestroyInv
<1> QED
  BY <1>2, <1>3, <1>4, <1>5, BorrowerClose

\* FlushAwake keeps what logger_destroy answers for.
LEMMA FlushAwakeClose ==
    ASSUME Types, RecordInv, LifeInv, DestroyInv, NEW f \in Flushers, FlushAwake(f)
    PROVE  DestroyInv'
<1>1. f \in Borrowers /\ f \in Threads /\ f # Host /\ f # Worker
  BY Roles
<1>2. pc[Host] = "using"
  BY <1>1 DEF FlushAwake, At, LifeInv, LentOnly
<1>3. ErrorFrame /\ l'.running = l.running
  <2>1. /\ l'.running = l.running /\ l'.lifecycle_error = l.lifecycle_error
        /\ l'.synchronization_error = l.synchronization_error
    BY DEF Types, LoggerFields, FlushAwake
  <2>2. \A t \in Threads : noting'[t] = "stop" => noting[t] = "stop"
    BY DEF Types, LocalTypes, FlushAwake
  <2> QED
    BY <2>1, <2>2 DEF ErrorFrame
<1>4. pc'[Host] = pc[Host] /\ pc'[Worker] = pc[Worker] /\ noting'[Worker] = noting[Worker]
  BY <1>1, Roles DEF Types, PcTypes, LocalTypes, FlushAwake, Go, locals
<1>5. PositionsOwned'
  <2>1. q'.fifo = q.fifo /\ q'.published = q.published /\ slot' = slot
    BY DEF Types, QueueTypes, QueueFields, FlushAwake, locals
  <2>2. \A p \in Producers : pc[p] = "publish" => pc'[p] = "publish"
    BY Roles DEF Types, PcTypes, FlushAwake, Go, At
  <2> QED
    BY <2>1, <2>2, OwnedFrame DEF DestroyInv
<1> QED
  BY <1>2, <1>3, <1>4, <1>5, BorrowerClose

\* FlushError keeps what logger_destroy answers for.
LEMMA FlushErrorClose ==
    ASSUME Types, RecordInv, LifeInv, DestroyInv, NEW f \in Flushers, FlushError(f)
    PROVE  DestroyInv'
<1>1. f \in Borrowers /\ f \in Threads /\ f # Host /\ f # Worker
  BY Roles
<1>2. pc[Host] = "using"
  BY <1>1 DEF FlushError, At, LifeInv, LentOnly
<1>3. ErrorFrame /\ l'.running = l.running
  <2>1. /\ l'.running = l.running /\ l'.lifecycle_error = l.lifecycle_error
        /\ l'.synchronization_error = l.synchronization_error
    BY DEF Types, LoggerFields, FlushError
  <2>2. \A t \in Threads : noting'[t] = "stop" => noting[t] = "stop"
    BY DEF Types, LocalTypes, FlushError
  <2> QED
    BY <2>1, <2>2 DEF ErrorFrame
<1>4. pc'[Host] = pc[Host] /\ pc'[Worker] = pc[Worker] /\ noting'[Worker] = noting[Worker]
  BY <1>1, Roles DEF Types, PcTypes, LocalTypes, FlushError, Go
<1>5. PositionsOwned'
  <2>1. q'.fifo = q.fifo /\ q'.published = q.published /\ slot' = slot
    BY DEF Types, QueueTypes, QueueFields, FlushError
  <2>2. \A p \in Producers : pc[p] = "publish" => pc'[p] = "publish"
    BY Roles DEF Types, PcTypes, FlushError, Go, At
  <2> QED
    BY <2>1, <2>2, OwnedFrame DEF DestroyInv
<1> QED
  BY <1>2, <1>3, <1>4, <1>5, BorrowerClose

\* SyncCheck keeps what logger_destroy answers for.
LEMMA SyncCheckClose ==
    ASSUME Types, RecordInv, LifeInv, DestroyInv, NEW f \in Flushers, SyncCheck(f)
    PROVE  DestroyInv'
<1>1. f \in Borrowers /\ f \in Threads /\ f # Host /\ f # Worker
  BY Roles
<1>2. pc[Host] = "using"
  BY <1>1 DEF SyncCheck, At, LifeInv, LentOnly
<1>3. ErrorFrame /\ l'.running = l.running
  <2>1. /\ l'.running = l.running /\ l'.lifecycle_error = l.lifecycle_error
        /\ l'.synchronization_error = l.synchronization_error
    BY DEF Types, LoggerFields, SyncCheck
  <2>2. \A t \in Threads : noting'[t] = "stop" => noting[t] = "stop"
    BY DEF Types, LocalTypes, SyncCheck
  <2> QED
    BY <2>1, <2>2 DEF ErrorFrame
<1>4. pc'[Host] = pc[Host] /\ pc'[Worker] = pc[Worker] /\ noting'[Worker] = noting[Worker]
  BY <1>1, Roles DEF Types, PcTypes, LocalTypes, SyncCheck, Go
<1>5. PositionsOwned'
  <2>1. q'.fifo = q.fifo /\ q'.published = q.published /\ slot' = slot
    BY DEF Types, QueueTypes, QueueFields, SyncCheck
  <2>2. \A p \in Producers : pc[p] = "publish" => pc'[p] = "publish"
    BY Roles DEF Types, PcTypes, SyncCheck, Go, At
  <2> QED
    BY <2>1, <2>2, OwnedFrame DEF DestroyInv
<1> QED
  BY <1>2, <1>3, <1>4, <1>5, BorrowerClose

\* SyncLock keeps what logger_destroy answers for.
LEMMA SyncLockClose ==
    ASSUME Types, RecordInv, LifeInv, DestroyInv, NEW f \in Flushers, SyncLock(f)
    PROVE  DestroyInv'
<1>1. f \in Borrowers /\ f \in Threads /\ f # Host /\ f # Worker
  BY Roles
<1>2. pc[Host] = "using"
  BY <1>1 DEF SyncLock, At, LifeInv, LentOnly
<1>3. ErrorFrame /\ l'.running = l.running
  <2>1. /\ l'.running = l.running /\ l'.lifecycle_error = l.lifecycle_error
        /\ l'.synchronization_error = l.synchronization_error
    BY DEF Types, LoggerFields, SyncLock
  <2>2. \A t \in Threads : noting'[t] = "stop" => noting[t] = "stop"
    BY DEF Types, LocalTypes, SyncLock
  <2> QED
    BY <2>1, <2>2 DEF ErrorFrame
<1>4. pc'[Host] = pc[Host] /\ pc'[Worker] = pc[Worker] /\ noting'[Worker] = noting[Worker]
  BY <1>1, Roles DEF Types, PcTypes, LocalTypes, SyncLock, Go
<1>5. PositionsOwned'
  <2>1. q'.fifo = q.fifo /\ q'.published = q.published /\ slot' = slot
    BY DEF Types, QueueTypes, QueueFields, SyncLock
  <2>2. \A p \in Producers : pc[p] = "publish" => pc'[p] = "publish"
    BY Roles DEF Types, PcTypes, SyncLock, Go, At
  <2> QED
    BY <2>1, <2>2, OwnedFrame DEF DestroyInv
<1> QED
  BY <1>2, <1>3, <1>4, <1>5, BorrowerClose

\* Sync keeps what logger_destroy answers for.
LEMMA SyncClose ==
    ASSUME Types, RecordInv, LifeInv, DestroyInv, NEW f \in Flushers, Sync(f)
    PROVE  DestroyInv'
<1>1. f \in Borrowers /\ f \in Threads /\ f # Host /\ f # Worker
  BY Roles
<1>2. pc[Host] = "using"
  BY <1>1 DEF Sync, At, LifeInv, LentOnly
<1>3. ErrorFrame /\ l'.running = l.running
  <2>1. /\ l'.running = l.running /\ l'.lifecycle_error = l.lifecycle_error
        /\ l'.synchronization_error = l.synchronization_error
    BY DEF Types, LoggerFields, Sync, SyncOutputs
  <2>2. \A t \in Threads : noting'[t] = "stop" => noting[t] = "stop"
    BY DEF Types, LocalTypes, Sync, Note, NoteIf, SyncOutputs
  <2> QED
    BY <2>1, <2>2 DEF ErrorFrame
<1>4. pc'[Host] = pc[Host] /\ pc'[Worker] = pc[Worker] /\ noting'[Worker] = noting[Worker]
  BY <1>1, Roles DEF Types, PcTypes, LocalTypes, Sync, Go, Note, NoteIf, SyncOutputs
<1>5. PositionsOwned'
  <2>1. q'.fifo = q.fifo /\ q'.published = q.published /\ slot' = slot
    BY DEF Types, QueueTypes, QueueFields, Sync
  <2>2. \A p \in Producers : pc[p] = "publish" => pc'[p] = "publish"
    BY Roles DEF Types, PcTypes, Sync, Go, At
  <2> QED
    BY <2>1, <2>2, OwnedFrame DEF DestroyInv
<1> QED
  BY <1>2, <1>3, <1>4, <1>5, BorrowerClose

\* ForceLock keeps what logger_destroy answers for, in a producer.
LEMMA ForceLockLentClose ==
    ASSUME Types, RecordInv, LifeInv, DestroyInv, NEW p \in Producers, ForceLock(p)
    PROVE  DestroyInv'
<1>1. p \in Borrowers /\ p \in Threads /\ p # Host /\ p # Worker
  BY Roles
<1>2. pc[Host] = "using"
  BY <1>1 DEF ForceLock, At, LifeInv, LentOnly
<1>3. ErrorFrame /\ l'.running = l.running
  <2>1. /\ l'.running = l.running /\ l'.lifecycle_error = l.lifecycle_error
        /\ l'.synchronization_error = l.synchronization_error
    BY DEF Types, LoggerFields, ForceLock
  <2>2. \A t \in Threads : noting'[t] = "stop" => noting[t] = "stop"
    BY DEF Types, LocalTypes, ForceLock, Note
  <2> QED
    BY <2>1, <2>2 DEF ErrorFrame
<1>4. pc'[Host] = pc[Host] /\ pc'[Worker] = pc[Worker] /\ noting'[Worker] = noting[Worker]
  BY <1>1, Roles DEF Types, PcTypes, LocalTypes, ForceLock, Go, Note, locals
<1>5. PositionsOwned'
  <2>1. q'.fifo = q.fifo /\ q'.published = q.published /\ slot' = slot
    BY DEF Types, QueueTypes, QueueFields, ForceLock, locals
  <2>2. \A o \in Producers : pc[o] = "publish" => pc'[o] = "publish"
    BY Roles DEF Types, PcTypes, ForceLock, Go, At
  <2> QED
    BY <2>1, <2>2, OwnedFrame DEF DestroyInv
<1> QED
  BY <1>2, <1>3, <1>4, <1>5, BorrowerClose

\* WakeForce keeps what logger_destroy answers for, in a producer.
LEMMA WakeForceLentClose ==
    ASSUME Types, RecordInv, LifeInv, DestroyInv, NEW p \in Producers, WakeForce(p)
    PROVE  DestroyInv'
<1>1. p \in Borrowers /\ p \in Threads /\ p # Host /\ p # Worker
  BY Roles
<1>2. pc[Host] = "using"
  BY <1>1 DEF WakeForce, At, LifeInv, LentOnly
<1>3. ErrorFrame /\ l'.running = l.running
  <2>1. /\ l'.running = l.running /\ l'.lifecycle_error = l.lifecycle_error
        /\ l'.synchronization_error = l.synchronization_error
    BY DEF Types, LoggerFields, WakeForce
  <2>2. \A t \in Threads : noting'[t] = "stop" => noting[t] = "stop"
    BY DEF Types, LocalTypes, WakeForce, Note, NoteIf
  <2> QED
    BY <2>1, <2>2 DEF ErrorFrame
<1>4. pc'[Host] = pc[Host] /\ pc'[Worker] = pc[Worker] /\ noting'[Worker] = noting[Worker]
  BY <1>1, Roles DEF Types, PcTypes, LocalTypes, WakeForce, Go, Note, NoteIf
<1>5. PositionsOwned'
  <2>1. q'.fifo = q.fifo /\ q'.published = q.published /\ slot' = slot
    BY DEF Types, QueueTypes, QueueFields, WakeForce
  <2>2. \A o \in Producers : pc[o] = "publish" => pc'[o] = "publish"
    BY Roles DEF Types, PcTypes, WakeForce, Go, At
  <2> QED
    BY <2>1, <2>2, OwnedFrame DEF DestroyInv
<1> QED
  BY <1>2, <1>3, <1>4, <1>5, BorrowerClose

\* ForceFailed keeps what logger_destroy answers for, in a producer.
LEMMA ForceFailedLentClose ==
    ASSUME Types, RecordInv, LifeInv, DestroyInv, NEW p \in Producers, ForceFailed(p)
    PROVE  DestroyInv'
<1>1. p \in Borrowers /\ p \in Threads /\ p # Host /\ p # Worker
  BY Roles
<1>2. pc[Host] = "using"
  BY <1>1 DEF ForceFailed, At, LifeInv, LentOnly
<1>3. ErrorFrame /\ l'.running = l.running
  <2>1. /\ l'.running = l.running /\ l'.lifecycle_error = l.lifecycle_error
        /\ l'.synchronization_error = l.synchronization_error
    BY DEF Types, LoggerFields, ForceFailed
  <2>2. \A t \in Threads : noting'[t] = "stop" => noting[t] = "stop"
    BY DEF Types, LocalTypes, ForceFailed, Note, NoteIf
  <2> QED
    BY <2>1, <2>2 DEF ErrorFrame
<1>4. pc'[Host] = pc[Host] /\ pc'[Worker] = pc[Worker] /\ noting'[Worker] = noting[Worker]
  BY <1>1, Roles DEF Types, PcTypes, LocalTypes, ForceFailed, Go, Note, NoteIf
<1>5. PositionsOwned'
  <2>1. q'.fifo = q.fifo /\ q'.published = q.published /\ slot' = slot
    BY DEF Types, QueueTypes, QueueFields, ForceFailed
  <2>2. \A o \in Producers : pc[o] = "publish" => pc'[o] = "publish"
    BY Roles DEF Types, PcTypes, ForceFailed, Go, At
  <2> QED
    BY <2>1, <2>2, OwnedFrame DEF DestroyInv
<1> QED
  BY <1>2, <1>3, <1>4, <1>5, BorrowerClose

\* Drain keeps what logger_destroy answers for.
LEMMA DrainClose ==
    ASSUME Types, RecordInv, LifeInv, DestroyInv, Drain
    PROVE  DestroyInv'
<1>1. pc[Worker] \notin {"none", "exited"} /\ noting[Worker] = "nothing"
  BY DEF Drain, At
<1>2. ErrorFrame /\ l'.running = l.running
  <2>1. /\ l'.running = l.running /\ l'.lifecycle_error = l.lifecycle_error
        /\ l'.synchronization_error = l.synchronization_error
    BY DEF Types, LoggerFields, Drain
  <2>2. \A t \in Threads : noting'[t] = "stop" => noting[t] = "stop"
    BY DEF Types, LocalTypes, Drain
  <2> QED
    BY <2>1, <2>2 DEF ErrorFrame
<1>3. pc'[Host] = pc[Host] /\ pc'[Worker] # "none"
  BY <1>1, Roles DEF Types, PcTypes, Drain, At
<1>4. PositionsOwned'
  <2>1. q'.fifo = q.fifo /\ q'.published = q.published /\ slot' = slot
    BY DEF Types, QueueTypes, QueueFields, Drain
  <2>2. \A p \in Producers : pc[p] = "publish" => pc'[p] = "publish"
    BY Roles DEF Types, PcTypes, Drain, At
  <2> QED
    BY <2>1, <2>2, OwnedFrame DEF DestroyInv
<1>5. pc'[Worker] \in EndLabels =>
        \/ l.lifecycle_error \/ l.synchronization_error \/ noting'[Worker] \in {"sync", "life"}
        \/ Drained' /\ pc[Host] \in StoppingLabels
  BY Roles DEF Types, PcTypes, LocalTypes, EndLabels, Drain, At
<1> QED
  BY <1>1, <1>2, <1>3, <1>4, <1>5, WorkerClose

\* DrainEnd keeps what logger_destroy answers for.
LEMMA DrainEndClose ==
    ASSUME Types, RecordInv, LifeInv, DestroyInv, DrainEnd
    PROVE  DestroyInv'
<1>1. pc[Worker] \notin {"none", "exited"} /\ noting[Worker] = "nothing"
  BY DEF DrainEnd, At
<1>2. ErrorFrame /\ l'.running = l.running
  <2>1. /\ l'.running = l.running /\ l'.lifecycle_error = l.lifecycle_error
        /\ l'.synchronization_error = l.synchronization_error
    BY DEF Types, LoggerFields, DrainEnd
  <2>2. \A t \in Threads : noting'[t] = "stop" => noting[t] = "stop"
    BY DEF Types, LocalTypes, DrainEnd
  <2> QED
    BY <2>1, <2>2 DEF ErrorFrame
<1>3. pc'[Host] = pc[Host] /\ pc'[Worker] # "none"
  BY <1>1, Roles DEF Types, PcTypes, DrainEnd, Go, At
<1>4. PositionsOwned'
  <2>1. q'.fifo = q.fifo /\ q'.published = q.published /\ slot' = slot
    BY DEF Types, QueueTypes, QueueFields, DrainEnd, locals
  <2>2. \A p \in Producers : pc[p] = "publish" => pc'[p] = "publish"
    BY Roles DEF Types, PcTypes, DrainEnd, Go, At
  <2> QED
    BY <2>1, <2>2, OwnedFrame DEF DestroyInv
<1>5. pc'[Worker] \in EndLabels =>
        \/ l.lifecycle_error \/ l.synchronization_error \/ noting'[Worker] \in {"sync", "life"}
        \/ Drained' /\ pc[Host] \in StoppingLabels
  BY Roles DEF Types, PcTypes, LocalTypes, EndLabels, DrainEnd, Go, At
<1> QED
  BY <1>1, <1>2, <1>3, <1>4, <1>5, WorkerClose

\* BatchFormat keeps what logger_destroy answers for.
LEMMA BatchFormatClose ==
    ASSUME Types, RecordInv, LifeInv, DestroyInv, BatchFormat
    PROVE  DestroyInv'
<1>1. pc[Worker] \notin {"none", "exited"} /\ noting[Worker] = "nothing"
  BY DEF BatchFormat, At
<1>2. ErrorFrame /\ l'.running = l.running
  <2>1. /\ l'.running = l.running /\ l'.lifecycle_error = l.lifecycle_error
        /\ l'.synchronization_error = l.synchronization_error
    BY DEF Types, LoggerFields, BatchFormat
  <2>2. \A t \in Threads : noting'[t] = "stop" => noting[t] = "stop"
    BY DEF Types, LocalTypes, BatchFormat
  <2> QED
    BY <2>1, <2>2 DEF ErrorFrame
<1>3. pc'[Host] = pc[Host] /\ pc'[Worker] # "none"
  BY <1>1, Roles DEF Types, PcTypes, BatchFormat, Go, At
<1>4. PositionsOwned'
  <2>1. q'.fifo = q.fifo /\ q'.published = q.published /\ slot' = slot
    BY DEF Types, QueueTypes, QueueFields, BatchFormat, locals
  <2>2. \A p \in Producers : pc[p] = "publish" => pc'[p] = "publish"
    BY Roles DEF Types, PcTypes, BatchFormat, Go, At
  <2> QED
    BY <2>1, <2>2, OwnedFrame DEF DestroyInv
<1>5. pc'[Worker] \in EndLabels =>
        \/ l.lifecycle_error \/ l.synchronization_error \/ noting'[Worker] \in {"sync", "life"}
        \/ Drained' /\ pc[Host] \in StoppingLabels
  BY Roles DEF Types, PcTypes, LocalTypes, EndLabels, BatchFormat, Go, At
<1> QED
  BY <1>1, <1>2, <1>3, <1>4, <1>5, WorkerClose

\* BatchLock keeps what logger_destroy answers for.
LEMMA BatchLockClose ==
    ASSUME Types, RecordInv, LifeInv, DestroyInv, BatchLock
    PROVE  DestroyInv'
<1>1. pc[Worker] \notin {"none", "exited"} /\ noting[Worker] = "nothing"
  BY DEF BatchLock, At
<1>2. ErrorFrame /\ l'.running = l.running
  <2>1. /\ l'.running = l.running /\ l'.lifecycle_error = l.lifecycle_error
        /\ l'.synchronization_error = l.synchronization_error
    BY DEF Types, LoggerFields, BatchLock
  <2>2. \A t \in Threads : noting'[t] = "stop" => noting[t] = "stop"
    BY DEF Types, LocalTypes, BatchLock, Note
  <2> QED
    BY <2>1, <2>2 DEF ErrorFrame
<1>3. pc'[Host] = pc[Host] /\ pc'[Worker] # "none"
  BY <1>1, Roles DEF Types, PcTypes, BatchLock, Go, At
<1>4. PositionsOwned'
  <2>1. q'.fifo = q.fifo /\ q'.published = q.published /\ slot' = slot
    BY DEF Types, QueueTypes, QueueFields, BatchLock, locals
  <2>2. \A p \in Producers : pc[p] = "publish" => pc'[p] = "publish"
    BY Roles DEF Types, PcTypes, BatchLock, Go, At
  <2> QED
    BY <2>1, <2>2, OwnedFrame DEF DestroyInv
<1>5. pc'[Worker] \in EndLabels =>
        \/ l.lifecycle_error \/ l.synchronization_error \/ noting'[Worker] \in {"sync", "life"}
        \/ Drained' /\ pc[Host] \in StoppingLabels
  BY Roles DEF Types, PcTypes, LocalTypes, EndLabels, BatchLock, Go, At, Note
<1> QED
  BY <1>1, <1>2, <1>3, <1>4, <1>5, WorkerClose

\* EmitBatch keeps what logger_destroy answers for.
LEMMA EmitBatchClose ==
    ASSUME Types, RecordInv, LifeInv, DestroyInv, EmitBatch
    PROVE  DestroyInv'
<1>1. pc[Worker] \notin {"none", "exited"} /\ noting[Worker] = "nothing"
  BY DEF EmitBatch, At
<1>2. ErrorFrame /\ l'.running = l.running
  <2>1. /\ l'.running = l.running /\ l'.lifecycle_error = l.lifecycle_error
        /\ l'.synchronization_error = l.synchronization_error
    BY DEF Types, LoggerFields, EmitBatch
  <2>2. \A t \in Threads : noting'[t] = "stop" => noting[t] = "stop"
    BY DEF Types, LocalTypes, EmitBatch, Note, NoteIf
  <2> QED
    BY <2>1, <2>2 DEF ErrorFrame
<1>3. pc'[Host] = pc[Host] /\ pc'[Worker] # "none"
  BY <1>1, Roles DEF Types, PcTypes, EmitBatch, Go, At
<1>4. PositionsOwned'
  <2>1. q'.fifo = q.fifo /\ q'.published = q.published /\ slot' = slot
    BY DEF Types, QueueTypes, QueueFields, EmitBatch, locals
  <2>2. \A p \in Producers : pc[p] = "publish" => pc'[p] = "publish"
    BY Roles DEF Types, PcTypes, EmitBatch, Go, At
  <2> QED
    BY <2>1, <2>2, OwnedFrame DEF DestroyInv
<1>5. pc'[Worker] \in EndLabels =>
        \/ l.lifecycle_error \/ l.synchronization_error \/ noting'[Worker] \in {"sync", "life"}
        \/ Drained' /\ pc[Host] \in StoppingLabels
  BY Roles DEF Types, PcTypes, LocalTypes, EndLabels, EmitBatch, Go, At, Note, NoteIf
<1> QED
  BY <1>1, <1>2, <1>3, <1>4, <1>5, WorkerClose

\* BatchDone keeps what logger_destroy answers for.
LEMMA BatchDoneClose ==
    ASSUME Types, RecordInv, LifeInv, DestroyInv, BatchDone
    PROVE  DestroyInv'
<1>1. pc[Worker] \notin {"none", "exited"} /\ noting[Worker] = "nothing"
  BY DEF BatchDone, At
<1>2. ErrorFrame /\ l'.running = l.running
  <2>1. /\ l'.running = l.running /\ l'.lifecycle_error = l.lifecycle_error
        /\ l'.synchronization_error = l.synchronization_error
    BY DEF Types, LoggerFields, BatchDone
  <2>2. \A t \in Threads : noting'[t] = "stop" => noting[t] = "stop"
    BY DEF Types, LocalTypes, BatchDone
  <2> QED
    BY <2>1, <2>2 DEF ErrorFrame
<1>3. pc'[Host] = pc[Host] /\ pc'[Worker] # "none"
  BY <1>1, Roles DEF Types, PcTypes, BatchDone, Go, At
<1>4. PositionsOwned'
  <2>1. q'.fifo = q.fifo /\ q'.published = q.published /\ slot' = slot
    BY DEF Types, QueueTypes, QueueFields, BatchDone
  <2>2. \A p \in Producers : pc[p] = "publish" => pc'[p] = "publish"
    BY Roles DEF Types, PcTypes, BatchDone, Go, At
  <2> QED
    BY <2>1, <2>2, OwnedFrame DEF DestroyInv
<1>5. pc'[Worker] \in EndLabels =>
        \/ l.lifecycle_error \/ l.synchronization_error \/ noting'[Worker] \in {"sync", "life"}
        \/ Drained' /\ pc[Host] \in StoppingLabels
  BY Roles DEF Types, PcTypes, LocalTypes, EndLabels, BatchDone, Go, At
<1> QED
  BY <1>1, <1>2, <1>3, <1>4, <1>5, WorkerClose

\* ProgressLock keeps what logger_destroy answers for.
LEMMA ProgressLockClose ==
    ASSUME Types, RecordInv, LifeInv, DestroyInv, ProgressLock
    PROVE  DestroyInv'
<1>1. pc[Worker] \notin {"none", "exited"} /\ noting[Worker] = "nothing"
  BY DEF ProgressLock, At
<1>2. ErrorFrame /\ l'.running = l.running
  <2>1. /\ l'.running = l.running /\ l'.lifecycle_error = l.lifecycle_error
        /\ l'.synchronization_error = l.synchronization_error
    BY DEF Types, LoggerFields, ProgressLock
  <2>2. \A t \in Threads : noting'[t] = "stop" => noting[t] = "stop"
    BY DEF Types, LocalTypes, ProgressLock, Note
  <2> QED
    BY <2>1, <2>2 DEF ErrorFrame
<1>3. pc'[Host] = pc[Host] /\ pc'[Worker] # "none"
  BY <1>1, Roles DEF Types, PcTypes, ProgressLock, Go, At
<1>4. PositionsOwned'
  <2>1. q'.fifo = q.fifo /\ q'.published = q.published /\ slot' = slot
    BY DEF Types, QueueTypes, QueueFields, ProgressLock, locals
  <2>2. \A p \in Producers : pc[p] = "publish" => pc'[p] = "publish"
    BY Roles DEF Types, PcTypes, ProgressLock, Go, At
  <2> QED
    BY <2>1, <2>2, OwnedFrame DEF DestroyInv
<1>5. pc'[Worker] \in EndLabels =>
        \/ l.lifecycle_error \/ l.synchronization_error \/ noting'[Worker] \in {"sync", "life"}
        \/ Drained' /\ pc[Host] \in StoppingLabels
  BY Roles DEF Types, PcTypes, LocalTypes, EndLabels, ProgressLock, Go, At, Note
<1> QED
  BY <1>1, <1>2, <1>3, <1>4, <1>5, WorkerClose

\* Progress keeps what logger_destroy answers for.
LEMMA ProgressClose ==
    ASSUME Types, RecordInv, LifeInv, DestroyInv, Progress
    PROVE  DestroyInv'
<1>1. pc[Worker] \notin {"none", "exited"} /\ noting[Worker] = "nothing"
  BY DEF Progress, At
<1>2. ErrorFrame /\ l'.running = l.running
  <2>1. /\ l'.running = l.running /\ l'.lifecycle_error = l.lifecycle_error
        /\ l'.synchronization_error = l.synchronization_error
    BY DEF Types, LoggerFields, Progress
  <2>2. \A t \in Threads : noting'[t] = "stop" => noting[t] = "stop"
    BY DEF Types, LocalTypes, Progress, Note, NoteIf
  <2> QED
    BY <2>1, <2>2 DEF ErrorFrame
<1>3. pc'[Host] = pc[Host] /\ pc'[Worker] # "none"
  BY <1>1, Roles DEF Types, PcTypes, Progress, Go, At
<1>4. PositionsOwned'
  <2>1. q'.fifo = q.fifo /\ q'.published = q.published /\ slot' = slot
    BY DEF Types, QueueTypes, QueueFields, Progress, locals
  <2>2. \A p \in Producers : pc[p] = "publish" => pc'[p] = "publish"
    BY Roles DEF Types, PcTypes, Progress, Go, At
  <2> QED
    BY <2>1, <2>2, OwnedFrame DEF DestroyInv
<1>5. pc'[Worker] \in EndLabels =>
        \/ l.lifecycle_error \/ l.synchronization_error \/ noting'[Worker] \in {"sync", "life"}
        \/ Drained' /\ pc[Host] \in StoppingLabels
  BY Roles DEF Types, PcTypes, LocalTypes, EndLabels, Progress, Go, At, Note, NoteIf
<1> QED
  BY <1>1, <1>2, <1>3, <1>4, <1>5, WorkerClose

\* WaitLock keeps what logger_destroy answers for.
LEMMA WaitLockClose ==
    ASSUME Types, RecordInv, LifeInv, DestroyInv, WaitLock
    PROVE  DestroyInv'
<1>1. pc[Worker] \notin {"none", "exited"} /\ noting[Worker] = "nothing"
  BY DEF WaitLock, At
<1>2. ErrorFrame /\ l'.running = l.running
  <2>1. /\ l'.running = l.running /\ l'.lifecycle_error = l.lifecycle_error
        /\ l'.synchronization_error = l.synchronization_error
    BY DEF Types, LoggerFields, WaitLock
  <2>2. \A t \in Threads : noting'[t] = "stop" => noting[t] = "stop"
    BY DEF Types, LocalTypes, WaitLock, Note
  <2> QED
    BY <2>1, <2>2 DEF ErrorFrame
<1>3. pc'[Host] = pc[Host] /\ pc'[Worker] # "none"
  BY <1>1, Roles DEF Types, PcTypes, WaitLock, Go, At
<1>4. PositionsOwned'
  <2>1. q'.fifo = q.fifo /\ q'.published = q.published /\ slot' = slot
    BY DEF Types, QueueTypes, QueueFields, WaitLock, locals
  <2>2. \A p \in Producers : pc[p] = "publish" => pc'[p] = "publish"
    BY Roles DEF Types, PcTypes, WaitLock, Go, At
  <2> QED
    BY <2>1, <2>2, OwnedFrame DEF DestroyInv
<1>5. pc'[Worker] \in EndLabels =>
        \/ l.lifecycle_error \/ l.synchronization_error \/ noting'[Worker] \in {"sync", "life"}
        \/ Drained' /\ pc[Host] \in StoppingLabels
  BY Roles DEF Types, PcTypes, LocalTypes, EndLabels, WaitLock, Go, At, Note
<1> QED
  BY <1>1, <1>2, <1>3, <1>4, <1>5, WorkerClose

\* WaitTest keeps what logger_destroy answers for.
LEMMA WaitTestClose ==
    ASSUME Types, RecordInv, LifeInv, DestroyInv, WaitTest
    PROVE  DestroyInv'
<1>1. pc[Worker] \notin {"none", "exited"} /\ noting[Worker] = "nothing"
  BY DEF WaitTest, At
<1>2. ErrorFrame /\ l'.running = l.running
  <2>1. /\ l'.running = l.running /\ l'.lifecycle_error = l.lifecycle_error
        /\ l'.synchronization_error = l.synchronization_error
    BY DEF Types, LoggerFields, WaitTest
  <2>2. \A t \in Threads : noting'[t] = "stop" => noting[t] = "stop"
    BY DEF Types, LocalTypes, WaitTest
  <2> QED
    BY <2>1, <2>2 DEF ErrorFrame
<1>3. pc'[Host] = pc[Host] /\ pc'[Worker] # "none"
  BY <1>1, Roles DEF Types, PcTypes, WaitTest, Go, At
<1>4. PositionsOwned'
  <2>1. q'.fifo = q.fifo /\ q'.published = q.published /\ slot' = slot
    BY DEF Types, QueueTypes, QueueFields, WaitTest, locals
  <2>2. \A p \in Producers : pc[p] = "publish" => pc'[p] = "publish"
    BY Roles DEF Types, PcTypes, WaitTest, Go, At
  <2> QED
    BY <2>1, <2>2, OwnedFrame DEF DestroyInv
<1>5. pc'[Worker] \in EndLabels =>
        \/ l.lifecycle_error \/ l.synchronization_error \/ noting'[Worker] \in {"sync", "life"}
        \/ Drained' /\ pc[Host] \in StoppingLabels
  BY Roles DEF Types, PcTypes, LocalTypes, EndLabels, WaitTest, Go, At
<1> QED
  BY <1>1, <1>2, <1>3, <1>4, <1>5, WorkerClose

\* WaitRetest keeps what logger_destroy answers for.
LEMMA WaitRetestClose ==
    ASSUME Types, RecordInv, LifeInv, DestroyInv, WaitRetest
    PROVE  DestroyInv'
<1>1. pc[Worker] \notin {"none", "exited"} /\ noting[Worker] = "nothing"
  BY DEF WaitRetest, At
<1>2. ErrorFrame /\ l'.running = l.running
  <2>1. /\ l'.running = l.running /\ l'.lifecycle_error = l.lifecycle_error
        /\ l'.synchronization_error = l.synchronization_error
    BY DEF Types, LoggerFields, WaitRetest
  <2>2. \A t \in Threads : noting'[t] = "stop" => noting[t] = "stop"
    BY DEF Types, LocalTypes, WaitRetest, Note
  <2> QED
    BY <2>1, <2>2 DEF ErrorFrame
<1>3. pc'[Host] = pc[Host] /\ pc'[Worker] # "none"
  BY <1>1, Roles DEF Types, PcTypes, WaitRetest, Go, At
<1>4. PositionsOwned'
  <2>1. q'.fifo = q.fifo /\ q'.published = q.published /\ slot' = slot
    BY DEF Types, QueueTypes, QueueFields, WaitRetest, locals
  <2>2. \A p \in Producers : pc[p] = "publish" => pc'[p] = "publish"
    BY Roles DEF Types, PcTypes, WaitRetest, Go, At
  <2> QED
    BY <2>1, <2>2, OwnedFrame DEF DestroyInv
<1>5. pc'[Worker] \in EndLabels =>
        \/ l.lifecycle_error \/ l.synchronization_error \/ noting'[Worker] \in {"sync", "life"}
        \/ Drained' /\ pc[Host] \in StoppingLabels
  BY Roles DEF Types, PcTypes, LocalTypes, EndLabels, WaitRetest, Go, At, Note
<1> QED
  BY <1>1, <1>2, <1>3, <1>4, <1>5, WorkerClose

\* WaitAwake keeps what logger_destroy answers for.
LEMMA WaitAwakeClose ==
    ASSUME Types, RecordInv, LifeInv, DestroyInv, WaitAwake
    PROVE  DestroyInv'
<1>1. pc[Worker] \notin {"none", "exited"} /\ noting[Worker] = "nothing"
  BY DEF WaitAwake, At
<1>2. ErrorFrame /\ l'.running = l.running
  <2>1. /\ l'.running = l.running /\ l'.lifecycle_error = l.lifecycle_error
        /\ l'.synchronization_error = l.synchronization_error
    BY DEF Types, LoggerFields, WaitAwake
  <2>2. \A t \in Threads : noting'[t] = "stop" => noting[t] = "stop"
    BY DEF Types, LocalTypes, WaitAwake
  <2> QED
    BY <2>1, <2>2 DEF ErrorFrame
<1>3. pc'[Host] = pc[Host] /\ pc'[Worker] # "none"
  BY <1>1, Roles DEF Types, PcTypes, WaitAwake, Go, At
<1>4. PositionsOwned'
  <2>1. q'.fifo = q.fifo /\ q'.published = q.published /\ slot' = slot
    BY DEF Types, QueueTypes, QueueFields, WaitAwake, locals
  <2>2. \A p \in Producers : pc[p] = "publish" => pc'[p] = "publish"
    BY Roles DEF Types, PcTypes, WaitAwake, Go, At
  <2> QED
    BY <2>1, <2>2, OwnedFrame DEF DestroyInv
<1>5. pc'[Worker] \in EndLabels =>
        \/ l.lifecycle_error \/ l.synchronization_error \/ noting'[Worker] \in {"sync", "life"}
        \/ Drained' /\ pc[Host] \in StoppingLabels
  BY Roles DEF Types, PcTypes, LocalTypes, EndLabels, WaitAwake, Go, At
<1> QED
  BY <1>1, <1>2, <1>3, <1>4, <1>5, WorkerClose

\* WaitEnd keeps what logger_destroy answers for.
LEMMA WaitEndClose ==
    ASSUME Types, RecordInv, LifeInv, DestroyInv, WaitEnd
    PROVE  DestroyInv'
<1>1. pc[Worker] \notin {"none", "exited"} /\ noting[Worker] = "nothing"
  BY DEF WaitEnd, At
<1>2. ErrorFrame /\ l'.running = l.running
  <2>1. /\ l'.running = l.running /\ l'.lifecycle_error = l.lifecycle_error
        /\ l'.synchronization_error = l.synchronization_error
    BY DEF Types, LoggerFields, WaitEnd
  <2>2. \A t \in Threads : noting'[t] = "stop" => noting[t] = "stop"
    BY DEF Types, LocalTypes, WaitEnd, Note, NoteIf
  <2> QED
    BY <2>1, <2>2 DEF ErrorFrame
<1>3. pc'[Host] = pc[Host] /\ pc'[Worker] # "none"
  BY <1>1, Roles DEF Types, PcTypes, WaitEnd, Go, At
<1>4. PositionsOwned'
  <2>1. q'.fifo = q.fifo /\ q'.published = q.published /\ slot' = slot
    BY DEF Types, QueueTypes, QueueFields, WaitEnd, locals
  <2>2. \A p \in Producers : pc[p] = "publish" => pc'[p] = "publish"
    BY Roles DEF Types, PcTypes, WaitEnd, Go, At
  <2> QED
    BY <2>1, <2>2, OwnedFrame DEF DestroyInv
<1>5. pc'[Worker] \in EndLabels =>
        \/ l.lifecycle_error \/ l.synchronization_error \/ noting'[Worker] \in {"sync", "life"}
        \/ Drained' /\ pc[Host] \in StoppingLabels
  <2>1. PICK hit : /\ NoteIf(Worker, hit # {}, "sync")
                    /\ Go(Worker, IF hit # {} \/ (~l.running /\ QueueEmpty) THEN "final" ELSE "drain")
    BY DEF WaitEnd
  <2>2. CASE hit # {}
    BY <2>1, <2>2, Roles DEF Types, LocalTypes, Note, NoteIf
  <2>3. CASE ~l.running /\ QueueEmpty
    <3>1. l.lifecycle_error \/ pc[Host] \in StoppingLabels
      BY <1>1, <2>3 DEF DestroyInv, StopCause
    <3>2. pc[Host] \in StoppingLabels => Drained
      BY <2>3, NothingLeft DEF DestroyInv, StoppingLabels, WaitEnd, At
    <3>3. Drained' = Drained
      BY DEF Types, QueueTypes, QueueFields, WaitEnd, Drained, locals
    <3> QED
      BY <3>1, <3>2, <3>3
  <2>4. CASE hit = {} /\ ~(~l.running /\ QueueEmpty)
    BY <2>1, <2>4, Roles DEF Types, PcTypes, Go, EndLabels
  <2> QED
    BY <2>2, <2>3, <2>4
<1> QED
  BY <1>1, <1>2, <1>3, <1>4, <1>5, WorkerClose

\* Final keeps what logger_destroy answers for.
LEMMA FinalClose ==
    ASSUME Types, RecordInv, LifeInv, DestroyInv, Final
    PROVE  DestroyInv'
<1>1. pc[Worker] \notin {"none", "exited"} /\ noting[Worker] = "nothing"
  BY DEF Final, At
<1>2. ErrorFrame /\ l'.running = l.running
  <2>1. /\ l'.running = l.running /\ l'.lifecycle_error = l.lifecycle_error
        /\ l'.synchronization_error = l.synchronization_error
    BY DEF Types, LoggerFields, Final
  <2>2. \A t \in Threads : noting'[t] = "stop" => noting[t] = "stop"
    BY DEF Types, LocalTypes, Final
  <2> QED
    BY <2>1, <2>2 DEF ErrorFrame
<1>3. pc'[Host] = pc[Host] /\ pc'[Worker] # "none"
  BY <1>1, Roles DEF Types, PcTypes, Final, Go, At
<1>4. PositionsOwned'
  <2>1. q'.fifo = q.fifo /\ q'.published = q.published /\ slot' = slot
    BY DEF Types, QueueTypes, QueueFields, Final, locals
  <2>2. \A p \in Producers : pc[p] = "publish" => pc'[p] = "publish"
    BY Roles DEF Types, PcTypes, Final, Go, At
  <2> QED
    BY <2>1, <2>2, OwnedFrame DEF DestroyInv
<1>5. pc'[Worker] \in EndLabels =>
        \/ l.lifecycle_error \/ l.synchronization_error \/ noting'[Worker] \in {"sync", "life"}
        \/ Drained' /\ pc[Host] \in StoppingLabels
  <2>1. pc[Worker] \in EndLabels
    BY DEF Final, At, EndLabels
  <2>2. Drained' = Drained
    BY DEF Final, Drained, locals
  <2> QED
    BY <1>1, <2>1, <2>2 DEF DestroyInv, EndCause
<1> QED
  BY <1>1, <1>2, <1>3, <1>4, <1>5, WorkerClose

\* FinalLock keeps what logger_destroy answers for.
LEMMA FinalLockClose ==
    ASSUME Types, RecordInv, LifeInv, DestroyInv, FinalLock
    PROVE  DestroyInv'
<1>1. pc[Worker] \notin {"none", "exited"} /\ noting[Worker] = "nothing"
  BY DEF FinalLock, At
<1>2. ErrorFrame /\ l'.running = l.running
  <2>1. /\ l'.running = l.running /\ l'.lifecycle_error = l.lifecycle_error
        /\ l'.synchronization_error = l.synchronization_error
    BY DEF Types, LoggerFields, FinalLock
  <2>2. \A t \in Threads : noting'[t] = "stop" => noting[t] = "stop"
    BY DEF Types, LocalTypes, FinalLock, Note
  <2> QED
    BY <2>1, <2>2 DEF ErrorFrame
<1>3. pc'[Host] = pc[Host] /\ pc'[Worker] # "none"
  BY <1>1, Roles DEF Types, PcTypes, FinalLock, Go, At
<1>4. PositionsOwned'
  <2>1. q'.fifo = q.fifo /\ q'.published = q.published /\ slot' = slot
    BY DEF Types, QueueTypes, QueueFields, FinalLock, locals
  <2>2. \A p \in Producers : pc[p] = "publish" => pc'[p] = "publish"
    BY Roles DEF Types, PcTypes, FinalLock, Go, At
  <2> QED
    BY <2>1, <2>2, OwnedFrame DEF DestroyInv
<1>5. pc'[Worker] \in EndLabels =>
        \/ l.lifecycle_error \/ l.synchronization_error \/ noting'[Worker] \in {"sync", "life"}
        \/ Drained' /\ pc[Host] \in StoppingLabels
  <2>1. pc[Worker] \in EndLabels
    BY DEF FinalLock, At, EndLabels
  <2>2. Drained' = Drained
    BY DEF FinalLock, Drained, locals
  <2> QED
    BY <1>1, <2>1, <2>2 DEF DestroyInv, EndCause
<1> QED
  BY <1>1, <1>2, <1>3, <1>4, <1>5, WorkerClose

\* Broadcast keeps what logger_destroy answers for.
LEMMA BroadcastClose ==
    ASSUME Types, RecordInv, LifeInv, DestroyInv, Broadcast
    PROVE  DestroyInv'
<1>1. pc[Worker] \notin {"none", "exited"} /\ noting[Worker] = "nothing"
  BY DEF Broadcast, At
<1>2. ErrorFrame /\ l'.running = l.running
  <2>1. /\ l'.running = l.running /\ l'.lifecycle_error = l.lifecycle_error
        /\ l'.synchronization_error = l.synchronization_error
    BY DEF Types, LoggerFields, Broadcast
  <2>2. \A t \in Threads : noting'[t] = "stop" => noting[t] = "stop"
    BY DEF Types, LocalTypes, Broadcast, Note, NoteIf
  <2> QED
    BY <2>1, <2>2 DEF ErrorFrame
<1>3. pc'[Host] = pc[Host] /\ pc'[Worker] # "none"
  BY <1>1, Roles DEF Types, PcTypes, Broadcast, Go, At
<1>4. PositionsOwned'
  <2>1. q'.fifo = q.fifo /\ q'.published = q.published /\ slot' = slot
    BY DEF Types, QueueTypes, QueueFields, Broadcast, locals
  <2>2. \A p \in Producers : pc[p] = "publish" => pc'[p] = "publish"
    BY Roles DEF Types, PcTypes, Broadcast, Go, At
  <2> QED
    BY <2>1, <2>2, OwnedFrame DEF DestroyInv
<1>5. pc'[Worker] \in EndLabels =>
        \/ l.lifecycle_error \/ l.synchronization_error \/ noting'[Worker] \in {"sync", "life"}
        \/ Drained' /\ pc[Host] \in StoppingLabels
  <2>1. pc[Worker] \in EndLabels
    BY DEF Broadcast, At, EndLabels
  <2>2. Drained' = Drained
    BY DEF Broadcast, Drained, locals
  <2> QED
    BY <1>1, <2>1, <2>2 DEF DestroyInv, EndCause
<1> QED
  BY <1>1, <1>2, <1>3, <1>4, <1>5, WorkerClose

\* Acquire keeps what logger_destroy answers for.
LEMMA AcquireClose ==
    ASSUME Types, RecordInv, LifeInv, DestroyInv, Acquire
    PROVE  DestroyInv'
<1>1. PositionsOwned'
  <2>1. q'.fifo = q.fifo /\ q'.published = q.published /\ slot' = slot
    BY DEF Types, QueueTypes, QueueFields, Acquire
  <2>2. \A p \in Producers : pc[p] = "publish" => pc'[p] = "publish"
    BY Roles DEF Types, PcTypes, Acquire, Go, At
  <2> QED
    BY <2>1, <2>2, OwnedFrame DEF DestroyInv
<1>2. ErrorFrame
  <2>1. /\ l.lifecycle_error => l'.lifecycle_error
        /\ l.synchronization_error => l'.synchronization_error
    BY DEF Types, LoggerFields, Acquire
  <2>2. \A t \in Threads : noting'[t] = "stop" => noting[t] = "stop"
    BY DEF Types, LocalTypes, Acquire, Note, NoteIf
  <2> QED
    BY <2>1, <2>2 DEF ErrorFrame
<1>3. Drained' = Drained
  BY DEF Types, QueueTypes, QueueFields, Drained, Acquire
<1>4. pc'[Worker] = pc[Worker] /\ noting'[Worker] = noting[Worker]
  BY Roles DEF Types, PcTypes, LocalTypes, Acquire, Go, Note, NoteIf
<1>5. /\ ~l'.running => ~l.running \/ pc'[Host] \in StoppingLabels \/ pc[Worker] = "none"
      /\ pc[Host] \in StoppingLabels => pc'[Host] \in StoppingLabels
  BY Roles DEF Types, PcTypes, LoggerFields, StoppingLabels, Acquire, Go, At
<1>6. DestroyPromise'
  BY Roles
  DEF Types, PcTypes, LocalTypes, LifeInv, HostLife, DestroyPromise, Acquire, Go, At,
      Answer
<1> QED
  BY <1>1, <1>2, <1>3, <1>4, <1>5, <1>6, HostClose

\* StartWorker keeps what logger_destroy answers for: a worker that starts runs.
LEMMA StartWorkerClose ==
    ASSUME Types, RecordInv, LifeInv, DestroyInv, StartWorker
    PROVE  DestroyInv'
<1>1. PositionsOwned'
  <2>1. q'.fifo = q.fifo /\ q'.published = q.published /\ slot' = slot
    BY DEF Types, QueueTypes, QueueFields, StartWorker
  <2>2. \A p \in Producers : pc[p] = "publish" => pc'[p] = "publish"
    BY Roles DEF Types, PcTypes, StartWorker, Go, At
  <2> QED
    BY <2>1, <2>2, OwnedFrame DEF DestroyInv
<1>2. ErrorFrame
  <2>1. /\ l'.lifecycle_error = l.lifecycle_error
        /\ l'.synchronization_error = l.synchronization_error
    BY DEF Types, LoggerFields, StartWorker
  <2> QED
    BY <2>1 DEF ErrorFrame, StartWorker
<1>3. pc[Host] = "create" /\ pc[Worker] = "none" /\ l.async_mode \in BOOLEAN
  BY LoggerFieldTypes DEF StartWorker, At, LifeInv, WorkerLife, Types
<1>4. pc'[Worker] \in {"none", "drain"} /\ pc'[Host] \in {"publish", "rollback"}
  BY <1>3, Roles DEF Types, PcTypes, StartWorker, Go
<1>5. ~l'.running => pc'[Worker] = "none"
  BY <1>3, Roles DEF Types, PcTypes, LoggerFields, StartWorker, Go
<1>6. StopCause'
  BY <1>2, <1>5 DEF DestroyInv, StopCause, ErrorFrame
<1>7. EndCause' /\ DestroyPromise'
  BY <1>4 DEF EndCause, EndLabels, DestroyPromise
<1> QED
  BY <1>1, <1>6, <1>7 DEF DestroyInv

\* PublishRunning keeps what logger_destroy answers for.
LEMMA PublishRunningClose ==
    ASSUME Types, RecordInv, LifeInv, DestroyInv, PublishRunning
    PROVE  DestroyInv'
<1>1. PositionsOwned'
  <2>1. q'.fifo = q.fifo /\ q'.published = q.published /\ slot' = slot
    BY DEF Types, QueueTypes, QueueFields, PublishRunning
  <2>2. \A p \in Producers : pc[p] = "publish" => pc'[p] = "publish"
    BY Roles DEF Types, PcTypes, PublishRunning, Go, At
  <2> QED
    BY <2>1, <2>2, OwnedFrame DEF DestroyInv
<1>2. ErrorFrame
  <2>1. /\ l.lifecycle_error => l'.lifecycle_error
        /\ l.synchronization_error => l'.synchronization_error
    BY DEF Types, LoggerFields, PublishRunning
  <2>2. \A t \in Threads : noting'[t] = "stop" => noting[t] = "stop"
    BY DEF Types, LocalTypes, PublishRunning
  <2> QED
    BY <2>1, <2>2 DEF ErrorFrame
<1>3. Drained' = Drained
  BY DEF Types, QueueTypes, QueueFields, Drained, PublishRunning
<1>4. pc'[Worker] = pc[Worker] /\ noting'[Worker] = noting[Worker]
  BY Roles DEF Types, PcTypes, LocalTypes, PublishRunning, Go
<1>5. /\ ~l'.running => ~l.running \/ pc'[Host] \in StoppingLabels \/ pc[Worker] = "none"
      /\ pc[Host] \in StoppingLabels => pc'[Host] \in StoppingLabels
  BY Roles DEF Types, PcTypes, LoggerFields, StoppingLabels, PublishRunning, Go, At
<1>6. DestroyPromise'
  BY Roles
  DEF Types, PcTypes, LocalTypes, LifeInv, HostLife, DestroyPromise, PublishRunning, Go,
      At, Answer
<1> QED
  BY <1>1, <1>2, <1>3, <1>4, <1>5, <1>6, HostClose

\* Rollback keeps what logger_destroy answers for.
LEMMA RollbackClose ==
    ASSUME Types, RecordInv, LifeInv, DestroyInv, Rollback
    PROVE  DestroyInv'
<1>1. PositionsOwned'
  <2>1. q'.fifo = q.fifo /\ q'.published = q.published /\ slot' = slot
    BY DEF Types, QueueTypes, QueueFields, Rollback, locals
  <2>2. \A p \in Producers : pc[p] = "publish" => pc'[p] = "publish"
    BY Roles DEF Types, PcTypes, Rollback, Go, At
  <2> QED
    BY <2>1, <2>2, OwnedFrame DEF DestroyInv
<1>2. ErrorFrame
  <2>1. /\ l.lifecycle_error => l'.lifecycle_error
        /\ l.synchronization_error => l'.synchronization_error
    BY DEF Types, LoggerFields, Rollback
  <2>2. \A t \in Threads : noting'[t] = "stop" => noting[t] = "stop"
    BY DEF Types, LocalTypes, Rollback
  <2> QED
    BY <2>1, <2>2 DEF ErrorFrame
<1>3. Drained' = Drained
  BY DEF Types, QueueTypes, QueueFields, Drained, Rollback, locals
<1>4. pc'[Worker] = pc[Worker] /\ noting'[Worker] = noting[Worker]
  BY Roles DEF Types, PcTypes, LocalTypes, Rollback, Go
<1>5. /\ ~l'.running => ~l.running \/ pc'[Host] \in StoppingLabels \/ pc[Worker] = "none"
      /\ pc[Host] \in StoppingLabels => pc'[Host] \in StoppingLabels
  BY Roles DEF Types, PcTypes, LoggerFields, StoppingLabels, Rollback, Go, At
<1>6. DestroyPromise'
  BY Roles
  DEF Types, PcTypes, LocalTypes, LifeInv, HostLife, DestroyPromise, Rollback, Go, At,
      locals
<1> QED
  BY <1>1, <1>2, <1>3, <1>4, <1>5, <1>6, HostClose

\* Destroy keeps what logger_destroy answers for.
LEMMA DestroyClose ==
    ASSUME Types, RecordInv, LifeInv, DestroyInv, Destroy
    PROVE  DestroyInv'
<1>1. PositionsOwned'
  <2>1. q'.fifo = q.fifo /\ q'.published = q.published /\ slot' = slot
    BY DEF Types, QueueTypes, QueueFields, Destroy, locals
  <2>2. \A p \in Producers : pc[p] = "publish" => pc'[p] = "publish"
    BY Roles DEF Types, PcTypes, Destroy, Go, At
  <2> QED
    BY <2>1, <2>2, OwnedFrame DEF DestroyInv
<1>2. ErrorFrame
  <2>1. /\ l.lifecycle_error => l'.lifecycle_error
        /\ l.synchronization_error => l'.synchronization_error
    BY DEF Types, LoggerFields, Destroy
  <2>2. \A t \in Threads : noting'[t] = "stop" => noting[t] = "stop"
    BY DEF Types, LocalTypes, Destroy
  <2> QED
    BY <2>1, <2>2 DEF ErrorFrame
<1>3. Drained' = Drained
  BY DEF Types, QueueTypes, QueueFields, Drained, Destroy, locals
<1>4. pc'[Worker] = pc[Worker] /\ noting'[Worker] = noting[Worker]
  BY Roles DEF Types, PcTypes, LocalTypes, Destroy, Go
<1>5. /\ ~l'.running => ~l.running \/ pc'[Host] \in StoppingLabels \/ pc[Worker] = "none"
      /\ pc[Host] \in StoppingLabels => pc'[Host] \in StoppingLabels
  BY Roles DEF Types, PcTypes, LoggerFields, StoppingLabels, Destroy, Go, At
<1>6. DestroyPromise'
  BY Roles
  DEF Types, PcTypes, LocalTypes, LifeInv, HostLife, DestroyPromise, Destroy, Go, At,
      locals
<1> QED
  BY <1>1, <1>2, <1>3, <1>4, <1>5, <1>6, HostClose

\* StopCheck keeps what logger_destroy answers for.
LEMMA StopCheckClose ==
    ASSUME Types, RecordInv, LifeInv, DestroyInv, StopCheck
    PROVE  DestroyInv'
<1>1. PositionsOwned'
  <2>1. q'.fifo = q.fifo /\ q'.published = q.published /\ slot' = slot
    BY DEF Types, QueueTypes, QueueFields, StopCheck
  <2>2. \A p \in Producers : pc[p] = "publish" => pc'[p] = "publish"
    BY Roles DEF Types, PcTypes, StopCheck, Go, At
  <2> QED
    BY <2>1, <2>2, OwnedFrame DEF DestroyInv
<1>2. ErrorFrame
  <2>1. /\ l.lifecycle_error => l'.lifecycle_error
        /\ l.synchronization_error => l'.synchronization_error
    BY DEF Types, LoggerFields, StopCheck
  <2>2. \A t \in Threads : noting'[t] = "stop" => noting[t] = "stop"
    BY DEF Types, LocalTypes, StopCheck, Note
  <2> QED
    BY <2>1, <2>2 DEF ErrorFrame
<1>3. Drained' = Drained
  BY DEF Types, QueueTypes, QueueFields, Drained, StopCheck
<1>4. pc'[Worker] = pc[Worker] /\ noting'[Worker] = noting[Worker]
  BY Roles DEF Types, PcTypes, LocalTypes, StopCheck, Go, Note
<1>5. /\ ~l'.running => ~l.running \/ pc'[Host] \in StoppingLabels \/ pc[Worker] = "none"
      /\ pc[Host] \in StoppingLabels => pc'[Host] \in StoppingLabels
  BY Roles DEF Types, PcTypes, LoggerFields, StoppingLabels, StopCheck, Go, At
<1>6. DestroyPromise'
  BY Roles
  DEF Types, PcTypes, LocalTypes, LifeInv, HostLife, DestroyPromise, StopCheck, Go, At,
      Answer
<1> QED
  BY <1>1, <1>2, <1>3, <1>4, <1>5, <1>6, HostClose

\* Join keeps what logger_destroy answers for.
LEMMA JoinClose ==
    ASSUME Types, RecordInv, LifeInv, DestroyInv, Join
    PROVE  DestroyInv'
<1>1. PositionsOwned'
  <2>1. q'.fifo = q.fifo /\ q'.published = q.published /\ slot' = slot
    BY DEF Types, QueueTypes, QueueFields, Join
  <2>2. \A p \in Producers : pc[p] = "publish" => pc'[p] = "publish"
    BY Roles DEF Types, PcTypes, Join, Go, At
  <2> QED
    BY <2>1, <2>2, OwnedFrame DEF DestroyInv
<1>2. ErrorFrame
  <2>1. /\ l.lifecycle_error => l'.lifecycle_error
        /\ l.synchronization_error => l'.synchronization_error
    BY DEF Types, LoggerFields, Join
  <2>2. \A t \in Threads : noting'[t] = "stop" => noting[t] = "stop"
    BY DEF Types, LocalTypes, Join
  <2> QED
    BY <2>1, <2>2 DEF ErrorFrame
<1>3. Drained' = Drained
  BY DEF Types, QueueTypes, QueueFields, Drained, Join
<1>4. pc'[Worker] = pc[Worker] /\ noting'[Worker] = noting[Worker]
  BY Roles DEF Types, PcTypes, LocalTypes, Join, Go
<1>5. /\ ~l'.running => ~l.running \/ pc'[Host] \in StoppingLabels \/ pc[Worker] = "none"
      /\ pc[Host] \in StoppingLabels => pc'[Host] \in StoppingLabels
  BY Roles DEF Types, PcTypes, LoggerFields, StoppingLabels, Join, Go, At
<1>6. DestroyPromise'
  BY Roles DEF Types, PcTypes, LocalTypes, LifeInv, HostLife, DestroyPromise, Join, Go, At
<1> QED
  BY <1>1, <1>2, <1>3, <1>4, <1>5, <1>6, HostClose

\* Joined keeps what logger_destroy answers for.
LEMMA JoinedClose ==
    ASSUME Types, RecordInv, LifeInv, DestroyInv, Joined
    PROVE  DestroyInv'
<1>1. PositionsOwned'
  <2>1. q'.fifo = q.fifo /\ q'.published = q.published /\ slot' = slot
    BY DEF Types, QueueTypes, QueueFields, Joined
  <2>2. \A p \in Producers : pc[p] = "publish" => pc'[p] = "publish"
    BY Roles DEF Types, PcTypes, Joined, Go, At
  <2> QED
    BY <2>1, <2>2, OwnedFrame DEF DestroyInv
<1>2. ErrorFrame
  <2>1. /\ l.lifecycle_error => l'.lifecycle_error
        /\ l.synchronization_error => l'.synchronization_error
    BY DEF Types, LoggerFields, Joined
  <2>2. \A t \in Threads : noting'[t] = "stop" => noting[t] = "stop"
    BY DEF Types, LocalTypes, Joined
  <2> QED
    BY <2>1, <2>2 DEF ErrorFrame
<1>3. Drained' = Drained
  BY DEF Types, QueueTypes, QueueFields, Drained, Joined
<1>4. pc'[Worker] = pc[Worker] /\ noting'[Worker] = noting[Worker]
  BY Roles DEF Types, PcTypes, LocalTypes, Joined, Go
<1>5. /\ ~l'.running => ~l.running \/ pc'[Host] \in StoppingLabels \/ pc[Worker] = "none"
      /\ pc[Host] \in StoppingLabels => pc'[Host] \in StoppingLabels
  BY Roles DEF Types, PcTypes, LoggerFields, StoppingLabels, Joined, Go, At
<1>6. DestroyPromise'
  BY Roles
  DEF Types, PcTypes, LocalTypes, LifeInv, HostLife, DestroyPromise, Joined, Go, At, Answer
<1> QED
  BY <1>1, <1>2, <1>3, <1>4, <1>5, <1>6, HostClose

\* FinalSync keeps what logger_destroy answers for.
LEMMA FinalSyncClose ==
    ASSUME Types, RecordInv, LifeInv, DestroyInv, FinalSync
    PROVE  DestroyInv'
<1>1. PositionsOwned'
  <2>1. q'.fifo = q.fifo /\ q'.published = q.published /\ slot' = slot
    BY DEF Types, QueueTypes, QueueFields, FinalSync
  <2>2. \A p \in Producers : pc[p] = "publish" => pc'[p] = "publish"
    BY Roles DEF Types, PcTypes, FinalSync, Go, At
  <2> QED
    BY <2>1, <2>2, OwnedFrame DEF DestroyInv
<1>2. ErrorFrame
  <2>1. /\ l.lifecycle_error => l'.lifecycle_error
        /\ l.synchronization_error => l'.synchronization_error
    BY DEF Types, LoggerFields, FinalSync, SyncOutputs
  <2>2. \A t \in Threads : noting'[t] = "stop" => noting[t] = "stop"
    BY DEF Types, LocalTypes, FinalSync, Note, NoteIf, SyncOutputs
  <2> QED
    BY <2>1, <2>2 DEF ErrorFrame
<1>3. Drained' = Drained
  BY DEF Types, QueueTypes, QueueFields, Drained, FinalSync
<1>4. pc'[Worker] = pc[Worker] /\ noting'[Worker] = noting[Worker]
  BY Roles DEF Types, PcTypes, LocalTypes, FinalSync, Go, Note, NoteIf, SyncOutputs
<1>5. /\ ~l'.running => ~l.running \/ pc'[Host] \in StoppingLabels \/ pc[Worker] = "none"
      /\ pc[Host] \in StoppingLabels => pc'[Host] \in StoppingLabels
  BY Roles DEF Types, PcTypes, LoggerFields, StoppingLabels, FinalSync, Go, At, SyncOutputs
<1>6. DestroyPromise'
  <2>1. SUFFICES ASSUME pc'[Host] = "destroy", result'[Host] = "ok"
                 PROVE  accepted' \subseteq durable' /\ failed' = {}
    <3>1. pc'[Host] # "freed"
      BY Roles DEF Types, PcTypes, FinalSync, Go
    <3> QED
      BY <3>1 DEF DestroyPromise
  <2>2. PICK hit : ~l.lifecycle_error /\ SyncOutputs(Host, hit)
    <3>1. ~Answer(Host, "error")
      BY <2>1, Roles DEF Types, LocalTypes, Answer
    <3> QED
      BY <3>1 DEF FinalSync
  <2>3. ~l.first_error /\ hit = {}
    BY <2>1, <2>2, Roles DEF Types, LocalTypes, SyncOutputs
  <2>4. durable' = written
    BY <2>2, <2>3 DEF SyncOutputs
  <2>5. pc[Host] = "final_sync" /\ failed' = failed /\ accepted' = accepted
    BY DEF FinalSync, At, promises
  <2> QED
    BY <2>2, <2>3, <2>4, <2>5, AcceptedCounted
<1> QED
  BY <1>1, <1>2, <1>3, <1>4, <1>5, <1>6, HostClose

\* Release keeps what logger_destroy answers for.
LEMMA ReleaseClose ==
    ASSUME Types, RecordInv, LifeInv, DestroyInv, Release
    PROVE  DestroyInv'
<1>1. PositionsOwned'
  <2>1. q'.fifo = q.fifo /\ q'.published = q.published /\ slot' = slot
    BY DEF Types, QueueTypes, QueueFields, Release
  <2>2. \A p \in Producers : pc[p] = "publish" => pc'[p] = "publish"
    BY Roles DEF Types, PcTypes, Release, Go, At
  <2> QED
    BY <2>1, <2>2, OwnedFrame DEF DestroyInv
<1>2. ErrorFrame
  <2>1. /\ l.lifecycle_error => l'.lifecycle_error
        /\ l.synchronization_error => l'.synchronization_error
    BY DEF Types, LoggerFields, Release
  <2>2. \A t \in Threads : noting'[t] = "stop" => noting[t] = "stop"
    BY DEF Types, LocalTypes, Release
  <2> QED
    BY <2>1, <2>2 DEF ErrorFrame
<1>3. Drained' = Drained
  BY DEF Types, QueueTypes, QueueFields, Drained, Release
<1>4. pc'[Worker] = pc[Worker] /\ noting'[Worker] = noting[Worker]
  BY Roles DEF Types, PcTypes, LocalTypes, Release, Go
<1>5. /\ ~l'.running => ~l.running \/ pc'[Host] \in StoppingLabels \/ pc[Worker] = "none"
      /\ pc[Host] \in StoppingLabels => pc'[Host] \in StoppingLabels
  BY Roles DEF Types, PcTypes, LoggerFields, StoppingLabels, Release, Go, At
<1>6. DestroyPromise'
  <2>1. result' = result \/ result' = [result EXCEPT ![Host] = "error"]
    BY DEF Release
  <2>2. result'[Host] = "ok" => result[Host] = "ok"
    BY <2>1, Roles DEF Types, LocalTypes
  <2>3. pc[Host] = "destroy" /\ accepted' = accepted /\ durable' = durable /\ failed' = failed
    BY DEF Release, At, promises, outputs
  <2> QED
    BY <2>2, <2>3 DEF DestroyInv, DestroyPromise
<1> QED
  BY <1>1, <1>2, <1>3, <1>4, <1>5, <1>6, HostClose

\* ForceLock keeps what logger_destroy answers for, in the host.
LEMMA ForceLockHostClose ==
    ASSUME Types, RecordInv, LifeInv, DestroyInv, ForceLock(Host)
    PROVE  DestroyInv'
<1>1. PositionsOwned'
  <2>1. q'.fifo = q.fifo /\ q'.published = q.published /\ slot' = slot
    BY DEF Types, QueueTypes, QueueFields, ForceLock, locals
  <2>2. \A p \in Producers : pc[p] = "publish" => pc'[p] = "publish"
    BY Roles DEF Types, PcTypes, ForceLock, Go, At
  <2> QED
    BY <2>1, <2>2, OwnedFrame DEF DestroyInv
<1>2. ErrorFrame
  <2>1. /\ l.lifecycle_error => l'.lifecycle_error
        /\ l.synchronization_error => l'.synchronization_error
    BY DEF Types, LoggerFields, ForceLock
  <2>2. \A t \in Threads : noting'[t] = "stop" => noting[t] = "stop"
    BY DEF Types, LocalTypes, ForceLock, Note
  <2> QED
    BY <2>1, <2>2 DEF ErrorFrame
<1>3. Drained' = Drained
  BY DEF Types, QueueTypes, QueueFields, Drained, ForceLock, locals
<1>4. pc'[Worker] = pc[Worker] /\ noting'[Worker] = noting[Worker]
  BY Roles DEF Types, PcTypes, LocalTypes, ForceLock, Go, Note
<1>5. /\ ~l'.running => ~l.running \/ pc'[Host] \in StoppingLabels \/ pc[Worker] = "none"
      /\ pc[Host] \in StoppingLabels => pc'[Host] \in StoppingLabels
  BY Roles DEF Types, PcTypes, LoggerFields, StoppingLabels, ForceLock, Go, At
<1>6. DestroyPromise'
  BY Roles
  DEF Types, PcTypes, LocalTypes, LifeInv, HostLife, DestroyPromise, ForceLock, Go, At,
      locals
<1> QED
  BY <1>1, <1>2, <1>3, <1>4, <1>5, <1>6, HostClose

\* WakeForce keeps what logger_destroy answers for, in the host.
LEMMA WakeForceHostClose ==
    ASSUME Types, RecordInv, LifeInv, DestroyInv, WakeForce(Host)
    PROVE  DestroyInv'
<1>1. PositionsOwned'
  <2>1. q'.fifo = q.fifo /\ q'.published = q.published /\ slot' = slot
    BY DEF Types, QueueTypes, QueueFields, WakeForce
  <2>2. \A p \in Producers : pc[p] = "publish" => pc'[p] = "publish"
    BY Roles DEF Types, PcTypes, WakeForce, Go, At
  <2> QED
    BY <2>1, <2>2, OwnedFrame DEF DestroyInv
<1>2. ErrorFrame
  <2>1. /\ l.lifecycle_error => l'.lifecycle_error
        /\ l.synchronization_error => l'.synchronization_error
    BY DEF Types, LoggerFields, WakeForce
  <2>2. \A t \in Threads : noting'[t] = "stop" => noting[t] = "stop"
    BY DEF Types, LocalTypes, WakeForce, Note, NoteIf
  <2> QED
    BY <2>1, <2>2 DEF ErrorFrame
<1>3. Drained' = Drained
  BY DEF Types, QueueTypes, QueueFields, Drained, WakeForce
<1>4. pc'[Worker] = pc[Worker] /\ noting'[Worker] = noting[Worker]
  BY Roles DEF Types, PcTypes, LocalTypes, WakeForce, Go, Note, NoteIf
<1>5. /\ ~l'.running => ~l.running \/ pc'[Host] \in StoppingLabels \/ pc[Worker] = "none"
      /\ pc[Host] \in StoppingLabels => pc'[Host] \in StoppingLabels
  BY Roles DEF Types, PcTypes, LoggerFields, StoppingLabels, WakeForce, Go, At
<1>6. DestroyPromise'
  BY Roles DEF Types, PcTypes, LocalTypes, LifeInv, HostLife, DestroyPromise, WakeForce, Go, At
<1> QED
  BY <1>1, <1>2, <1>3, <1>4, <1>5, <1>6, HostClose

\* ForceFailed keeps what logger_destroy answers for, in the host.
LEMMA ForceFailedHostClose ==
    ASSUME Types, RecordInv, LifeInv, DestroyInv, ForceFailed(Host)
    PROVE  DestroyInv'
<1>1. PositionsOwned'
  <2>1. q'.fifo = q.fifo /\ q'.published = q.published /\ slot' = slot
    BY DEF Types, QueueTypes, QueueFields, ForceFailed
  <2>2. \A p \in Producers : pc[p] = "publish" => pc'[p] = "publish"
    BY Roles DEF Types, PcTypes, ForceFailed, Go, At
  <2> QED
    BY <2>1, <2>2, OwnedFrame DEF DestroyInv
<1>2. ErrorFrame
  <2>1. /\ l.lifecycle_error => l'.lifecycle_error
        /\ l.synchronization_error => l'.synchronization_error
    BY DEF Types, LoggerFields, ForceFailed
  <2>2. \A t \in Threads : noting'[t] = "stop" => noting[t] = "stop"
    BY DEF Types, LocalTypes, ForceFailed, Note, NoteIf
  <2> QED
    BY <2>1, <2>2 DEF ErrorFrame
<1>3. Drained' = Drained
  BY DEF Types, QueueTypes, QueueFields, Drained, ForceFailed
<1>4. pc'[Worker] = pc[Worker] /\ noting'[Worker] = noting[Worker]
  BY Roles DEF Types, PcTypes, LocalTypes, ForceFailed, Go, Note, NoteIf
<1>5. /\ ~l'.running => ~l.running \/ pc'[Host] \in StoppingLabels \/ pc[Worker] = "none"
      /\ pc[Host] \in StoppingLabels => pc'[Host] \in StoppingLabels
  BY Roles DEF Types, PcTypes, LoggerFields, StoppingLabels, ForceFailed, Go, At
<1>6. DestroyPromise'
  BY Roles
  DEF Types, PcTypes, LocalTypes, LifeInv, HostLife, DestroyPromise, ForceFailed, Go, At
<1> QED
  BY <1>1, <1>2, <1>3, <1>4, <1>5, <1>6, HostClose

\* ForceLock keeps what logger_destroy answers for.
LEMMA ForceLockClose ==
    ASSUME Types, RecordInv, LifeInv, DestroyInv, NEW t \in Producers \cup {Host}, ForceLock(t)
    PROVE  DestroyInv'
BY ForceLockLentClose, ForceLockHostClose

\* WakeForce keeps what logger_destroy answers for.
LEMMA WakeForceClose ==
    ASSUME Types, RecordInv, LifeInv, DestroyInv, NEW t \in Producers \cup {Host}, WakeForce(t)
    PROVE  DestroyInv'
BY WakeForceLentClose, WakeForceHostClose

\* ForceFailed keeps what logger_destroy answers for.
LEMMA ForceFailedClose ==
    ASSUME Types, RecordInv, LifeInv, DestroyInv, NEW t \in Producers \cup {Host}, ForceFailed(t)
    PROVE  DestroyInv'
BY ForceFailedLentClose, ForceFailedHostClose

\* NoteStep keeps what logger_destroy answers for: the error is on record before
\* the worker is told to stop.
LEMMA NoteStepClose ==
    ASSUME Types, RecordInv, LifeInv, DestroyInv, NEW t \in Threads, NoteStep(t)
    PROVE  DestroyInv'
<1>1. /\ q' = q /\ pc' = pc /\ slot' = slot /\ batch' = batch /\ result' = result
      /\ accepted' = accepted /\ durable' = durable /\ failed' = failed
  BY DEF NoteStep, locals, promises, outputs
<1>2. \/ /\ noting[t] = "sync" /\ l' = [l EXCEPT !.synchronization_error = TRUE] /\ Note(t, "life")
      \/ /\ noting[t] = "life" /\ l' = [l EXCEPT !.lifecycle_error = TRUE] /\ Note(t, "stop")
      \/ /\ noting[t] = "stop" /\ l' = [l EXCEPT !.state = "STOPPING", !.running = FALSE]
         /\ Note(t, "nothing")
  BY DEF NoteStep
<1>3. \/ /\ noting[t] = "sync" /\ l'.synchronization_error /\ l'.lifecycle_error = l.lifecycle_error
         /\ l'.running = l.running /\ noting'[t] = "life"
      \/ /\ noting[t] = "life" /\ l'.synchronization_error = l.synchronization_error
         /\ l'.lifecycle_error /\ l'.running = l.running /\ noting'[t] = "stop"
      \/ /\ noting[t] = "stop" /\ l'.synchronization_error = l.synchronization_error
         /\ l'.lifecycle_error = l.lifecycle_error /\ noting'[t] = "nothing"
  BY <1>2 DEF Types, LocalTypes, LoggerFields, Note
<1>4. \A o \in Threads \ {t} : noting'[o] = noting[o]
  BY <1>2 DEF Types, LocalTypes, Note
<1>5. PositionsOwned' /\ DestroyPromise' /\ Drained' = Drained
  BY <1>1 DEF DestroyInv, PositionsOwned, Positions, DestroyPromise, Drained
<1>6. noting[t] = "stop" => l.lifecycle_error
  BY DEF DestroyInv, StopCause
<1>7. StopCause'
  BY <1>1, <1>3, <1>4, <1>6 DEF DestroyInv, StopCause
<1>8. EndCause'
  BY <1>1, <1>3, <1>4, <1>5, <1>6, Roles DEF DestroyInv, EndCause
<1> QED
  BY <1>5, <1>7, <1>8 DEF DestroyInv

\* A step that changes nothing that logger_destroy answers for keeps it.
LEMMA DestroyFrame ==
    ASSUME DestroyInv, l' = l, q' = q, pc' = pc, noting' = noting, slot' = slot, batch' = batch,
           result' = result, accepted' = accepted, durable' = durable, failed' = failed
    PROVE  DestroyInv'
<1>1. PositionsOwned' /\ DestroyPromise' /\ Drained' = Drained
  BY DEF DestroyInv, PositionsOwned, Positions, DestroyPromise, Drained
<1>2. StopCause' /\ EndCause'
  BY <1>1 DEF DestroyInv, StopCause, EndCause
<1> QED
  BY <1>1, <1>2 DEF DestroyInv

\* Spurious keeps what logger_destroy answers for.
LEMMA SpuriousClose ==
    ASSUME Types, RecordInv, LifeInv, DestroyInv, NEW t \in Threads, Spurious(t)
    PROVE  DestroyInv'
BY DestroyFrame DEF Spurious, locals, promises, outputs

\* Before the first step there is no worker and no position.
LEMMA InitClose ==
    ASSUME Init
    PROVE  DestroyInv
<1>1. /\ pc[Host] = "create" /\ pc[Worker] = "none" /\ q.fifo = << >>
      /\ \A t \in Threads : noting[t] = "nothing"
  BY Roles DEF Init
<1>2. Positions = {}
  BY <1>1 DEF Positions
<1> QED
  BY <1>1, <1>2 DEF DestroyInv, PositionsOwned, StopCause, EndCause, EndLabels, DestroyPromise

\* Every step keeps what logger_destroy answers for.
LEMMA NextClose ==
    ASSUME Types, RecordInv, LifeInv, DestroyInv, [Next]_vars
    PROVE  DestroyInv'
<1>1. CASE UNCHANGED vars
  <2>1. /\ l' = l /\ q' = q /\ pc' = pc /\ batch' = batch /\ slot' = slot /\ noting' = noting
        /\ calls' = calls /\ kind' = kind /\ target' = target /\ result' = result
        /\ faults' = faults /\ owner' = owner /\ unproven' = unproven /\ asleep' = asleep
        /\ written' = written /\ durable' = durable /\ emitted' = emitted /\ failed' = failed
        /\ accepted' = accepted /\ due' = due
    BY <1>1 DEF vars, outputs, promises, locals
  <2> QED
    BY <2>1, DestroyFrame
<1>2. ASSUME NEW p \in Producers, ProducerStep(p) PROVE DestroyInv'
  BY <1>2, EnterLogClose, PushClose, RefusedClose, PublishClose, ProbeClose,
     NotifyLockClose, NotifyClose, PushFailedClose, FormatStatusClose, EmitCheckClose,
     EmitLockClose, EmitStatusClose
  DEF ProducerStep
<1>3. ASSUME NEW t \in Producers \cup {Host}, ForceStep(t) PROVE DestroyInv'
  BY <1>3, ForceLockClose, WakeForceClose, ForceFailedClose DEF ForceStep
<1>4. ASSUME NEW f \in Flushers, FlusherStep(f) PROVE DestroyInv'
  BY <1>4, EnterFlushClose, FlushCheckClose, FlushTargetClose, FlushLockClose,
     FlushTestClose, FlushAwakeClose, FlushErrorClose, SyncCheckClose, SyncLockClose,
     SyncClose
  DEF FlusherStep
<1>5. CASE WorkerStep
  BY <1>5, DrainClose, DrainEndClose, BatchFormatClose, BatchLockClose, EmitBatchClose,
     BatchDoneClose, ProgressLockClose, ProgressClose, WaitLockClose, WaitTestClose,
     WaitRetestClose, WaitAwakeClose, WaitEndClose, FinalClose, FinalLockClose, BroadcastClose
  DEF WorkerStep
<1>6. CASE HostStep \/ Destroy
  BY <1>6, AcquireClose, StartWorkerClose, PublishRunningClose, RollbackClose,
     DestroyClose, StopCheckClose, JoinClose, JoinedClose, FinalSyncClose, ReleaseClose
  DEF HostStep
<1>7. ASSUME NEW t \in Threads, NoteStep(t) \/ Spurious(t) PROVE DestroyInv'
  BY <1>7, NoteStepClose, SpuriousClose
<1> QED
  BY <1>1, <1>2, <1>3, <1>4, <1>5, <1>6, <1>7 DEF Next

\* What logger_destroy answers for holds in every behaviour.
LEMMA DestroyInvariant == Spec => []DestroyInv
<1>1. Init => DestroyInv
  BY InitClose
<1>2. Types /\ RecordInv /\ LifeInv /\ DestroyInv /\ [Next]_vars => DestroyInv'
  BY NextClose
<1> QED
  BY <1>1, <1>2, TypesInvariant, RecordsInvariant, LifeInvariant, PTL DEF Spec

\* DestroyIsHonest: logger_destroy returns 0 only if every record whose logging
\* call returned 0 is durable and none failed, whatever made the worker stop and
\* whatever failed on the way.
THEOREM DestroyAnswersHonestly == Spec => []DestroyIsHonest
<1>1. DestroyInv => DestroyIsHonest
  BY DEF DestroyInv, DestroyPromise, DestroyIsHonest
<1> QED
  BY <1>1, DestroyInvariant, PTL

-----------------------------------------------------------------------------
(* What no step undoes                                                     *)

\* The logger's state only advances, from CREATED over RUNNING and STOPPING to
\* STOPPED; a latched error stays latched; the watermark never falls.
Advance ==
    /\ l.state = "RUNNING" => l'.state # "CREATED"
    /\ l.state = "STOPPING" => l'.state \in {"STOPPING", "STOPPED"}
    /\ l.state = "STOPPED" => l'.state = "STOPPED"
    /\ l.first_error => l'.first_error
    /\ l.lifecycle_error => l'.lifecycle_error
    /\ l.synchronization_error => l'.synchronization_error
    /\ l.completed_pos <= l'.completed_pos

\* A logger is STOPPED only when the host takes it down and no thread is about
\* to record an error: the STOPPING of a late error would undo it.
StoppedQuiet ==
    l.state = "STOPPED" =>
        /\ pc[Host] \in {"destroy", "freed", "retained"} /\ pc[Worker] \in {"none", "exited"}
        /\ \A t \in Threads : noting[t] = "nothing"

\* What a step does to errors and watermark.
Latches ==
    /\ l.first_error => l'.first_error
    /\ l.lifecycle_error => l'.lifecycle_error
    /\ l.synchronization_error => l'.synchronization_error
    /\ l.completed_pos <= l'.completed_pos

\* A step before the logger is STOPPED advances it.
LEMMA AdvanceFrame ==
    ASSUME Types, l.state # "STOPPED", Latches,
           \/ l'.state = l.state \/ l'.state = "STOPPING"
           \/ l.state = "CREATED" /\ l'.state = "RUNNING"
    PROVE  Advance /\ StoppedQuiet'
<1>1. l.state \in {"CREATED", "RUNNING", "STOPPING"}
  BY DEF Types, LoggerFields
<1> QED
  BY <1>1 DEF Advance, Latches, StoppedQuiet

\* EnterLog advances the logger.
LEMMA EnterLogAdvances ==
    ASSUME Types, RecordInv, LifeInv, StoppedQuiet, NEW p \in Producers, EnterLog(p)
    PROVE  Advance /\ StoppedQuiet'
<1>1. l.state # "STOPPED"
  BY Roles DEF EnterLog, At, LifeInv, LentOnly, StoppedQuiet
<1>2. Latches
  <2>1. l.completed_pos \in Nat
    BY LoggerFieldTypes DEF Types
  <2> QED
    BY <2>1 DEF Types, LoggerFields, Latches, EnterLog
<1>3. \/ l'.state = l.state \/ l'.state = "STOPPING"
      \/ l.state = "CREATED" /\ l'.state = "RUNNING"
  BY DEF Types, LoggerFields, EnterLog
<1> QED
  BY <1>1, <1>2, <1>3, AdvanceFrame

\* Push advances the logger.
LEMMA PushAdvances ==
    ASSUME Types, RecordInv, LifeInv, StoppedQuiet, NEW p \in Producers, Push(p)
    PROVE  Advance /\ StoppedQuiet'
<1>1. l.state # "STOPPED"
  BY Roles DEF Push, At, LifeInv, LentOnly, StoppedQuiet
<1>2. Latches
  <2>1. l.completed_pos \in Nat
    BY LoggerFieldTypes DEF Types
  <2> QED
    BY <2>1 DEF Types, LoggerFields, Latches, Push
<1>3. \/ l'.state = l.state \/ l'.state = "STOPPING"
      \/ l.state = "CREATED" /\ l'.state = "RUNNING"
  BY DEF Types, LoggerFields, Push
<1> QED
  BY <1>1, <1>2, <1>3, AdvanceFrame

\* Refused advances the logger.
LEMMA RefusedAdvances ==
    ASSUME Types, RecordInv, LifeInv, StoppedQuiet, NEW p \in Producers, Refused(p)
    PROVE  Advance /\ StoppedQuiet'
<1>1. l.state # "STOPPED"
  BY Roles DEF Refused, At, LifeInv, LentOnly, StoppedQuiet
<1>2. Latches
  <2>1. l.completed_pos \in Nat
    BY LoggerFieldTypes DEF Types
  <2> QED
    BY <2>1 DEF Types, LoggerFields, Latches, Refused
<1>3. \/ l'.state = l.state \/ l'.state = "STOPPING"
      \/ l.state = "CREATED" /\ l'.state = "RUNNING"
  BY DEF Types, LoggerFields, Refused
<1> QED
  BY <1>1, <1>2, <1>3, AdvanceFrame

\* Publish advances the logger.
LEMMA PublishAdvances ==
    ASSUME Types, RecordInv, LifeInv, StoppedQuiet, NEW p \in Producers, Publish(p)
    PROVE  Advance /\ StoppedQuiet'
<1>1. l.state # "STOPPED"
  BY Roles DEF Publish, At, LifeInv, LentOnly, StoppedQuiet
<1>2. Latches
  <2>1. l.completed_pos \in Nat
    BY LoggerFieldTypes DEF Types
  <2> QED
    BY <2>1 DEF Types, LoggerFields, Latches, Publish
<1>3. \/ l'.state = l.state \/ l'.state = "STOPPING"
      \/ l.state = "CREATED" /\ l'.state = "RUNNING"
  BY DEF Types, LoggerFields, Publish
<1> QED
  BY <1>1, <1>2, <1>3, AdvanceFrame

\* Probe advances the logger.
LEMMA ProbeAdvances ==
    ASSUME Types, RecordInv, LifeInv, StoppedQuiet, NEW p \in Producers, Probe(p)
    PROVE  Advance /\ StoppedQuiet'
<1>1. l.state # "STOPPED"
  BY Roles DEF Probe, At, LifeInv, LentOnly, StoppedQuiet
<1>2. Latches
  <2>1. l.completed_pos \in Nat
    BY LoggerFieldTypes DEF Types
  <2> QED
    BY <2>1 DEF Types, LoggerFields, Latches, Probe
<1>3. \/ l'.state = l.state \/ l'.state = "STOPPING"
      \/ l.state = "CREATED" /\ l'.state = "RUNNING"
  BY DEF Types, LoggerFields, Probe
<1> QED
  BY <1>1, <1>2, <1>3, AdvanceFrame

\* NotifyLock advances the logger.
LEMMA NotifyLockAdvances ==
    ASSUME Types, RecordInv, LifeInv, StoppedQuiet, NEW p \in Producers, NotifyLock(p)
    PROVE  Advance /\ StoppedQuiet'
<1>1. l.state # "STOPPED"
  BY Roles DEF NotifyLock, At, LifeInv, LentOnly, StoppedQuiet
<1>2. Latches
  <2>1. l.completed_pos \in Nat
    BY LoggerFieldTypes DEF Types
  <2>2. l' = l \/ l' = [l EXCEPT !.enqueued = @ + 1, !.first_error = TRUE]
    BY DEF NotifyLock
  <2>3. l'.completed_pos = l.completed_pos
    BY <2>2 DEF Types, LoggerFields
  <2>4. l.first_error => l'.first_error
    BY <2>2 DEF Types, LoggerFields
  <2>5. l.lifecycle_error => l'.lifecycle_error
    BY <2>2 DEF Types, LoggerFields
  <2>6. l.synchronization_error => l'.synchronization_error
    BY <2>2 DEF Types, LoggerFields
  <2> QED
    BY <2>1, <2>3, <2>4, <2>5, <2>6 DEF Latches
<1>3. \/ l'.state = l.state \/ l'.state = "STOPPING"
      \/ l.state = "CREATED" /\ l'.state = "RUNNING"
  BY DEF Types, LoggerFields, NotifyLock
<1> QED
  BY <1>1, <1>2, <1>3, AdvanceFrame

\* Notify advances the logger.
LEMMA NotifyAdvances ==
    ASSUME Types, RecordInv, LifeInv, StoppedQuiet, NEW p \in Producers, Notify(p)
    PROVE  Advance /\ StoppedQuiet'
<1>1. l.state # "STOPPED"
  BY Roles DEF Notify, At, LifeInv, LentOnly, StoppedQuiet
<1>2. Latches
  <2>1. l.completed_pos \in Nat
    BY LoggerFieldTypes DEF Types
  <2> QED
    BY <2>1 DEF Types, LoggerFields, Latches, Notify
<1>3. \/ l'.state = l.state \/ l'.state = "STOPPING"
      \/ l.state = "CREATED" /\ l'.state = "RUNNING"
  BY DEF Types, LoggerFields, Notify
<1> QED
  BY <1>1, <1>2, <1>3, AdvanceFrame

\* PushFailed advances the logger.
LEMMA PushFailedAdvances ==
    ASSUME Types, RecordInv, LifeInv, StoppedQuiet, NEW p \in Producers, PushFailed(p)
    PROVE  Advance /\ StoppedQuiet'
<1>1. l.state # "STOPPED"
  BY Roles DEF PushFailed, At, LifeInv, LentOnly, StoppedQuiet
<1>2. Latches
  <2>1. l.completed_pos \in Nat
    BY LoggerFieldTypes DEF Types
  <2> QED
    BY <2>1 DEF Types, LoggerFields, Latches, PushFailed
<1>3. \/ l'.state = l.state \/ l'.state = "STOPPING"
      \/ l.state = "CREATED" /\ l'.state = "RUNNING"
  BY DEF Types, LoggerFields, PushFailed
<1> QED
  BY <1>1, <1>2, <1>3, AdvanceFrame

\* FormatStatus advances the logger.
LEMMA FormatStatusAdvances ==
    ASSUME Types, RecordInv, LifeInv, StoppedQuiet, NEW p \in Producers, FormatStatus(p)
    PROVE  Advance /\ StoppedQuiet'
<1>1. l.state # "STOPPED"
  BY Roles DEF FormatStatus, At, LifeInv, LentOnly, StoppedQuiet
<1>2. Latches
  <2>1. l.completed_pos \in Nat
    BY LoggerFieldTypes DEF Types
  <2>2. l' = l \/ l' = [l EXCEPT !.first_error = TRUE, !.sync_completed = @ + 1]
    BY DEF FormatStatus, Unsent
  <2>3. l'.completed_pos = l.completed_pos
    BY <2>2 DEF Types, LoggerFields
  <2>4. l.first_error => l'.first_error
    BY <2>2 DEF Types, LoggerFields
  <2>5. l.lifecycle_error => l'.lifecycle_error
    BY <2>2 DEF Types, LoggerFields
  <2>6. l.synchronization_error => l'.synchronization_error
    BY <2>2 DEF Types, LoggerFields
  <2> QED
    BY <2>1, <2>3, <2>4, <2>5, <2>6 DEF Latches
<1>3. \/ l'.state = l.state \/ l'.state = "STOPPING"
      \/ l.state = "CREATED" /\ l'.state = "RUNNING"
  BY DEF Types, LoggerFields, FormatStatus, Unsent
<1> QED
  BY <1>1, <1>2, <1>3, AdvanceFrame

\* EmitCheck advances the logger.
LEMMA EmitCheckAdvances ==
    ASSUME Types, RecordInv, LifeInv, StoppedQuiet, NEW p \in Producers, EmitCheck(p)
    PROVE  Advance /\ StoppedQuiet'
<1>1. l.state # "STOPPED"
  BY Roles DEF EmitCheck, At, LifeInv, LentOnly, StoppedQuiet
<1>2. Latches
  <2>1. l.completed_pos \in Nat
    BY LoggerFieldTypes DEF Types
  <2>2. l' = l \/ l' = [l EXCEPT !.first_error = TRUE, !.sync_completed = @ + 1]
    BY DEF EmitCheck, Unsent
  <2>3. l'.completed_pos = l.completed_pos
    BY <2>2 DEF Types, LoggerFields
  <2>4. l.first_error => l'.first_error
    BY <2>2 DEF Types, LoggerFields
  <2>5. l.lifecycle_error => l'.lifecycle_error
    BY <2>2 DEF Types, LoggerFields
  <2>6. l.synchronization_error => l'.synchronization_error
    BY <2>2 DEF Types, LoggerFields
  <2> QED
    BY <2>1, <2>3, <2>4, <2>5, <2>6 DEF Latches
<1>3. \/ l'.state = l.state \/ l'.state = "STOPPING"
      \/ l.state = "CREATED" /\ l'.state = "RUNNING"
  BY DEF Types, LoggerFields, EmitCheck, Unsent
<1> QED
  BY <1>1, <1>2, <1>3, AdvanceFrame

\* EmitLock advances the logger.
LEMMA EmitLockAdvances ==
    ASSUME Types, RecordInv, LifeInv, StoppedQuiet, NEW p \in Producers, EmitLock(p)
    PROVE  Advance /\ StoppedQuiet'
<1>1. l.state # "STOPPED"
  BY Roles DEF EmitLock, At, LifeInv, LentOnly, StoppedQuiet
<1>2. Latches
  <2>1. l.completed_pos \in Nat
    BY LoggerFieldTypes DEF Types
  <2>2. l' = l \/ l' = [l EXCEPT !.first_error = TRUE, !.sync_completed = @ + 1]
    BY DEF EmitLock, Unsent
  <2>3. l'.completed_pos = l.completed_pos
    BY <2>2 DEF Types, LoggerFields
  <2>4. l.first_error => l'.first_error
    BY <2>2 DEF Types, LoggerFields
  <2>5. l.lifecycle_error => l'.lifecycle_error
    BY <2>2 DEF Types, LoggerFields
  <2>6. l.synchronization_error => l'.synchronization_error
    BY <2>2 DEF Types, LoggerFields
  <2> QED
    BY <2>1, <2>3, <2>4, <2>5, <2>6 DEF Latches
<1>3. \/ l'.state = l.state \/ l'.state = "STOPPING"
      \/ l.state = "CREATED" /\ l'.state = "RUNNING"
  BY DEF Types, LoggerFields, EmitLock, Unsent
<1> QED
  BY <1>1, <1>2, <1>3, AdvanceFrame

\* EmitStatus advances the logger.
LEMMA EmitStatusAdvances ==
    ASSUME Types, RecordInv, LifeInv, StoppedQuiet, NEW p \in Producers, EmitStatus(p)
    PROVE  Advance /\ StoppedQuiet'
<1>1. l.state # "STOPPED"
  BY Roles DEF EmitStatus, At, LifeInv, LentOnly, StoppedQuiet
<1>2. Latches
  <2>1. l.completed_pos \in Nat
    BY LoggerFieldTypes DEF Types
  <2> QED
    BY <2>1 DEF Types, LoggerFields, Latches, EmitStatus
<1>3. \/ l'.state = l.state \/ l'.state = "STOPPING"
      \/ l.state = "CREATED" /\ l'.state = "RUNNING"
  BY DEF Types, LoggerFields, EmitStatus
<1> QED
  BY <1>1, <1>2, <1>3, AdvanceFrame

\* ForceLock advances the logger.
LEMMA ForceLockAdvances ==
    ASSUME Types, RecordInv, LifeInv, StoppedQuiet, NEW t \in Producers \cup {Host}, ForceLock(t)
    PROVE  Advance /\ StoppedQuiet'
<1>1. l.state # "STOPPED"
  BY Roles DEF ForceLock, At, LifeInv, LentOnly, StoppedQuiet
<1>2. Latches
  <2>1. l.completed_pos \in Nat
    BY LoggerFieldTypes DEF Types
  <2> QED
    BY <2>1 DEF Types, LoggerFields, Latches, ForceLock
<1>3. \/ l'.state = l.state \/ l'.state = "STOPPING"
      \/ l.state = "CREATED" /\ l'.state = "RUNNING"
  BY DEF Types, LoggerFields, ForceLock
<1> QED
  BY <1>1, <1>2, <1>3, AdvanceFrame

\* WakeForce advances the logger.
LEMMA WakeForceAdvances ==
    ASSUME Types, RecordInv, LifeInv, StoppedQuiet, NEW t \in Producers \cup {Host}, WakeForce(t)
    PROVE  Advance /\ StoppedQuiet'
<1>1. l.state # "STOPPED"
  BY Roles DEF WakeForce, At, LifeInv, LentOnly, StoppedQuiet
<1>2. Latches
  <2>1. l.completed_pos \in Nat
    BY LoggerFieldTypes DEF Types
  <2> QED
    BY <2>1 DEF Types, LoggerFields, Latches, WakeForce
<1>3. \/ l'.state = l.state \/ l'.state = "STOPPING"
      \/ l.state = "CREATED" /\ l'.state = "RUNNING"
  BY DEF Types, LoggerFields, WakeForce
<1> QED
  BY <1>1, <1>2, <1>3, AdvanceFrame

\* ForceFailed advances the logger.
LEMMA ForceFailedAdvances ==
    ASSUME Types, RecordInv, LifeInv, StoppedQuiet, NEW t \in Producers \cup {Host}, ForceFailed(t)
    PROVE  Advance /\ StoppedQuiet'
<1>1. l.state # "STOPPED"
  BY Roles DEF ForceFailed, At, LifeInv, LentOnly, StoppedQuiet
<1>2. Latches
  <2>1. l.completed_pos \in Nat
    BY LoggerFieldTypes DEF Types
  <2> QED
    BY <2>1 DEF Types, LoggerFields, Latches, ForceFailed
<1>3. \/ l'.state = l.state \/ l'.state = "STOPPING"
      \/ l.state = "CREATED" /\ l'.state = "RUNNING"
  BY DEF Types, LoggerFields, ForceFailed
<1> QED
  BY <1>1, <1>2, <1>3, AdvanceFrame

\* EnterFlush advances the logger.
LEMMA EnterFlushAdvances ==
    ASSUME Types, RecordInv, LifeInv, StoppedQuiet, NEW f \in Flushers, EnterFlush(f)
    PROVE  Advance /\ StoppedQuiet'
<1>1. l.state # "STOPPED"
  BY Roles DEF EnterFlush, At, LifeInv, LentOnly, StoppedQuiet
<1>2. Latches
  <2>1. l.completed_pos \in Nat
    BY LoggerFieldTypes DEF Types
  <2> QED
    BY <2>1 DEF Types, LoggerFields, Latches, EnterFlush
<1>3. \/ l'.state = l.state \/ l'.state = "STOPPING"
      \/ l.state = "CREATED" /\ l'.state = "RUNNING"
  BY DEF Types, LoggerFields, EnterFlush
<1> QED
  BY <1>1, <1>2, <1>3, AdvanceFrame

\* FlushCheck advances the logger.
LEMMA FlushCheckAdvances ==
    ASSUME Types, RecordInv, LifeInv, StoppedQuiet, NEW f \in Flushers, FlushCheck(f)
    PROVE  Advance /\ StoppedQuiet'
<1>1. l.state # "STOPPED"
  BY Roles DEF FlushCheck, At, LifeInv, LentOnly, StoppedQuiet
<1>2. Latches
  <2>1. l.completed_pos \in Nat
    BY LoggerFieldTypes DEF Types
  <2> QED
    BY <2>1 DEF Types, LoggerFields, Latches, FlushCheck
<1>3. \/ l'.state = l.state \/ l'.state = "STOPPING"
      \/ l.state = "CREATED" /\ l'.state = "RUNNING"
  BY DEF Types, LoggerFields, FlushCheck
<1> QED
  BY <1>1, <1>2, <1>3, AdvanceFrame

\* FlushTarget advances the logger.
LEMMA FlushTargetAdvances ==
    ASSUME Types, RecordInv, LifeInv, StoppedQuiet, NEW f \in Flushers, FlushTarget(f)
    PROVE  Advance /\ StoppedQuiet'
<1>1. l.state # "STOPPED"
  BY Roles DEF FlushTarget, At, LifeInv, LentOnly, StoppedQuiet
<1>2. Latches
  <2>1. l.completed_pos \in Nat
    BY LoggerFieldTypes DEF Types
  <2> QED
    BY <2>1 DEF Types, LoggerFields, Latches, FlushTarget
<1>3. \/ l'.state = l.state \/ l'.state = "STOPPING"
      \/ l.state = "CREATED" /\ l'.state = "RUNNING"
  BY DEF Types, LoggerFields, FlushTarget
<1> QED
  BY <1>1, <1>2, <1>3, AdvanceFrame

\* FlushLock advances the logger.
LEMMA FlushLockAdvances ==
    ASSUME Types, RecordInv, LifeInv, StoppedQuiet, NEW f \in Flushers, FlushLock(f)
    PROVE  Advance /\ StoppedQuiet'
<1>1. l.state # "STOPPED"
  BY Roles DEF FlushLock, At, LifeInv, LentOnly, StoppedQuiet
<1>2. Latches
  <2>1. l.completed_pos \in Nat
    BY LoggerFieldTypes DEF Types
  <2> QED
    BY <2>1 DEF Types, LoggerFields, Latches, FlushLock
<1>3. \/ l'.state = l.state \/ l'.state = "STOPPING"
      \/ l.state = "CREATED" /\ l'.state = "RUNNING"
  BY DEF Types, LoggerFields, FlushLock
<1> QED
  BY <1>1, <1>2, <1>3, AdvanceFrame

\* FlushTest advances the logger.
LEMMA FlushTestAdvances ==
    ASSUME Types, RecordInv, LifeInv, StoppedQuiet, NEW f \in Flushers, FlushTest(f)
    PROVE  Advance /\ StoppedQuiet'
<1>1. l.state # "STOPPED"
  BY Roles DEF FlushTest, At, LifeInv, LentOnly, StoppedQuiet
<1>2. Latches
  <2>1. l.completed_pos \in Nat
    BY LoggerFieldTypes DEF Types
  <2> QED
    BY <2>1 DEF Types, LoggerFields, Latches, FlushTest
<1>3. \/ l'.state = l.state \/ l'.state = "STOPPING"
      \/ l.state = "CREATED" /\ l'.state = "RUNNING"
  BY DEF Types, LoggerFields, FlushTest
<1> QED
  BY <1>1, <1>2, <1>3, AdvanceFrame

\* FlushAwake advances the logger.
LEMMA FlushAwakeAdvances ==
    ASSUME Types, RecordInv, LifeInv, StoppedQuiet, NEW f \in Flushers, FlushAwake(f)
    PROVE  Advance /\ StoppedQuiet'
<1>1. l.state # "STOPPED"
  BY Roles DEF FlushAwake, At, LifeInv, LentOnly, StoppedQuiet
<1>2. Latches
  <2>1. l.completed_pos \in Nat
    BY LoggerFieldTypes DEF Types
  <2> QED
    BY <2>1 DEF Types, LoggerFields, Latches, FlushAwake
<1>3. \/ l'.state = l.state \/ l'.state = "STOPPING"
      \/ l.state = "CREATED" /\ l'.state = "RUNNING"
  BY DEF Types, LoggerFields, FlushAwake
<1> QED
  BY <1>1, <1>2, <1>3, AdvanceFrame

\* FlushError advances the logger.
LEMMA FlushErrorAdvances ==
    ASSUME Types, RecordInv, LifeInv, StoppedQuiet, NEW f \in Flushers, FlushError(f)
    PROVE  Advance /\ StoppedQuiet'
<1>1. l.state # "STOPPED"
  BY Roles DEF FlushError, At, LifeInv, LentOnly, StoppedQuiet
<1>2. Latches
  <2>1. l.completed_pos \in Nat
    BY LoggerFieldTypes DEF Types
  <2> QED
    BY <2>1 DEF Types, LoggerFields, Latches, FlushError
<1>3. \/ l'.state = l.state \/ l'.state = "STOPPING"
      \/ l.state = "CREATED" /\ l'.state = "RUNNING"
  BY DEF Types, LoggerFields, FlushError
<1> QED
  BY <1>1, <1>2, <1>3, AdvanceFrame

\* SyncCheck advances the logger.
LEMMA SyncCheckAdvances ==
    ASSUME Types, RecordInv, LifeInv, StoppedQuiet, NEW f \in Flushers, SyncCheck(f)
    PROVE  Advance /\ StoppedQuiet'
<1>1. l.state # "STOPPED"
  BY Roles DEF SyncCheck, At, LifeInv, LentOnly, StoppedQuiet
<1>2. Latches
  <2>1. l.completed_pos \in Nat
    BY LoggerFieldTypes DEF Types
  <2> QED
    BY <2>1 DEF Types, LoggerFields, Latches, SyncCheck
<1>3. \/ l'.state = l.state \/ l'.state = "STOPPING"
      \/ l.state = "CREATED" /\ l'.state = "RUNNING"
  BY DEF Types, LoggerFields, SyncCheck
<1> QED
  BY <1>1, <1>2, <1>3, AdvanceFrame

\* SyncLock advances the logger.
LEMMA SyncLockAdvances ==
    ASSUME Types, RecordInv, LifeInv, StoppedQuiet, NEW f \in Flushers, SyncLock(f)
    PROVE  Advance /\ StoppedQuiet'
<1>1. l.state # "STOPPED"
  BY Roles DEF SyncLock, At, LifeInv, LentOnly, StoppedQuiet
<1>2. Latches
  <2>1. l.completed_pos \in Nat
    BY LoggerFieldTypes DEF Types
  <2> QED
    BY <2>1 DEF Types, LoggerFields, Latches, SyncLock
<1>3. \/ l'.state = l.state \/ l'.state = "STOPPING"
      \/ l.state = "CREATED" /\ l'.state = "RUNNING"
  BY DEF Types, LoggerFields, SyncLock
<1> QED
  BY <1>1, <1>2, <1>3, AdvanceFrame

\* Sync advances the logger.
LEMMA SyncAdvances ==
    ASSUME Types, RecordInv, LifeInv, StoppedQuiet, NEW f \in Flushers, Sync(f)
    PROVE  Advance /\ StoppedQuiet'
<1>1. l.state # "STOPPED"
  BY Roles DEF Sync, At, LifeInv, LentOnly, StoppedQuiet
<1>2. Latches
  <2>1. l.completed_pos \in Nat
    BY LoggerFieldTypes DEF Types
  <2> QED
    BY <2>1 DEF Types, LoggerFields, Latches, Sync, SyncOutputs
<1>3. \/ l'.state = l.state \/ l'.state = "STOPPING"
      \/ l.state = "CREATED" /\ l'.state = "RUNNING"
  BY DEF Types, LoggerFields, Sync, SyncOutputs
<1> QED
  BY <1>1, <1>2, <1>3, AdvanceFrame

\* Drain advances the logger.
LEMMA DrainAdvances ==
    ASSUME Types, RecordInv, LifeInv, StoppedQuiet, Drain
    PROVE  Advance /\ StoppedQuiet'
<1>1. l.state # "STOPPED"
  BY DEF Drain, At, StoppedQuiet
<1>2. Latches
  <2>1. l.completed_pos \in Nat
    BY LoggerFieldTypes DEF Types
  <2> QED
    BY <2>1 DEF Types, LoggerFields, Latches, Drain
<1>3. \/ l'.state = l.state \/ l'.state = "STOPPING"
      \/ l.state = "CREATED" /\ l'.state = "RUNNING"
  BY DEF Types, LoggerFields, Drain
<1> QED
  BY <1>1, <1>2, <1>3, AdvanceFrame

\* DrainEnd advances the logger.
LEMMA DrainEndAdvances ==
    ASSUME Types, RecordInv, LifeInv, StoppedQuiet, DrainEnd
    PROVE  Advance /\ StoppedQuiet'
<1>1. l.state # "STOPPED"
  BY DEF DrainEnd, At, StoppedQuiet
<1>2. Latches
  <2>1. l.completed_pos \in Nat
    BY LoggerFieldTypes DEF Types
  <2> QED
    BY <2>1 DEF Types, LoggerFields, Latches, DrainEnd
<1>3. \/ l'.state = l.state \/ l'.state = "STOPPING"
      \/ l.state = "CREATED" /\ l'.state = "RUNNING"
  BY DEF Types, LoggerFields, DrainEnd
<1> QED
  BY <1>1, <1>2, <1>3, AdvanceFrame

\* BatchFormat advances the logger.
LEMMA BatchFormatAdvances ==
    ASSUME Types, RecordInv, LifeInv, StoppedQuiet, BatchFormat
    PROVE  Advance /\ StoppedQuiet'
<1>1. l.state # "STOPPED"
  BY DEF BatchFormat, At, StoppedQuiet
<1>2. Latches
  <2>1. l.completed_pos \in Nat
    BY LoggerFieldTypes DEF Types
  <2> QED
    BY <2>1 DEF Types, LoggerFields, Latches, BatchFormat
<1>3. \/ l'.state = l.state \/ l'.state = "STOPPING"
      \/ l.state = "CREATED" /\ l'.state = "RUNNING"
  BY DEF Types, LoggerFields, BatchFormat
<1> QED
  BY <1>1, <1>2, <1>3, AdvanceFrame

\* BatchLock advances the logger.
LEMMA BatchLockAdvances ==
    ASSUME Types, RecordInv, LifeInv, StoppedQuiet, BatchLock
    PROVE  Advance /\ StoppedQuiet'
<1>1. l.state # "STOPPED"
  BY DEF BatchLock, At, StoppedQuiet
<1>2. Latches
  <2>1. l.completed_pos \in Nat
    BY LoggerFieldTypes DEF Types
  <2> QED
    BY <2>1 DEF Types, LoggerFields, Latches, BatchLock
<1>3. \/ l'.state = l.state \/ l'.state = "STOPPING"
      \/ l.state = "CREATED" /\ l'.state = "RUNNING"
  BY DEF Types, LoggerFields, BatchLock
<1> QED
  BY <1>1, <1>2, <1>3, AdvanceFrame

\* EmitBatch advances the logger.
LEMMA EmitBatchAdvances ==
    ASSUME Types, RecordInv, LifeInv, StoppedQuiet, EmitBatch
    PROVE  Advance /\ StoppedQuiet'
<1>1. l.state # "STOPPED"
  BY DEF EmitBatch, At, StoppedQuiet
<1>2. Latches
  <2>1. l.completed_pos \in Nat
    BY LoggerFieldTypes DEF Types
  <2> QED
    BY <2>1 DEF Types, LoggerFields, Latches, EmitBatch
<1>3. \/ l'.state = l.state \/ l'.state = "STOPPING"
      \/ l.state = "CREATED" /\ l'.state = "RUNNING"
  BY DEF Types, LoggerFields, EmitBatch
<1> QED
  BY <1>1, <1>2, <1>3, AdvanceFrame

\* BatchDone advances the logger.
LEMMA BatchDoneAdvances ==
    ASSUME Types, RecordInv, LifeInv, StoppedQuiet, BatchDone
    PROVE  Advance /\ StoppedQuiet'
<1>1. l.state # "STOPPED"
  BY DEF BatchDone, At, StoppedQuiet
<1>2. Latches
  <2>1. l.completed_pos \in Nat
    BY LoggerFieldTypes DEF Types
  <2> QED
    BY <2>1 DEF Types, LoggerFields, Latches, BatchDone
<1>3. \/ l'.state = l.state \/ l'.state = "STOPPING"
      \/ l.state = "CREATED" /\ l'.state = "RUNNING"
  BY DEF Types, LoggerFields, BatchDone
<1> QED
  BY <1>1, <1>2, <1>3, AdvanceFrame

\* ProgressLock advances the logger.
LEMMA ProgressLockAdvances ==
    ASSUME Types, RecordInv, LifeInv, StoppedQuiet, ProgressLock
    PROVE  Advance /\ StoppedQuiet'
<1>1. l.state # "STOPPED"
  BY DEF ProgressLock, At, StoppedQuiet
<1>2. Latches
  <2>1. l.completed_pos \in Nat
    BY LoggerFieldTypes DEF Types
  <2> QED
    BY <2>1 DEF Types, LoggerFields, Latches, ProgressLock
<1>3. \/ l'.state = l.state \/ l'.state = "STOPPING"
      \/ l.state = "CREATED" /\ l'.state = "RUNNING"
  BY DEF Types, LoggerFields, ProgressLock
<1> QED
  BY <1>1, <1>2, <1>3, AdvanceFrame

\* WaitLock advances the logger.
LEMMA WaitLockAdvances ==
    ASSUME Types, RecordInv, LifeInv, StoppedQuiet, WaitLock
    PROVE  Advance /\ StoppedQuiet'
<1>1. l.state # "STOPPED"
  BY DEF WaitLock, At, StoppedQuiet
<1>2. Latches
  <2>1. l.completed_pos \in Nat
    BY LoggerFieldTypes DEF Types
  <2> QED
    BY <2>1 DEF Types, LoggerFields, Latches, WaitLock
<1>3. \/ l'.state = l.state \/ l'.state = "STOPPING"
      \/ l.state = "CREATED" /\ l'.state = "RUNNING"
  BY DEF Types, LoggerFields, WaitLock
<1> QED
  BY <1>1, <1>2, <1>3, AdvanceFrame

\* WaitTest advances the logger.
LEMMA WaitTestAdvances ==
    ASSUME Types, RecordInv, LifeInv, StoppedQuiet, WaitTest
    PROVE  Advance /\ StoppedQuiet'
<1>1. l.state # "STOPPED"
  BY DEF WaitTest, At, StoppedQuiet
<1>2. Latches
  <2>1. l.completed_pos \in Nat
    BY LoggerFieldTypes DEF Types
  <2> QED
    BY <2>1 DEF Types, LoggerFields, Latches, WaitTest
<1>3. \/ l'.state = l.state \/ l'.state = "STOPPING"
      \/ l.state = "CREATED" /\ l'.state = "RUNNING"
  BY DEF Types, LoggerFields, WaitTest
<1> QED
  BY <1>1, <1>2, <1>3, AdvanceFrame

\* WaitRetest advances the logger.
LEMMA WaitRetestAdvances ==
    ASSUME Types, RecordInv, LifeInv, StoppedQuiet, WaitRetest
    PROVE  Advance /\ StoppedQuiet'
<1>1. l.state # "STOPPED"
  BY DEF WaitRetest, At, StoppedQuiet
<1>2. Latches
  <2>1. l.completed_pos \in Nat
    BY LoggerFieldTypes DEF Types
  <2> QED
    BY <2>1 DEF Types, LoggerFields, Latches, WaitRetest
<1>3. \/ l'.state = l.state \/ l'.state = "STOPPING"
      \/ l.state = "CREATED" /\ l'.state = "RUNNING"
  BY DEF Types, LoggerFields, WaitRetest
<1> QED
  BY <1>1, <1>2, <1>3, AdvanceFrame

\* WaitAwake advances the logger.
LEMMA WaitAwakeAdvances ==
    ASSUME Types, RecordInv, LifeInv, StoppedQuiet, WaitAwake
    PROVE  Advance /\ StoppedQuiet'
<1>1. l.state # "STOPPED"
  BY DEF WaitAwake, At, StoppedQuiet
<1>2. Latches
  <2>1. l.completed_pos \in Nat
    BY LoggerFieldTypes DEF Types
  <2> QED
    BY <2>1 DEF Types, LoggerFields, Latches, WaitAwake
<1>3. \/ l'.state = l.state \/ l'.state = "STOPPING"
      \/ l.state = "CREATED" /\ l'.state = "RUNNING"
  BY DEF Types, LoggerFields, WaitAwake
<1> QED
  BY <1>1, <1>2, <1>3, AdvanceFrame

\* WaitEnd advances the logger.
LEMMA WaitEndAdvances ==
    ASSUME Types, RecordInv, LifeInv, StoppedQuiet, WaitEnd
    PROVE  Advance /\ StoppedQuiet'
<1>1. l.state # "STOPPED"
  BY DEF WaitEnd, At, StoppedQuiet
<1>2. Latches
  <2>1. l.completed_pos \in Nat
    BY LoggerFieldTypes DEF Types
  <2> QED
    BY <2>1 DEF Types, LoggerFields, Latches, WaitEnd
<1>3. \/ l'.state = l.state \/ l'.state = "STOPPING"
      \/ l.state = "CREATED" /\ l'.state = "RUNNING"
  BY DEF Types, LoggerFields, WaitEnd
<1> QED
  BY <1>1, <1>2, <1>3, AdvanceFrame

\* Final advances the logger.
LEMMA FinalAdvances ==
    ASSUME Types, RecordInv, LifeInv, StoppedQuiet, Final
    PROVE  Advance /\ StoppedQuiet'
<1>1. l.state # "STOPPED"
  BY DEF Final, At, StoppedQuiet
<1>2. Latches
  <2>1. l.completed_pos \in Nat
    BY LoggerFieldTypes DEF Types
  <2> QED
    BY <2>1 DEF Types, LoggerFields, Latches, Final
<1>3. \/ l'.state = l.state \/ l'.state = "STOPPING"
      \/ l.state = "CREATED" /\ l'.state = "RUNNING"
  BY DEF Types, LoggerFields, Final
<1> QED
  BY <1>1, <1>2, <1>3, AdvanceFrame

\* FinalLock advances the logger.
LEMMA FinalLockAdvances ==
    ASSUME Types, RecordInv, LifeInv, StoppedQuiet, FinalLock
    PROVE  Advance /\ StoppedQuiet'
<1>1. l.state # "STOPPED"
  BY DEF FinalLock, At, StoppedQuiet
<1>2. Latches
  <2>1. l.completed_pos \in Nat
    BY LoggerFieldTypes DEF Types
  <2> QED
    BY <2>1 DEF Types, LoggerFields, Latches, FinalLock
<1>3. \/ l'.state = l.state \/ l'.state = "STOPPING"
      \/ l.state = "CREATED" /\ l'.state = "RUNNING"
  BY DEF Types, LoggerFields, FinalLock
<1> QED
  BY <1>1, <1>2, <1>3, AdvanceFrame

\* Broadcast advances the logger.
LEMMA BroadcastAdvances ==
    ASSUME Types, RecordInv, LifeInv, StoppedQuiet, Broadcast
    PROVE  Advance /\ StoppedQuiet'
<1>1. l.state # "STOPPED"
  BY DEF Broadcast, At, StoppedQuiet
<1>2. Latches
  <2>1. l.completed_pos \in Nat
    BY LoggerFieldTypes DEF Types
  <2> QED
    BY <2>1 DEF Types, LoggerFields, Latches, Broadcast
<1>3. \/ l'.state = l.state \/ l'.state = "STOPPING"
      \/ l.state = "CREATED" /\ l'.state = "RUNNING"
  BY DEF Types, LoggerFields, Broadcast
<1> QED
  BY <1>1, <1>2, <1>3, AdvanceFrame

\* StartWorker advances the logger.
LEMMA StartWorkerAdvances ==
    ASSUME Types, RecordInv, LifeInv, StoppedQuiet, StartWorker
    PROVE  Advance /\ StoppedQuiet'
<1>1. l.state # "STOPPED"
  BY DEF StartWorker, At, StoppedQuiet
<1>2. Latches
  <2>1. l.completed_pos \in Nat
    BY LoggerFieldTypes DEF Types
  <2> QED
    BY <2>1 DEF Types, LoggerFields, Latches, StartWorker
<1>3. \/ l'.state = l.state \/ l'.state = "STOPPING"
      \/ l.state = "CREATED" /\ l'.state = "RUNNING"
  BY DEF Types, LoggerFields, StartWorker
<1> QED
  BY <1>1, <1>2, <1>3, AdvanceFrame

\* PublishRunning advances the logger.
LEMMA PublishRunningAdvances ==
    ASSUME Types, RecordInv, LifeInv, StoppedQuiet, PublishRunning
    PROVE  Advance /\ StoppedQuiet'
<1>1. l.state # "STOPPED"
  BY DEF PublishRunning, At, StoppedQuiet
<1>2. Latches
  <2>1. l.completed_pos \in Nat
    BY LoggerFieldTypes DEF Types
  <2> QED
    BY <2>1 DEF Types, LoggerFields, Latches, PublishRunning
<1>3. \/ l'.state = l.state \/ l'.state = "STOPPING"
      \/ l.state = "CREATED" /\ l'.state = "RUNNING"
  BY DEF Types, LoggerFields, PublishRunning
<1> QED
  BY <1>1, <1>2, <1>3, AdvanceFrame

\* Rollback advances the logger.
LEMMA RollbackAdvances ==
    ASSUME Types, RecordInv, LifeInv, StoppedQuiet, Rollback
    PROVE  Advance /\ StoppedQuiet'
<1>1. l.state # "STOPPED"
  BY DEF Rollback, At, StoppedQuiet
<1>2. Latches
  <2>1. l.completed_pos \in Nat
    BY LoggerFieldTypes DEF Types
  <2>2. \/ l' = [l EXCEPT !.built = {}]
        \/ l' = [l EXCEPT !.state = "STOPPING", !.lifecycle_error = TRUE]
        \/ l' = [l EXCEPT !.state = "STOPPING", !.running = FALSE]
    BY DEF Rollback
  <2>3. l'.completed_pos = l.completed_pos
    BY <2>2 DEF Types, LoggerFields
  <2>4. l.first_error => l'.first_error
    BY <2>2 DEF Types, LoggerFields
  <2>5. l.lifecycle_error => l'.lifecycle_error
    BY <2>2 DEF Types, LoggerFields
  <2>6. l.synchronization_error => l'.synchronization_error
    BY <2>2 DEF Types, LoggerFields
  <2> QED
    BY <2>1, <2>3, <2>4, <2>5, <2>6 DEF Latches
<1>3. \/ l'.state = l.state \/ l'.state = "STOPPING"
      \/ l.state = "CREATED" /\ l'.state = "RUNNING"
  BY DEF Types, LoggerFields, Rollback
<1> QED
  BY <1>1, <1>2, <1>3, AdvanceFrame

\* Destroy advances the logger.
LEMMA DestroyAdvances ==
    ASSUME Types, RecordInv, LifeInv, StoppedQuiet, Destroy
    PROVE  Advance /\ StoppedQuiet'
<1>1. l.state # "STOPPED"
  BY DEF Destroy, At, StoppedQuiet
<1>2. Latches
  <2>1. l.completed_pos \in Nat
    BY LoggerFieldTypes DEF Types
  <2> QED
    BY <2>1 DEF Types, LoggerFields, Latches, Destroy
<1>3. \/ l'.state = l.state \/ l'.state = "STOPPING"
      \/ l.state = "CREATED" /\ l'.state = "RUNNING"
  BY DEF Types, LoggerFields, Destroy
<1> QED
  BY <1>1, <1>2, <1>3, AdvanceFrame

\* StopCheck advances the logger.
LEMMA StopCheckAdvances ==
    ASSUME Types, RecordInv, LifeInv, StoppedQuiet, StopCheck
    PROVE  Advance /\ StoppedQuiet'
<1>1. l.state # "STOPPED"
  BY DEF StopCheck, At, StoppedQuiet
<1>2. Latches
  <2>1. l.completed_pos \in Nat
    BY LoggerFieldTypes DEF Types
  <2> QED
    BY <2>1 DEF Types, LoggerFields, Latches, StopCheck
<1>3. \/ l'.state = l.state \/ l'.state = "STOPPING"
      \/ l.state = "CREATED" /\ l'.state = "RUNNING"
  BY DEF Types, LoggerFields, StopCheck
<1> QED
  BY <1>1, <1>2, <1>3, AdvanceFrame

\* Join advances the logger.
LEMMA JoinAdvances ==
    ASSUME Types, RecordInv, LifeInv, StoppedQuiet, Join
    PROVE  Advance /\ StoppedQuiet'
<1>1. l.state # "STOPPED"
  BY DEF Join, At, StoppedQuiet
<1>2. Latches
  <2>1. l.completed_pos \in Nat
    BY LoggerFieldTypes DEF Types
  <2> QED
    BY <2>1 DEF Types, LoggerFields, Latches, Join
<1>3. \/ l'.state = l.state \/ l'.state = "STOPPING"
      \/ l.state = "CREATED" /\ l'.state = "RUNNING"
  BY DEF Types, LoggerFields, Join
<1> QED
  BY <1>1, <1>2, <1>3, AdvanceFrame

\* Joined advances the logger.
LEMMA JoinedAdvances ==
    ASSUME Types, RecordInv, LifeInv, StoppedQuiet, Joined
    PROVE  Advance /\ StoppedQuiet'
<1>1. l.state # "STOPPED"
  BY DEF Joined, At, StoppedQuiet
<1>2. Latches
  <2>1. l.completed_pos \in Nat
    BY LoggerFieldTypes DEF Types
  <2> QED
    BY <2>1 DEF Types, LoggerFields, Latches, Joined
<1>3. \/ l'.state = l.state \/ l'.state = "STOPPING"
      \/ l.state = "CREATED" /\ l'.state = "RUNNING"
  BY DEF Types, LoggerFields, Joined
<1> QED
  BY <1>1, <1>2, <1>3, AdvanceFrame

\* FinalSync advances the logger.
LEMMA FinalSyncAdvances ==
    ASSUME Types, RecordInv, LifeInv, StoppedQuiet, FinalSync
    PROVE  Advance /\ StoppedQuiet'
<1>1. l.state # "STOPPED"
  BY DEF FinalSync, At, StoppedQuiet
<1>2. Latches
  <2>1. l.completed_pos \in Nat
    BY LoggerFieldTypes DEF Types
  <2> QED
    BY <2>1 DEF Types, LoggerFields, Latches, FinalSync, SyncOutputs
<1>3. \/ l'.state = l.state \/ l'.state = "STOPPING"
      \/ l.state = "CREATED" /\ l'.state = "RUNNING"
  BY DEF Types, LoggerFields, FinalSync, SyncOutputs
<1> QED
  BY <1>1, <1>2, <1>3, AdvanceFrame

\* NoteStep advances the logger.
LEMMA NoteStepAdvances ==
    ASSUME Types, RecordInv, LifeInv, StoppedQuiet, NEW t \in Threads, NoteStep(t)
    PROVE  Advance /\ StoppedQuiet'
<1>1. l.state # "STOPPED"
  BY DEF NoteStep, At, StoppedQuiet
<1>2. Latches
  <2>1. l.completed_pos \in Nat
    BY LoggerFieldTypes DEF Types
  <2>2. \/ l' = [l EXCEPT !.synchronization_error = TRUE]
        \/ l' = [l EXCEPT !.lifecycle_error = TRUE]
        \/ l' = [l EXCEPT !.state = "STOPPING", !.running = FALSE]
    BY DEF NoteStep
  <2>3. l'.completed_pos = l.completed_pos
    BY <2>2 DEF Types, LoggerFields
  <2>4. l.first_error => l'.first_error
    BY <2>2 DEF Types, LoggerFields
  <2>5. l.lifecycle_error => l'.lifecycle_error
    BY <2>2 DEF Types, LoggerFields
  <2>6. l.synchronization_error => l'.synchronization_error
    BY <2>2 DEF Types, LoggerFields
  <2> QED
    BY <2>1, <2>3, <2>4, <2>5, <2>6 DEF Latches
<1>3. \/ l'.state = l.state \/ l'.state = "STOPPING"
      \/ l.state = "CREATED" /\ l'.state = "RUNNING"
  BY DEF Types, LoggerFields, NoteStep
<1> QED
  BY <1>1, <1>2, <1>3, AdvanceFrame

\* Acquire advances the logger.
LEMMA AcquireAdvances ==
    ASSUME Types, RecordInv, LifeInv, StoppedQuiet, Acquire
    PROVE  Advance /\ StoppedQuiet'
<1>1. l.state # "STOPPED" /\ l.completed_pos \in Nat
  BY LoggerFieldTypes DEF Acquire, At, StoppedQuiet, Types
<1>2. l' = l \/ \E part, hit : l' = [l EXCEPT !.built = @ \cup {part}, !.first_error = @ \/ hit # {}]
  BY DEF Acquire
<1>3. CASE l' = l
  BY <1>1, <1>3, AdvanceFrame DEF Latches
<1>4. ASSUME NEW part, NEW hit, l' = [l EXCEPT !.built = @ \cup {part}, !.first_error = @ \/ hit # {}]
      PROVE  Advance /\ StoppedQuiet'
  <2>1. /\ l'.state = l.state /\ l'.lifecycle_error = l.lifecycle_error
        /\ l'.synchronization_error = l.synchronization_error /\ l'.completed_pos = l.completed_pos
        /\ (l.first_error => l'.first_error)
    BY <1>4 DEF Types, LoggerFields
  <2> QED
    BY <1>1, <2>1, AdvanceFrame DEF Latches
<1> QED
  BY <1>2, <1>3, <1>4

\* Progress advances the logger: the watermark it sets covers the completed
\* batches, at least those it covered before.
LEMMA ProgressAdvances ==
    ASSUME Types, RecordInv, LifeInv, StoppedQuiet, Progress
    PROVE  Advance /\ StoppedQuiet'
<1>1. l.state # "STOPPED"
  BY DEF Progress, At, StoppedQuiet
<1>2. l'.completed_pos = q.dequeue_pos /\ l'.state = l.state
  BY DEF Types, LoggerFields, Progress
<1>3. l.completed_pos <= q.dequeue_pos - batch
  BY DEF RecordInv, WatermarkBehind
<1>4. l.completed_pos \in Nat /\ q.dequeue_pos \in Nat /\ batch \in Nat
  BY RecordPlaces, LoggerFieldTypes DEF Types
<1>5. l.completed_pos <= q.dequeue_pos
  BY <1>3, <1>4
<1>6. /\ l'.first_error = l.first_error /\ l'.lifecycle_error = l.lifecycle_error
      /\ l'.synchronization_error = l.synchronization_error
  BY DEF Types, LoggerFields, Progress
<1> QED
  BY <1>1, <1>2, <1>5, <1>6, AdvanceFrame DEF Latches

\* Release advances the logger: every error is recorded before it stops.
LEMMA ReleaseAdvances ==
    ASSUME Types, RecordInv, LifeInv, StoppedQuiet, Release
    PROVE  Advance /\ StoppedQuiet'
<1>1. pc[Host] = "destroy" /\ noting[Host] = "nothing" /\ noting' = noting
  BY DEF Release, At
<1>2. pc[Worker] \in {"none", "exited"} /\ noting[Worker] = "nothing"
  BY <1>1 DEF LifeInv, WorkerLife
<1>3. \A b \in Borrowers : noting[b] = "nothing"
  BY <1>1 DEF LifeInv, LentOnly
<1>4. \A t \in Threads : noting'[t] = "nothing"
  BY <1>1, <1>2, <1>3, Roles
<1>5. Go(Host, "freed") \/ Go(Host, "destroy") \/ Go(Host, "retained")
  BY DEF Release
<1>6. pc'[Host] \in {"destroy", "freed", "retained"} /\ pc'[Worker] = pc[Worker]
  BY <1>5, Roles DEF Types, PcTypes, Go
<1>7. \E part, s, e : /\ s \in {l.state, "STOPPED"} /\ (l.lifecycle_error => e)
                      /\ \/ l' = [l EXCEPT !.built = @ \ {part}, !.state = s]
                         \/ l' = [l EXCEPT !.lifecycle_error = e]
  <2> DEFINE part == Destruction[CHOOSE i \in 1..Len(Destruction) :
                          /\ Destruction[i] \in l.built
                          /\ \A j \in 1..(i - 1) : Destruction[j] \notin l.built]
             done == IF part = "object" /\ result[Host] # "uncreated" THEN "STOPPED" ELSE l.state
             fail == l.lifecycle_error \/ part # "memory"
  <2>1. \/ l' = [l EXCEPT !.built = @ \ {part}, !.state = done]
        \/ l' = [l EXCEPT !.lifecycle_error = fail]
    BY DEF Release
  <2>2. done \in {l.state, "STOPPED"} /\ (l.lifecycle_error => fail)
    OBVIOUS
  <2> HIDE DEF part, done, fail
  <2> QED
    BY <2>1, <2>2
<1>8. /\ l'.state \in {l.state, "STOPPED"} /\ l'.first_error = l.first_error
      /\ l'.synchronization_error = l.synchronization_error
      /\ (l.lifecycle_error => l'.lifecycle_error) /\ l'.completed_pos = l.completed_pos
  BY <1>7 DEF Types, LoggerFields
<1>9. l.completed_pos \in Nat
  BY LoggerFieldTypes DEF Types
<1>10. Advance
  BY <1>8, <1>9 DEF Advance
<1> QED
  BY <1>2, <1>4, <1>6, <1>10 DEF StoppedQuiet

\* A step that changes none of this advances the logger.
LEMMA AdvanceStutter ==
    ASSUME Types, StoppedQuiet, l' = l, pc' = pc, noting' = noting
    PROVE  Advance /\ StoppedQuiet'
<1>1. l.completed_pos \in Nat
  BY LoggerFieldTypes DEF Types
<1> QED
  BY <1>1 DEF Advance, StoppedQuiet

\* Spurious advances the logger.
LEMMA SpuriousAdvances ==
    ASSUME Types, RecordInv, LifeInv, StoppedQuiet, NEW t \in Threads, Spurious(t)
    PROVE  Advance /\ StoppedQuiet'
BY AdvanceStutter DEF Spurious

\* Before the first step the logger is CREATED.
LEMMA InitStopped == Init => StoppedQuiet
BY DEF Init, StoppedQuiet

\* Every step advances the logger.
LEMMA NextAdvances ==
    ASSUME Types, RecordInv, LifeInv, StoppedQuiet, [Next]_vars
    PROVE  Advance /\ StoppedQuiet'
<1>1. CASE UNCHANGED vars
  <2>1. /\ l' = l /\ q' = q /\ pc' = pc /\ batch' = batch /\ slot' = slot /\ noting' = noting
        /\ calls' = calls /\ kind' = kind /\ target' = target /\ result' = result
        /\ faults' = faults /\ owner' = owner /\ unproven' = unproven /\ asleep' = asleep
        /\ written' = written /\ durable' = durable /\ emitted' = emitted /\ failed' = failed
        /\ accepted' = accepted /\ due' = due
    BY <1>1 DEF vars, outputs, promises, locals
  <2> QED
    BY <2>1, AdvanceStutter
<1>2. ASSUME NEW p \in Producers, ProducerStep(p) PROVE Advance /\ StoppedQuiet'
  BY <1>2, EnterLogAdvances, PushAdvances, RefusedAdvances, PublishAdvances, ProbeAdvances,
     NotifyLockAdvances, NotifyAdvances, PushFailedAdvances, FormatStatusAdvances,
     EmitCheckAdvances, EmitLockAdvances, EmitStatusAdvances
  DEF ProducerStep
<1>3. ASSUME NEW t \in Producers \cup {Host}, ForceStep(t) PROVE Advance /\ StoppedQuiet'
  BY <1>3, ForceLockAdvances, WakeForceAdvances, ForceFailedAdvances DEF ForceStep
<1>4. ASSUME NEW f \in Flushers, FlusherStep(f) PROVE Advance /\ StoppedQuiet'
  BY <1>4, EnterFlushAdvances, FlushCheckAdvances, FlushTargetAdvances, FlushLockAdvances,
     FlushTestAdvances, FlushAwakeAdvances, FlushErrorAdvances, SyncCheckAdvances,
     SyncLockAdvances, SyncAdvances
  DEF FlusherStep
<1>5. CASE WorkerStep
  BY <1>5, DrainAdvances, DrainEndAdvances, BatchFormatAdvances, BatchLockAdvances,
     EmitBatchAdvances, BatchDoneAdvances, ProgressLockAdvances, ProgressAdvances,
     WaitLockAdvances, WaitTestAdvances, WaitRetestAdvances, WaitAwakeAdvances,
     WaitEndAdvances, FinalAdvances, FinalLockAdvances, BroadcastAdvances
  DEF WorkerStep
<1>6. CASE HostStep \/ Destroy
  BY <1>6, AcquireAdvances, StartWorkerAdvances, PublishRunningAdvances, RollbackAdvances,
     DestroyAdvances, StopCheckAdvances, JoinAdvances, JoinedAdvances, FinalSyncAdvances,
     ReleaseAdvances
  DEF HostStep
<1>7. ASSUME NEW t \in Threads, NoteStep(t) \/ Spurious(t) PROVE Advance /\ StoppedQuiet'
  BY <1>7, NoteStepAdvances, SpuriousAdvances
<1> QED
  BY <1>1, <1>2, <1>3, <1>4, <1>5, <1>6, <1>7 DEF Next

\* The state of the logger only advances, a latched error is never cleared and
\* the watermark never falls; in particular no late recording of an error takes
\* a logger that logger_destroy has stopped back to STOPPING.
THEOREM LifecycleOnlyAdvances == Spec => [][Advance]_vars
<1>1. Init => StoppedQuiet
  BY InitStopped
<1>2. Types /\ RecordInv /\ LifeInv /\ StoppedQuiet /\ [Next]_vars => StoppedQuiet'
  BY NextAdvances
<1>3. Types /\ RecordInv /\ LifeInv /\ StoppedQuiet /\ [Next]_vars => [Advance]_vars
  BY NextAdvances
<1> QED
  BY <1>1, <1>2, <1>3, TypesInvariant, RecordsInvariant, LifeInvariant, PTL DEF Spec

==============================================================================
