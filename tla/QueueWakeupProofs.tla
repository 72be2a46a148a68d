-------------------------- MODULE QueueWakeupProofs --------------------------
(***************************************************************************)
(* Proofs about QueueWakeup, for any number of producers and of records:   *)
(* the worker never sleeps on a published record, or on an announced stop, *)
(* that nobody will tell it about, even when another thread stops it       *)
(* silently, and a quiesced stop leaves no record behind.                  *)
(***************************************************************************)
EXTENDS QueueWakeup, TLAPS

\* The steps of the three programs.
Steps ==
    {"idle", "publish", "probe", "lock", "claim", "signal", "unlock", "done", "silent", "drain",
     "acquire", "check", "arm", "recheck", "wait", "sleeping", "woken", "disarm", "stop", "last", "exited"}

\* Every thread is at a step of its own program.
PcTypes ==
    /\ pc \in [Threads -> Steps]
    /\ \A p \in Producers :
         pc[p] \in {"idle", "publish", "probe", "lock", "claim", "signal", "unlock"}
    /\ pc[Stopper] \in {"idle", "lock", "claim", "signal", "unlock", "done", "silent"}
    /\ pc[Worker] \in {"drain", "acquire", "check", "arm", "recheck", "wait", "sleeping",
                       "woken", "disarm", "stop", "last", "unlock", "exited"}

\* wait_mu is held exactly between its lock and its unlock.
Critical ==
    {"claim", "signal", "unlock", "check", "arm", "recheck", "wait", "disarm", "stop", "last"}
LockInv == \A t \in Threads : owner = t <=> pc[t] \in Critical

\* A reserved position is published or about to be, by a producer that knows.
PositionsInv ==
    /\ \A f \in stored : f # Stop => f < enqueue_pos /\ \E p \in Producers : f \in view[p]
    /\ \A p \in Producers : pc[p] = "publish" => held[p] < enqueue_pos
    /\ \A x \in 0..(enqueue_pos - 1) :
         x \in stored \/ \E p \in Producers : pc[p] = "publish" /\ held[p] = x
    /\ \A f \in stored : f \in released[f]

\* A worker that has armed consumer_waiting finds it claimed only by a thread
\* that is about to signal.
ArmedInv ==
    /\ pc[Worker] \in {"recheck", "wait"} => consumer_waiting = 1
    /\ pc[Worker] = "sleeping" /\ consumer_waiting = 0 =>
         \E t \in Threads \ {Worker} : pc[t] = "signal"

\* What is stored and not yet tied to consumer_waiting will be by its storer;
\* a silent stop need never be.
ProbesInv ==
    /\ \A f \in stored :
         \/ f \in waitingView
         \/ \E p \in Producers : pc[p] = "probe" /\ f \in view[p]
         \/ f = Stop /\ pc[Stopper] \in {"lock", "claim", "silent"}
    /\ pc[Stopper] \in {"lock", "claim"} => Stop \in view[Stopper]

\* What was tied to consumer_waiting after the worker armed it was tied by a
\* thread that found it armed.
TiedInv ==
    pc[Worker] \in {"recheck", "wait", "sleeping"} =>
        \/ waitingView \subseteq view[Worker]
        \/ consumer_waiting = 0
        \/ \E t \in Threads \ {Worker} : pc[t] \in {"lock", "claim"}

\* The worker goes to sleep knowing of no record and no stop.
MissedInv ==
    pc[Worker] \in {"wait", "sleeping"} =>
        dequeue_pos \notin view[Worker] /\ Stop \notin view[Worker]

\* The stop is stored once; a quiesced one releases every reserved position, and
\* the worker that leaves has seen them all.
StopInv ==
    /\ Stop \in stored <=> pc[Stopper] # "idle"
    /\ quiesced => /\ Stop \in stored
                   /\ \A p \in Producers : pc[p] = "idle"
                   /\ 0..(enqueue_pos - 1) \subseteq released[Stop]
    /\ pc[Worker] \in {"last", "exited"} =>
         Stop \in stored /\ (quiesced => dequeue_pos = enqueue_pos)

WakeupInv ==
    /\ TypeOK /\ PcTypes /\ LockInv /\ PositionsInv /\ ArmedInv /\ ProbesInv /\ TiedInv
    /\ MissedInv /\ StopInv

-----------------------------------------------------------------------------
(* One lemma per action                                                    *)

\* A producer reserves the next position.
LEMMA ReserveKeeps ==
    ASSUME WakeupInv, NEW p \in Producers, Reserve(p)
    PROVE  WakeupInv'
  <1> USE BoundAssumption, ThreadsAssumption
    DEF Facts, Positions, Threads, memVars, WakeupInv, Goto, Reserve
  <1>1. TypeOK'
    BY DEF TypeOK, PcTypes, PositionsInv
  <1>2. PcTypes'
    BY DEF TypeOK, PcTypes, Steps
  <1>3. LockInv'
    BY DEF TypeOK, PcTypes, LockInv, Critical
  <1>4. PositionsInv'
    BY DEF TypeOK, PcTypes, PositionsInv, StopInv
  <1>5. ArmedInv'
    BY DEF TypeOK, PcTypes, LockInv, Critical, ArmedInv
  <1>6. ProbesInv'
    BY DEF TypeOK, PcTypes, ProbesInv, StopInv
  <1>7. TiedInv'
    BY DEF TypeOK, PcTypes, LockInv, Critical, ArmedInv, TiedInv
  <1>8. MissedInv'
    BY DEF TypeOK, PcTypes, MissedInv
  <1>9. StopInv'
    BY DEF TypeOK, PcTypes, PositionsInv, StopInv
  <1> QED
    BY <1>1, <1>2, <1>3, <1>4, <1>5, <1>6, <1>7, <1>8, <1>9

\* The position is published by a thread that then probes.
LEMMA PublishKeeps ==
    ASSUME WakeupInv, NEW p \in Producers, Publish(p)
    PROVE  WakeupInv'
  <1> USE BoundAssumption, ThreadsAssumption
    DEF Facts, Positions, Threads, memVars, WakeupInv, Goto, Publish, Store
  <1>1. TypeOK'
    <2>1. held[p] \in Facts
      BY DEF TypeOK, PositionsInv
    <2>2. stored' \in SUBSET Facts
      BY <2>1 DEF TypeOK
    <2>3. released' \in [Facts -> SUBSET stored']
      BY <2>1 DEF TypeOK
    <2>4. view' \in [Threads -> SUBSET stored']
      BY DEF TypeOK
    <2> QED
      BY <2>2, <2>3, <2>4 DEF TypeOK
  <1>2. PcTypes'
    BY DEF TypeOK, PcTypes, Steps
  <1>3. LockInv'
    BY DEF TypeOK, PcTypes, LockInv, Critical
  <1>4. PositionsInv'
    BY DEF TypeOK, PcTypes, PositionsInv, StopInv
  <1>5. ArmedInv'
    BY DEF TypeOK, PcTypes, LockInv, Critical, ArmedInv
  <1>6. ProbesInv'
    BY DEF TypeOK, PcTypes, ProbesInv, StopInv
  <1>7. TiedInv'
    BY DEF TypeOK, PcTypes, LockInv, Critical, ArmedInv, TiedInv
  <1>8. MissedInv'
    BY DEF TypeOK, PcTypes, MissedInv
  <1>9. StopInv'
    BY DEF TypeOK, PcTypes, PositionsInv, StopInv
  <1> QED
    BY <1>1, <1>2, <1>3, <1>4, <1>5, <1>6, <1>7, <1>8, <1>9

\* The probe ties what the producer knows to consumer_waiting.
LEMMA ProbeKeeps ==
    ASSUME WakeupInv, NEW p \in Producers, Probe(p)
    PROVE  WakeupInv'
  <1> USE BoundAssumption, ThreadsAssumption
    DEF Facts, Positions, Threads, memVars, WakeupInv, Goto, Probe, ModifyWaiting
  <1>1. TypeOK'
    BY DEF TypeOK, PcTypes, PositionsInv
  <1>2. PcTypes'
    BY DEF TypeOK, PcTypes, Steps
  <1>3. LockInv'
    BY DEF TypeOK, PcTypes, LockInv, Critical
  <1>4. PositionsInv'
    BY DEF TypeOK, PcTypes, PositionsInv, StopInv
  <1>5. ArmedInv'
    BY DEF TypeOK, PcTypes, LockInv, Critical, ArmedInv
  <1>6. ProbesInv'
    BY DEF TypeOK, PcTypes, ProbesInv, StopInv
  <1>7. TiedInv'
    BY DEF TypeOK, PcTypes, LockInv, Critical, ArmedInv, TiedInv
  <1>8. MissedInv'
    BY DEF TypeOK, PcTypes, MissedInv
  <1>9. StopInv'
    BY DEF TypeOK, PcTypes, PositionsInv, StopInv
  <1> QED
    BY <1>1, <1>2, <1>3, <1>4, <1>5, <1>6, <1>7, <1>8, <1>9

\* A thread that found the worker waiting takes wait_mu.
LEMMA LockKeeps ==
    ASSUME WakeupInv, NEW t \in Producers \cup {Stopper}, Lock(t)
    PROVE  WakeupInv'
  <1> USE BoundAssumption, ThreadsAssumption
    DEF Facts, Positions, Threads, memVars, WakeupInv, Goto, Lock, LockWaitMu
  <1>1. TypeOK'
    BY DEF TypeOK, PcTypes, PositionsInv
  <1>2. PcTypes'
    BY DEF TypeOK, PcTypes, Steps
  <1>3. LockInv'
    BY DEF TypeOK, PcTypes, LockInv, Critical
  <1>4. PositionsInv'
    BY DEF TypeOK, PcTypes, PositionsInv, StopInv
  <1>5. ArmedInv'
    BY DEF TypeOK, PcTypes, LockInv, Critical, ArmedInv
  <1>6. ProbesInv'
    BY DEF TypeOK, PcTypes, ProbesInv, StopInv
  <1>7. TiedInv'
    BY DEF TypeOK, PcTypes, LockInv, Critical, ArmedInv, TiedInv
  <1>8. MissedInv'
    BY DEF TypeOK, PcTypes, MissedInv
  <1>9. StopInv'
    BY DEF TypeOK, PcTypes, PositionsInv, StopInv
  <1> QED
    BY <1>1, <1>2, <1>3, <1>4, <1>5, <1>6, <1>7, <1>8, <1>9

\* Who claims the signal is bound to send it.
LEMMA ClaimSignalKeeps ==
    ASSUME WakeupInv, NEW p \in Producers, ClaimSignal(p)
    PROVE  WakeupInv'
  <1> USE BoundAssumption, ThreadsAssumption
    DEF Facts, Positions, Threads, memVars, WakeupInv, Goto, ClaimSignal, ModifyWaiting
  <1>1. TypeOK'
    BY DEF TypeOK, PcTypes, PositionsInv
  <1>2. PcTypes'
    BY DEF TypeOK, PcTypes, Steps
  <1>3. LockInv'
    BY DEF TypeOK, PcTypes, LockInv, Critical
  <1>4. PositionsInv'
    BY DEF TypeOK, PcTypes, PositionsInv, StopInv
  <1>5. ArmedInv'
    BY DEF TypeOK, PcTypes, LockInv, Critical, ArmedInv
  <1>6. ProbesInv'
    BY DEF TypeOK, PcTypes, ProbesInv, StopInv
  <1>7. TiedInv'
    BY DEF TypeOK, PcTypes, LockInv, Critical, ArmedInv, TiedInv
  <1>8. MissedInv'
    BY DEF TypeOK, PcTypes, MissedInv
  <1>9. StopInv'
    BY DEF TypeOK, PcTypes, PositionsInv, StopInv
  <1> QED
    BY <1>1, <1>2, <1>3, <1>4, <1>5, <1>6, <1>7, <1>8, <1>9

\* The signal wakes a sleeping worker.
LEMMA CondSignalKeeps ==
    ASSUME WakeupInv, NEW t \in Producers \cup {Stopper}, CondSignal(t)
    PROVE  WakeupInv'
  <1> USE BoundAssumption, ThreadsAssumption
    DEF Facts, Positions, Threads, memVars, WakeupInv, CondSignal, Signal
  <1>1. TypeOK'
    BY DEF TypeOK, PcTypes, PositionsInv
  <1>2. PcTypes'
    BY DEF TypeOK, PcTypes, Steps
  <1>3. LockInv'
    BY DEF TypeOK, PcTypes, LockInv, Critical
  <1>4. PositionsInv'
    BY DEF TypeOK, PcTypes, PositionsInv, StopInv
  <1>5. ArmedInv'
    BY DEF TypeOK, PcTypes, LockInv, Critical, ArmedInv
  <1>6. ProbesInv'
    BY DEF TypeOK, PcTypes, ProbesInv, StopInv
  <1>7. TiedInv'
    BY DEF TypeOK, PcTypes, LockInv, Critical, ArmedInv, TiedInv
  <1>8. MissedInv'
    BY DEF TypeOK, PcTypes, MissedInv
  <1>9. StopInv'
    BY DEF TypeOK, PcTypes, PositionsInv, StopInv
  <1> QED
    BY <1>1, <1>2, <1>3, <1>4, <1>5, <1>6, <1>7, <1>8, <1>9

\* A producer is done.
LEMMA UnlockProducerKeeps ==
    ASSUME WakeupInv, NEW p \in Producers, Unlock(p, "idle")
    PROVE  WakeupInv'
  <1> USE BoundAssumption, ThreadsAssumption
    DEF Facts, Positions, Threads, memVars, WakeupInv, Goto, Unlock, UnlockWaitMu
  <1>1. TypeOK'
    BY DEF TypeOK, PcTypes, PositionsInv
  <1>2. PcTypes'
    BY DEF TypeOK, PcTypes, Steps
  <1>3. LockInv'
    BY DEF TypeOK, PcTypes, LockInv, Critical
  <1>4. PositionsInv'
    BY DEF TypeOK, PcTypes, PositionsInv, StopInv
  <1>5. ArmedInv'
    BY DEF TypeOK, PcTypes, LockInv, Critical, ArmedInv
  <1>6. ProbesInv'
    BY DEF TypeOK, PcTypes, ProbesInv, StopInv
  <1>7. TiedInv'
    BY DEF TypeOK, PcTypes, LockInv, Critical, ArmedInv, TiedInv
  <1>8. MissedInv'
    BY DEF TypeOK, PcTypes, MissedInv
  <1>9. StopInv'
    BY DEF TypeOK, PcTypes, PositionsInv, StopInv
  <1> QED
    BY <1>1, <1>2, <1>3, <1>4, <1>5, <1>6, <1>7, <1>8, <1>9

\* The stopper is done.
LEMMA UnlockStopperKeeps ==
    ASSUME WakeupInv, Unlock(Stopper, "done")
    PROVE  WakeupInv'
  <1> USE BoundAssumption, ThreadsAssumption
    DEF Facts, Positions, Threads, memVars, WakeupInv, Goto, Unlock, UnlockWaitMu
  <1>1. TypeOK'
    BY DEF TypeOK, PcTypes, PositionsInv
  <1>2. PcTypes'
    BY DEF TypeOK, PcTypes, Steps
  <1>3. LockInv'
    BY DEF TypeOK, PcTypes, LockInv, Critical
  <1>4. PositionsInv'
    BY DEF TypeOK, PcTypes, PositionsInv, StopInv
  <1>5. ArmedInv'
    BY DEF TypeOK, PcTypes, LockInv, Critical, ArmedInv
  <1>6. ProbesInv'
    BY DEF TypeOK, PcTypes, ProbesInv, StopInv
  <1>7. TiedInv'
    BY DEF TypeOK, PcTypes, LockInv, Critical, ArmedInv, TiedInv
  <1>8. MissedInv'
    BY DEF TypeOK, PcTypes, MissedInv
  <1>9. StopInv'
    BY DEF TypeOK, PcTypes, PositionsInv, StopInv
  <1> QED
    BY <1>1, <1>2, <1>3, <1>4, <1>5, <1>6, <1>7, <1>8, <1>9

\* The worker returns to the queue.
LEMMA UnlockWorkerKeeps ==
    ASSUME WakeupInv, Unlock(Worker, "drain")
    PROVE  WakeupInv'
  <1> USE BoundAssumption, ThreadsAssumption
    DEF Facts, Positions, Threads, memVars, WakeupInv, Goto, Unlock, UnlockWaitMu
  <1>1. TypeOK'
    BY DEF TypeOK, PcTypes, PositionsInv
  <1>2. PcTypes'
    BY DEF TypeOK, PcTypes, Steps
  <1>3. LockInv'
    BY DEF TypeOK, PcTypes, LockInv, Critical
  <1>4. PositionsInv'
    BY DEF TypeOK, PcTypes, PositionsInv, StopInv
  <1>5. ArmedInv'
    BY DEF TypeOK, PcTypes, LockInv, Critical, ArmedInv
  <1>6. ProbesInv'
    BY DEF TypeOK, PcTypes, ProbesInv, StopInv
  <1>7. TiedInv'
    BY DEF TypeOK, PcTypes, LockInv, Critical, ArmedInv, TiedInv
  <1>8. MissedInv'
    BY DEF TypeOK, PcTypes, MissedInv
  <1>9. StopInv'
    BY DEF TypeOK, PcTypes, PositionsInv, StopInv
  <1> QED
    BY <1>1, <1>2, <1>3, <1>4, <1>5, <1>6, <1>7, <1>8, <1>9

\* A quiesced stop releases what all producers know.
LEMMA StopQuiescedKeeps ==
    ASSUME WakeupInv, StopQuiesced
    PROVE  WakeupInv'
  <1> USE BoundAssumption, ThreadsAssumption
    DEF Facts, Positions, Threads, memVars, WakeupInv, Goto, StopQuiesced
  <1>1. TypeOK'
    <2>1. (UNION {view[p] : p \in Producers}) \subseteq stored
      BY DEF TypeOK
    <2>2. stored' \in SUBSET Facts
      BY DEF TypeOK
    <2>3. released' \in [Facts -> SUBSET stored']
      BY <2>1 DEF TypeOK
    <2>4. view' \in [Threads -> SUBSET stored']
      BY <2>1 DEF TypeOK
    <2> QED
      BY <2>2, <2>3, <2>4 DEF TypeOK
  <1>2. PcTypes'
    BY DEF TypeOK, PcTypes, Steps
  <1>3. LockInv'
    BY DEF TypeOK, PcTypes, LockInv, Critical
  <1>4. PositionsInv'
    BY DEF TypeOK, PcTypes, PositionsInv, StopInv
  <1>5. ArmedInv'
    BY DEF TypeOK, PcTypes, LockInv, Critical, ArmedInv
  <1>6. ProbesInv'
    BY DEF TypeOK, PcTypes, ProbesInv, StopInv
  <1>7. TiedInv'
    BY DEF TypeOK, PcTypes, LockInv, Critical, ArmedInv, TiedInv
  <1>8. MissedInv'
    BY DEF TypeOK, PcTypes, MissedInv
  <1>9. StopInv'
    BY DEF TypeOK, PcTypes, PositionsInv, StopInv
  <1> QED
    BY <1>1, <1>2, <1>3, <1>4, <1>5, <1>6, <1>7, <1>8, <1>9

\* An abrupt stop releases nothing but itself.
LEMMA StopAbruptKeeps ==
    ASSUME WakeupInv, StopAbrupt
    PROVE  WakeupInv'
  <1> USE BoundAssumption, ThreadsAssumption
    DEF Facts, Positions, Threads, memVars, WakeupInv, Goto, StopAbrupt, Store
  <1>1. TypeOK'
    BY DEF TypeOK, PcTypes, PositionsInv
  <1>2. PcTypes'
    BY DEF TypeOK, PcTypes, Steps
  <1>3. LockInv'
    BY DEF TypeOK, PcTypes, LockInv, Critical
  <1>4. PositionsInv'
    BY DEF TypeOK, PcTypes, PositionsInv, StopInv
  <1>5. ArmedInv'
    BY DEF TypeOK, PcTypes, LockInv, Critical, ArmedInv
  <1>6. ProbesInv'
    BY DEF TypeOK, PcTypes, ProbesInv, StopInv
  <1>7. TiedInv'
    BY DEF TypeOK, PcTypes, LockInv, Critical, ArmedInv, TiedInv
  <1>8. MissedInv'
    BY DEF TypeOK, PcTypes, MissedInv
  <1>9. StopInv'
    BY DEF TypeOK, PcTypes, PositionsInv, StopInv
  <1> QED
    BY <1>1, <1>2, <1>3, <1>4, <1>5, <1>6, <1>7, <1>8, <1>9

\* A silent stop stores the fact and leaves the worker alone.
LEMMA StopSilentKeeps ==
    ASSUME WakeupInv, StopSilent
    PROVE  WakeupInv'
  <1> USE BoundAssumption, ThreadsAssumption
    DEF Facts, Positions, Threads, memVars, WakeupInv, Goto, StopSilent, Store
  <1>1. TypeOK'
    BY DEF TypeOK, PcTypes, PositionsInv
  <1>2. PcTypes'
    BY DEF TypeOK, PcTypes, Steps
  <1>3. LockInv'
    BY DEF TypeOK, PcTypes, LockInv, Critical
  <1>4. PositionsInv'
    BY DEF TypeOK, PcTypes, PositionsInv, StopInv
  <1>5. ArmedInv'
    BY DEF TypeOK, PcTypes, LockInv, Critical, ArmedInv
  <1>6. ProbesInv'
    BY DEF TypeOK, PcTypes, ProbesInv, StopInv
  <1>7. TiedInv'
    BY DEF TypeOK, PcTypes, LockInv, Critical, ArmedInv, TiedInv
  <1>8. MissedInv'
    BY DEF TypeOK, PcTypes, MissedInv
  <1>9. StopInv'
    BY DEF TypeOK, PcTypes, PositionsInv, StopInv
  <1> QED
    BY <1>1, <1>2, <1>3, <1>4, <1>5, <1>6, <1>7, <1>8, <1>9

\* The stopper disarms and is bound to signal.
LEMMA ForceDisarmKeeps ==
    ASSUME WakeupInv, ForceDisarm
    PROVE  WakeupInv'
  <1> USE BoundAssumption, ThreadsAssumption
    DEF Facts, Positions, Threads, memVars, WakeupInv, Goto, ForceDisarm, ModifyWaiting
  <1>1. TypeOK'
    BY DEF TypeOK, PcTypes, PositionsInv
  <1>2. PcTypes'
    BY DEF TypeOK, PcTypes, Steps
  <1>3. LockInv'
    BY DEF TypeOK, PcTypes, LockInv, Critical
  <1>4. PositionsInv'
    BY DEF TypeOK, PcTypes, PositionsInv, StopInv
  <1>5. ArmedInv'
    BY DEF TypeOK, PcTypes, LockInv, Critical, ArmedInv
  <1>6. ProbesInv'
    BY DEF TypeOK, PcTypes, ProbesInv, StopInv
  <1>7. TiedInv'
    BY DEF TypeOK, PcTypes, LockInv, Critical, ArmedInv, TiedInv
  <1>8. MissedInv'
    BY DEF TypeOK, PcTypes, MissedInv
  <1>9. StopInv'
    BY DEF TypeOK, PcTypes, PositionsInv, StopInv
  <1> QED
    BY <1>1, <1>2, <1>3, <1>4, <1>5, <1>6, <1>7, <1>8, <1>9

\* Only a published position is consumed.
LEMMA PopKeeps ==
    ASSUME WakeupInv, Pop
    PROVE  WakeupInv'
  <1> USE BoundAssumption, ThreadsAssumption
    DEF Facts, Positions, Threads, memVars, WakeupInv, Pop, Sees
  <1>1. TypeOK'
    BY DEF TypeOK, PcTypes, PositionsInv
  <1>2. PcTypes'
    BY DEF TypeOK, PcTypes, Steps
  <1>3. LockInv'
    BY DEF TypeOK, PcTypes, LockInv, Critical
  <1>4. PositionsInv'
    BY DEF TypeOK, PcTypes, PositionsInv, StopInv
  <1>5. ArmedInv'
    BY DEF TypeOK, PcTypes, LockInv, Critical, ArmedInv
  <1>6. ProbesInv'
    BY DEF TypeOK, PcTypes, ProbesInv, StopInv
  <1>7. TiedInv'
    BY DEF TypeOK, PcTypes, LockInv, Critical, ArmedInv, TiedInv
  <1>8. MissedInv'
    BY DEF TypeOK, PcTypes, MissedInv
  <1>9. StopInv'
    BY DEF TypeOK, PcTypes, PositionsInv, StopInv
  <1> QED
    BY <1>1, <1>2, <1>3, <1>4, <1>5, <1>6, <1>7, <1>8, <1>9

\* An empty drain leads to the lock.
LEMMA DrainEndsKeeps ==
    ASSUME WakeupInv, DrainEnds
    PROVE  WakeupInv'
  <1> USE BoundAssumption, ThreadsAssumption
    DEF Facts, Positions, Threads, memVars, WakeupInv, Goto, DrainEnds, Misses
  <1>1. TypeOK'
    BY DEF TypeOK, PcTypes, PositionsInv
  <1>2. PcTypes'
    BY DEF TypeOK, PcTypes, Steps
  <1>3. LockInv'
    BY DEF TypeOK, PcTypes, LockInv, Critical
  <1>4. PositionsInv'
    BY DEF TypeOK, PcTypes, PositionsInv, StopInv
  <1>5. ArmedInv'
    BY DEF TypeOK, PcTypes, LockInv, Critical, ArmedInv
  <1>6. ProbesInv'
    BY DEF TypeOK, PcTypes, ProbesInv, StopInv
  <1>7. TiedInv'
    BY DEF TypeOK, PcTypes, LockInv, Critical, ArmedInv, TiedInv
  <1>8. MissedInv'
    BY DEF TypeOK, PcTypes, MissedInv
  <1>9. StopInv'
    BY DEF TypeOK, PcTypes, PositionsInv, StopInv
  <1> QED
    BY <1>1, <1>2, <1>3, <1>4, <1>5, <1>6, <1>7, <1>8, <1>9

\* The worker takes wait_mu, first or after a signal.
LEMMA AcquireKeeps ==
    ASSUME WakeupInv, NEW from \in {"acquire", "woken"}, Acquire(from)
    PROVE  WakeupInv'
  <1> USE BoundAssumption, ThreadsAssumption
    DEF Facts, Positions, Threads, memVars, WakeupInv, Goto, Acquire, LockWaitMu
  <1>1. TypeOK'
    BY DEF TypeOK, PcTypes, PositionsInv
  <1>2. PcTypes'
    BY DEF TypeOK, PcTypes, Steps
  <1>3. LockInv'
    BY DEF TypeOK, PcTypes, LockInv, Critical
  <1>4. PositionsInv'
    BY DEF TypeOK, PcTypes, PositionsInv, StopInv
  <1>5. ArmedInv'
    BY DEF TypeOK, PcTypes, LockInv, Critical, ArmedInv
  <1>6. ProbesInv'
    BY DEF TypeOK, PcTypes, ProbesInv, StopInv
  <1>7. TiedInv'
    BY DEF TypeOK, PcTypes, LockInv, Critical, ArmedInv, TiedInv
  <1>8. MissedInv'
    BY DEF TypeOK, PcTypes, MissedInv
  <1>9. StopInv'
    BY DEF TypeOK, PcTypes, PositionsInv, StopInv
  <1> QED
    BY <1>1, <1>2, <1>3, <1>4, <1>5, <1>6, <1>7, <1>8, <1>9

\* The worker has seen a record or the stop.
LEMMA LeaveLoopKeeps ==
    ASSUME WakeupInv, NEW from \in {"check", "recheck"}, LeaveLoop(from)
    PROVE  WakeupInv'
  <1> USE BoundAssumption, ThreadsAssumption
    DEF Facts, Positions, Threads, memVars, WakeupInv, Goto, LeaveLoop, Sees, Misses
  <1>1. TypeOK'
    BY DEF TypeOK, PcTypes, PositionsInv
  <1>2. PcTypes'
    BY DEF TypeOK, PcTypes, Steps
  <1>3. LockInv'
    BY DEF TypeOK, PcTypes, LockInv, Critical
  <1>4. PositionsInv'
    BY DEF TypeOK, PcTypes, PositionsInv, StopInv
  <1>5. ArmedInv'
    BY DEF TypeOK, PcTypes, LockInv, Critical, ArmedInv
  <1>6. ProbesInv'
    BY DEF TypeOK, PcTypes, ProbesInv, StopInv
  <1>7. TiedInv'
    BY DEF TypeOK, PcTypes, LockInv, Critical, ArmedInv, TiedInv
  <1>8. MissedInv'
    BY DEF TypeOK, PcTypes, MissedInv
  <1>9. StopInv'
    BY DEF TypeOK, PcTypes, PositionsInv, StopInv
  <1> QED
    BY <1>1, <1>2, <1>3, <1>4, <1>5, <1>6, <1>7, <1>8, <1>9

\* The first look finds nothing.
LEMMA StayCheckKeeps ==
    ASSUME WakeupInv, StayInLoop("check", "arm")
    PROVE  WakeupInv'
  <1> USE BoundAssumption, ThreadsAssumption
    DEF Facts, Positions, Threads, memVars, WakeupInv, Goto, StayInLoop, Misses
  <1>1. TypeOK'
    BY DEF TypeOK, PcTypes, PositionsInv
  <1>2. PcTypes'
    BY DEF TypeOK, PcTypes, Steps
  <1>3. LockInv'
    BY DEF TypeOK, PcTypes, LockInv, Critical
  <1>4. PositionsInv'
    BY DEF TypeOK, PcTypes, PositionsInv, StopInv
  <1>5. ArmedInv'
    BY DEF TypeOK, PcTypes, LockInv, Critical, ArmedInv
  <1>6. ProbesInv'
    BY DEF TypeOK, PcTypes, ProbesInv, StopInv
  <1>7. TiedInv'
    BY DEF TypeOK, PcTypes, LockInv, Critical, ArmedInv, TiedInv
  <1>8. MissedInv'
    BY DEF TypeOK, PcTypes, MissedInv
  <1>9. StopInv'
    BY DEF TypeOK, PcTypes, PositionsInv, StopInv
  <1> QED
    BY <1>1, <1>2, <1>3, <1>4, <1>5, <1>6, <1>7, <1>8, <1>9

\* Nor does the second, after consumer_waiting was set.
LEMMA StayRecheckKeeps ==
    ASSUME WakeupInv, StayInLoop("recheck", "wait")
    PROVE  WakeupInv'
  <1> USE BoundAssumption, ThreadsAssumption
    DEF Facts, Positions, Threads, memVars, WakeupInv, Goto, StayInLoop, Misses
  <1>1. TypeOK'
    BY DEF TypeOK, PcTypes, PositionsInv
  <1>2. PcTypes'
    BY DEF TypeOK, PcTypes, Steps
  <1>3. LockInv'
    BY DEF TypeOK, PcTypes, LockInv, Critical
  <1>4. PositionsInv'
    BY DEF TypeOK, PcTypes, PositionsInv, StopInv
  <1>5. ArmedInv'
    BY DEF TypeOK, PcTypes, LockInv, Critical, ArmedInv
  <1>6. ProbesInv'
    BY DEF TypeOK, PcTypes, ProbesInv, StopInv
  <1>7. TiedInv'
    BY DEF TypeOK, PcTypes, LockInv, Critical, ArmedInv, TiedInv
  <1>8. MissedInv'
    BY DEF TypeOK, PcTypes, MissedInv
  <1>9. StopInv'
    BY DEF TypeOK, PcTypes, PositionsInv, StopInv
  <1> QED
    BY <1>1, <1>2, <1>3, <1>4, <1>5, <1>6, <1>7, <1>8, <1>9

\* Arming learns all that was tied to consumer_waiting before.
LEMMA ArmKeeps ==
    ASSUME WakeupInv, Arm
    PROVE  WakeupInv'
  <1> USE BoundAssumption, ThreadsAssumption
    DEF Facts, Positions, Threads, memVars, WakeupInv, Goto, Arm, ModifyWaiting
  <1>1. TypeOK'
    BY DEF TypeOK, PcTypes, PositionsInv
  <1>2. PcTypes'
    BY DEF TypeOK, PcTypes, Steps
  <1>3. LockInv'
    BY DEF TypeOK, PcTypes, LockInv, Critical
  <1>4. PositionsInv'
    BY DEF TypeOK, PcTypes, PositionsInv, StopInv
  <1>5. ArmedInv'
    BY DEF TypeOK, PcTypes, LockInv, Critical, ArmedInv
  <1>6. ProbesInv'
    BY DEF TypeOK, PcTypes, ProbesInv, StopInv
  <1>7. TiedInv'
    BY DEF TypeOK, PcTypes, LockInv, Critical, ArmedInv, TiedInv
  <1>8. MissedInv'
    BY DEF TypeOK, PcTypes, MissedInv
  <1>9. StopInv'
    BY DEF TypeOK, PcTypes, PositionsInv, StopInv
  <1> QED
    BY <1>1, <1>2, <1>3, <1>4, <1>5, <1>6, <1>7, <1>8, <1>9

\* The worker sleeps with consumer_waiting set.
LEMMA CondWaitKeeps ==
    ASSUME WakeupInv, CondWait
    PROVE  WakeupInv'
  <1> USE BoundAssumption, ThreadsAssumption
    DEF Facts, Positions, Threads, memVars, WakeupInv, Goto, CondWait, UnlockWaitMu
  <1>1. TypeOK'
    BY DEF TypeOK, PcTypes, PositionsInv
  <1>2. PcTypes'
    BY DEF TypeOK, PcTypes, Steps
  <1>3. LockInv'
    BY DEF TypeOK, PcTypes, LockInv, Critical
  <1>4. PositionsInv'
    BY DEF TypeOK, PcTypes, PositionsInv, StopInv
  <1>5. ArmedInv'
    BY DEF TypeOK, PcTypes, LockInv, Critical, ArmedInv
  <1>6. ProbesInv'
    BY DEF TypeOK, PcTypes, ProbesInv, StopInv
  <1>7. TiedInv'
    BY DEF TypeOK, PcTypes, LockInv, Critical, ArmedInv, TiedInv
  <1>8. MissedInv'
    BY DEF TypeOK, PcTypes, MissedInv
  <1>9. StopInv'
    BY DEF TypeOK, PcTypes, PositionsInv, StopInv
  <1> QED
    BY <1>1, <1>2, <1>3, <1>4, <1>5, <1>6, <1>7, <1>8, <1>9

\* A spurious wake-up leaves consumer_waiting set.
LEMMA SpuriousWakeupKeeps ==
    ASSUME WakeupInv, SpuriousWakeup
    PROVE  WakeupInv'
  <1> USE BoundAssumption, ThreadsAssumption
    DEF Facts, Positions, Threads, memVars, WakeupInv, Goto, SpuriousWakeup
  <1>1. TypeOK'
    BY DEF TypeOK, PcTypes, PositionsInv
  <1>2. PcTypes'
    BY DEF TypeOK, PcTypes, Steps
  <1>3. LockInv'
    BY DEF TypeOK, PcTypes, LockInv, Critical
  <1>4. PositionsInv'
    BY DEF TypeOK, PcTypes, PositionsInv, StopInv
  <1>5. ArmedInv'
    BY DEF TypeOK, PcTypes, LockInv, Critical, ArmedInv
  <1>6. ProbesInv'
    BY DEF TypeOK, PcTypes, ProbesInv, StopInv
  <1>7. TiedInv'
    BY DEF TypeOK, PcTypes, LockInv, Critical, ArmedInv, TiedInv
  <1>8. MissedInv'
    BY DEF TypeOK, PcTypes, MissedInv
  <1>9. StopInv'
    BY DEF TypeOK, PcTypes, PositionsInv, StopInv
  <1> QED
    BY <1>1, <1>2, <1>3, <1>4, <1>5, <1>6, <1>7, <1>8, <1>9

\* The worker takes its mark back.
LEMMA DisarmKeeps ==
    ASSUME WakeupInv, Disarm
    PROVE  WakeupInv'
  <1> USE BoundAssumption, ThreadsAssumption
    DEF Facts, Positions, Threads, memVars, WakeupInv, Goto, Disarm, ModifyWaiting
  <1>1. TypeOK'
    BY DEF TypeOK, PcTypes, PositionsInv
  <1>2. PcTypes'
    BY DEF TypeOK, PcTypes, Steps
  <1>3. LockInv'
    BY DEF TypeOK, PcTypes, LockInv, Critical
  <1>4. PositionsInv'
    BY DEF TypeOK, PcTypes, PositionsInv, StopInv
  <1>5. ArmedInv'
    BY DEF TypeOK, PcTypes, LockInv, Critical, ArmedInv
  <1>6. ProbesInv'
    BY DEF TypeOK, PcTypes, ProbesInv, StopInv
  <1>7. TiedInv'
    BY DEF TypeOK, PcTypes, LockInv, Critical, ArmedInv, TiedInv
  <1>8. MissedInv'
    BY DEF TypeOK, PcTypes, MissedInv
  <1>9. StopInv'
    BY DEF TypeOK, PcTypes, PositionsInv, StopInv
  <1> QED
    BY <1>1, <1>2, <1>3, <1>4, <1>5, <1>6, <1>7, <1>8, <1>9

\* The worker leaves only if the stop was seen before an empty queue.
LEMMA DecideKeeps ==
    ASSUME WakeupInv, Decide
    PROVE  WakeupInv'
  <1> USE BoundAssumption, ThreadsAssumption
    DEF Facts, Positions, Threads, memVars, WakeupInv, Goto, Decide, Sees, Misses
  <1>1. TypeOK'
    BY DEF TypeOK, PcTypes, PositionsInv
  <1>2. PcTypes'
    BY DEF TypeOK, PcTypes, Steps
  <1>3. LockInv'
    BY DEF TypeOK, PcTypes, LockInv, Critical
  <1>4. PositionsInv'
    BY DEF TypeOK, PcTypes, PositionsInv, StopInv
  <1>5. ArmedInv'
    BY DEF TypeOK, PcTypes, LockInv, Critical, ArmedInv
  <1>6. ProbesInv'
    BY DEF TypeOK, PcTypes, ProbesInv, StopInv
  <1>7. TiedInv'
    BY DEF TypeOK, PcTypes, LockInv, Critical, ArmedInv, TiedInv
  <1>8. MissedInv'
    BY DEF TypeOK, PcTypes, MissedInv
  <1>9. StopInv'
    BY DEF TypeOK, PcTypes, PositionsInv, StopInv
  <1> QED
    BY <1>1, <1>2, <1>3, <1>4, <1>5, <1>6, <1>7, <1>8, <1>9

\* The worker leaves the library.
LEMMA ExitKeeps ==
    ASSUME WakeupInv, Exit
    PROVE  WakeupInv'
  <1> USE BoundAssumption, ThreadsAssumption
    DEF Facts, Positions, Threads, memVars, WakeupInv, Goto, Exit, UnlockWaitMu
  <1>1. TypeOK'
    BY DEF TypeOK, PcTypes, PositionsInv
  <1>2. PcTypes'
    BY DEF TypeOK, PcTypes, Steps
  <1>3. LockInv'
    BY DEF TypeOK, PcTypes, LockInv, Critical
  <1>4. PositionsInv'
    BY DEF TypeOK, PcTypes, PositionsInv, StopInv
  <1>5. ArmedInv'
    BY DEF TypeOK, PcTypes, LockInv, Critical, ArmedInv
  <1>6. ProbesInv'
    BY DEF TypeOK, PcTypes, ProbesInv, StopInv
  <1>7. TiedInv'
    BY DEF TypeOK, PcTypes, LockInv, Critical, ArmedInv, TiedInv
  <1>8. MissedInv'
    BY DEF TypeOK, PcTypes, MissedInv
  <1>9. StopInv'
    BY DEF TypeOK, PcTypes, PositionsInv, StopInv
  <1> QED
    BY <1>1, <1>2, <1>3, <1>4, <1>5, <1>6, <1>7, <1>8, <1>9

-----------------------------------------------------------------------------
(* The invariant and what follows from it                                  *)

\* Before the first push nothing is stored and nobody waits.
LEMMA WakeupInvInit == Init => WakeupInv
  <1> SUFFICES ASSUME Init PROVE WakeupInv
    OBVIOUS
  <1> USE BoundAssumption, ThreadsAssumption DEF Facts, Positions, Threads, Init
  <1>1. TypeOK
    <2>1. released \in [Facts -> SUBSET stored] /\ view \in [Threads -> SUBSET stored]
      OBVIOUS
    <2>2. held \in [Producers -> 0..MaxPos] /\ enqueue_pos \in 0..MaxPos
          /\ dequeue_pos \in 0..enqueue_pos
      OBVIOUS
    <2> QED
      BY <2>1, <2>2 DEF TypeOK
  <1>2. PcTypes
    BY DEF PcTypes, Steps
  <1>3. LockInv
    BY DEF LockInv, Critical
  <1>4. PositionsInv /\ ArmedInv /\ ProbesInv /\ TiedInv /\ MissedInv /\ StopInv
    BY DEF PositionsInv, ArmedInv, ProbesInv, TiedInv, MissedInv, StopInv
  <1> QED
    BY <1>1, <1>2, <1>3, <1>4 DEF WakeupInv

\* Every step keeps the invariant.
LEMMA WakeupInvStep == WakeupInv /\ [Next]_vars => WakeupInv'
  <1> SUFFICES ASSUME WakeupInv, [Next]_vars PROVE WakeupInv'
    OBVIOUS
  <1>1. ASSUME NEW p \in Producers, ProducerStep(p)
        PROVE  WakeupInv'
    BY <1>1, ReserveKeeps, PublishKeeps, ProbeKeeps, LockKeeps, ClaimSignalKeeps,
       CondSignalKeeps, UnlockProducerKeeps
    DEF ProducerStep
  <1>2. CASE StopperStep
    BY <1>2, StopQuiescedKeeps, StopAbruptKeeps, StopSilentKeeps, LockKeeps, ForceDisarmKeeps,
       CondSignalKeeps, UnlockStopperKeeps
    DEF StopperStep
  <1>3. CASE WorkerStep
    BY <1>3, PopKeeps, DrainEndsKeeps, AcquireKeeps, LeaveLoopKeeps, StayCheckKeeps,
       StayRecheckKeeps, ArmKeeps, CondWaitKeeps, DisarmKeeps, DecideKeeps, UnlockWorkerKeeps,
       ExitKeeps
    DEF WorkerStep
  <1>4. CASE SpuriousWakeup
    BY <1>4, SpuriousWakeupKeeps
  <1>5. CASE UNCHANGED vars
    BY <1>5 DEF vars, memVars, WakeupInv, TypeOK, PcTypes, LockInv, PositionsInv, ArmedInv,
                ProbesInv, TiedInv, MissedInv, StopInv
  <1> QED
    BY <1>1, <1>2, <1>3, <1>4, <1>5 DEF Next

\* logger_queue_notify_if_waiting, logger_queue_wake_force and the waiting loop
\* of logger_worker_main keep WakeupInv under release/acquire memory, whichever
\* of the three ways running is cleared.
THEOREM WakeupInvariant == Spec => []WakeupInv
  <1> QED
    BY WakeupInvInit, WakeupInvStep, PTL DEF Spec

\* A sleeping worker's invariants leave no room for a fact nobody tells it of:
\* its storer is still to probe, or found consumer_waiting set and will signal.
LEMMA SleeperIsTold == WakeupInv => NoLostWakeup
  <1> SUFFICES ASSUME WakeupInv, pc[Worker] = "sleeping",
                      NEW f \in {dequeue_pos, Stop}, f \in stored,
                      f = Stop => pc[Stopper] # "silent"
               PROVE  SignalComing
    <2>1. WakeupInv => dequeue_pos # Stop
      BY ThreadsAssumption, BoundAssumption DEF WakeupInv, TypeOK
    <2> QED
      BY <2>1 DEF NoLostWakeup, StopIsAnnounced
  <1>1. CASE consumer_waiting = 0
    BY <1>1 DEF WakeupInv, ArmedInv, SignalComing
  <1>2. CASE consumer_waiting = 1
    <2>1. f \notin view[Worker]
      BY DEF WakeupInv, MissedInv
    <2>2. CASE f \in waitingView
      <3>1. PICK t \in Threads \ {Worker} : pc[t] \in {"lock", "claim"}
        BY <1>2, <2>1, <2>2 DEF WakeupInv, TiedInv
      <3> QED
        BY <1>2, <3>1 DEF SignalComing
    <2>3. CASE \E p \in Producers : pc[p] = "probe"
      BY <1>2, <2>3, ThreadsAssumption DEF SignalComing, Threads
    <2>4. CASE pc[Stopper] \in {"lock", "claim"}
      BY <1>2, <2>4, ThreadsAssumption DEF SignalComing, Threads
    <2> QED
      BY <2>2, <2>3, <2>4 DEF WakeupInv, ProbesInv
  <1> QED
    BY <1>1, <1>2 DEF WakeupInv, TypeOK

\* The worker never sleeps on a published record, or on a stop whose thread is
\* to force a wake-up, that nobody is on the way to tell it about: the
\* dangerous outcome that docs/v2/QUEUE_WAKEUP_PROOF.md excludes, for any number
\* of producers and also when running is cleared silently.
THEOREM WakeupsAreNotLost == Spec => []NoLostWakeup
  <1> QED
    BY WakeupInvariant, SleeperIsTold, PTL

\* A worker that left logger_worker_main after logger_destroy had quiesced the
\* producers has consumed every record that was pushed.
THEOREM DestroyLosesNothing == Spec => []NothingLeftBehind
  <1>1. WakeupInv => NothingLeftBehind
    BY DEF WakeupInv, StopInv, NothingLeftBehind
  <1> QED
    BY <1>1, WakeupInvariant, PTL
==============================================================================
