------------------------------ MODULE MpscQueue ------------------------------
(***************************************************************************)
(* The bounded multi-producer single-consumer queue of                     *)
(* src/src/logger_queue.c: a ring of Cap slots, each with a sequence       *)
(* number that says who may touch it, and a pool of spill blocks that      *)
(* hold the text of long messages.                                         *)
(*                                                                         *)
(* One action is one access to shared memory.  Positions are size_t in the *)
(* code and wrap at PosMod = 2^w.  A variable holds the unwrapped position *)
(* (the number of reservations ever made), and every operation of the code *)
(* on positions, the index, the equality test, the signed comparison, is   *)
(* applied to the wrapped value: IndexOf, SamePos and IsBehind.            *)
(*                                                                         *)
(* The sleep and wake-up half of logger_queue_push (the call of            *)
(* logger_queue_notify_if_waiting after the publication) is the module     *)
(* QueueWakeup; here a push returns when it has published.                 *)
(***************************************************************************)
EXTENDS Integers, FiniteSets

CONSTANTS
    Producers,      \* threads that call logger_queue_push
    Observers,      \* threads that call logger_queue_depth
    Stalled,        \* producers that fairness does not schedule
    Cap,            \* q->cap, the number of slots
    PosMod,         \* SIZE_MAX + 1: positions wrap here
    SpillLimit,     \* LOGGER_QUEUE_SPILL_LIMIT
    WordBits,       \* LOGGER_QUEUE_SPILL_WORD_BITS
    Start,          \* position of the drained queue the behaviour begins in
    MaxPos,         \* bound: no reservation at or above this position
    MaxCalls,       \* bound: pushes per producer
    StallWindow,    \* bound: reservations made while a producer is between
                    \* its read of enqueue_pos and its compare-and-swap
    None            \* LOGGER_QUEUE_SPILL_NONE, and "no message"

\* queue_capacity rounds up to a power of two that is at least 2, so Cap
\* divides the modulus of size_t.
ASSUME CapAssumption == /\ Cap \in Nat /\ Cap >= 2
                        /\ PosMod \in Nat /\ PosMod % Cap = 0
                        /\ PosMod % 2 = 0

\* A stalled producer is overtaken by fewer than SIZE_MAX / 2 reservations.
ASSUME WindowAssumption == /\ StallWindow \in Nat
                           /\ 2 * (StallWindow + Cap + 1) <= PosMod

ASSUME PoolAssumption == SpillLimit \in Nat \ {0} /\ WordBits \in Nat \ {0}

ASSUME BoundsAssumption == /\ Start \in Nat /\ MaxPos \in Nat /\ MaxCalls \in Nat
                           /\ Start <= MaxPos

ASSUME NoneAssumption ==
    None \notin Nat /\ None \notin Producers \X (1..MaxCalls)

-----------------------------------------------------------------------------
(* Positions                                                               *)

Slots == 0..(Cap - 1)
Positions == Start..(MaxPos - 1)

\* pos & q->mask
IndexOf(pos) == (pos % PosMod) % Cap

\* Equality of two wrapped positions.
SamePos(a, b) == (a - b) % PosMod = 0

\* Mutant: the comparison without the wrap.
IsBehindUnwrapped(a, b) == a % PosMod < b % PosMod

\* diff > SIZE_MAX / 2 with diff = a - b in size_t: a is behind b.
IsBehind(a, b) == (a - b) % PosMod > (PosMod - 1) \div 2

(* The spill pool                                                          *)

\* queue_spill_capacity
SpillCap == IF Cap < SpillLimit THEN Cap ELSE SpillLimit
Blocks == 0..(SpillCap - 1)
SpillWords == (SpillCap + WordBits - 1) \div WordBits
\* Mutant: spill_valid_mask forgotten for the last, partial word.
BlocksOfWordUnmasked(w) == (w * WordBits)..(w * WordBits + WordBits - 1)

BlocksOfWord(w) == {b \in Blocks : b \div WordBits = w}

(* Messages: the n-th push of a producer.                                  *)

Messages == Producers \X (1..MaxCalls)

\* Where logger_record_text_length puts the text of a message: in the slot,
\* in a spill block, or nowhere because it has no terminator in its buffer.
Kinds == {"inline", "spilled", "unterminated"}

Results == {"none", "accepted", "full", "exhausted", "overflow"}

-----------------------------------------------------------------------------
VARIABLES
    enqueue_pos,        \* the next position to reserve
    dequeue_pos,        \* the next position to consume
    seq,                \* seq[i]: slots[i].seq
    record,             \* record[i]: slots[i].record
    spill_used,         \* the blocks whose bit is set
    spill_text,         \* spill_text[b]: the message whose text b holds
    spill_exhaustions,
    pc,                 \* pc[p]: the step of logger_queue_push p is at
    calls,              \* calls[p]: pushes p has begun
    pos,                \* pos[p]: the local variable pos
    spill_index,        \* spill_index[p]: the local variable spill_index
    probe,              \* probe[p]: start and n of queue_spill_try_take
    result,             \* result[p]: what p's last push returned
    cpc,                \* the step of logger_queue_try_pop the consumer is at
    popped,             \* the message try_pop has copied out
    opc, odeq, depth,   \* logger_queue_depth: step, local deq, returned value
    odeq0,              \* history: dequeue_pos when the call began
    log                 \* history: log[x] is the message that reserved x

producerVars == <<pc, calls, pos, spill_index, probe, result>>
consumerVars == <<cpc, popped>>
observerVars == <<opc, odeq, odeq0, depth>>
poolVars == <<spill_used, spill_text, spill_exhaustions>>
ringVars == <<enqueue_pos, dequeue_pos, seq, record>>
vars == <<ringVars, poolVars, producerVars, consumerVars, observerVars, log>>

Msg(p) == <<p, calls[p]>>

EmptyRecord == [msg |-> None, spill |-> None]
EmptyMessage == [head |-> None, text |-> None, spill |-> None]

\* The state logger_queue_init leaves (Start = 0), or the drained queue that
\* Start pushes and pops later is in: every slot is free for its next use.
Init ==
    /\ enqueue_pos = Start
    /\ dequeue_pos = Start
    /\ seq \in [Slots -> Start..(Start + Cap - 1)]
    /\ \A i \in Slots : IndexOf(seq[i]) = i
    /\ record = [i \in Slots |-> EmptyRecord]
    /\ spill_used = {}
    /\ spill_text = [b \in Blocks |-> None]
    /\ spill_exhaustions = 0
    /\ pc = [p \in Producers |-> "idle"]
    /\ calls = [p \in Producers |-> 0]
    /\ pos = [p \in Producers |-> Start]
    /\ spill_index = [p \in Producers |-> None]
    /\ probe = [p \in Producers |-> [start |-> 0, n |-> 0]]
    /\ result = [p \in Producers |-> "none"]
    /\ cpc = "test"
    /\ popped = EmptyMessage
    /\ opc = [o \in Observers |-> "idle"]
    /\ odeq = [o \in Observers |-> Start]
    /\ odeq0 = [o \in Observers |-> Start]
    /\ depth = [o \in Observers |-> 0]
    /\ log = [x \in Positions |-> None]

-----------------------------------------------------------------------------
(* logger_queue_push                                                       *)

Goto(p, from, to) == pc[p] = from /\ pc' = [pc EXCEPT ![p] = to]

Return(p, from, value) ==
    /\ Goto(p, from, "idle")
    /\ result' = [result EXCEPT ![p] = value]

\* The call: an unterminated text is refused, a long one needs a spill block.
\* The word queue_spill_try_take starts at depends on a thread-local cursor.
Begin(p) ==
    /\ calls[p] < MaxCalls
    /\ calls' = [calls EXCEPT ![p] = @ + 1]
    /\ spill_index' = [spill_index EXCEPT ![p] = None]
    /\ \E kind \in Kinds :
        \/ /\ kind = "unterminated"
           /\ Return(p, "idle", "overflow")
           /\ UNCHANGED probe
        \/ /\ kind = "inline"
           /\ Goto(p, "idle", "load")
           /\ result' = [result EXCEPT ![p] = "none"]
           /\ UNCHANGED probe
        \/ /\ kind = "spilled"
           /\ Goto(p, "idle", "scan")
           /\ result' = [result EXCEPT ![p] = "none"]
           /\ \E start \in 0..(SpillWords - 1) :
                probe' = [probe EXCEPT ![p] = [start |-> start, n |-> 0]]
    /\ UNCHANGED <<ringVars, poolVars, pos, consumerVars, observerVars, log>>

ProbedWord(p) == (probe[p].start + probe[p].n) % SpillWords
FreeIn(w) == BlocksOfWord(w) \ spill_used

\* The compare-and-swap on a word of the bitmap: it succeeds only on the value
\* the lowest free bit was computed from, so load and swap are one step.
SpillTake(p) ==
    /\ Goto(p, "scan", "copy")
    /\ \E b \in FreeIn(ProbedWord(p)) :
        /\ \A c \in FreeIn(ProbedWord(p)) : b <= c
        /\ spill_used' = spill_used \cup {b}
        /\ spill_index' = [spill_index EXCEPT ![p] = b]
    /\ UNCHANGED <<ringVars, spill_text, spill_exhaustions, calls, pos, probe,
                   result, consumerVars, observerVars, log>>

\* The word has no free bit: on to the next one.
SpillNextWord(p) ==
    /\ pc[p] = "scan"
    /\ probe[p].n + 1 < SpillWords
    /\ FreeIn(ProbedWord(p)) = {}
    /\ probe' = [probe EXCEPT ![p].n = @ + 1]
    /\ UNCHANGED <<ringVars, poolVars, pc, calls, pos, spill_index, result,
                   consumerVars, observerVars, log>>

\* The last word has none either: push returns 0 without touching the ring.
SpillExhausted(p) ==
    /\ Return(p, "scan", "exhausted")
    /\ probe[p].n + 1 = SpillWords
    /\ FreeIn(ProbedWord(p)) = {}
    /\ spill_exhaustions' = spill_exhaustions + 1
    /\ UNCHANGED <<ringVars, spill_used, spill_text, calls, pos, spill_index,
                   probe, consumerVars, observerVars, log>>

\* memcpy of the text into the block.
SpillCopy(p) ==
    /\ Goto(p, "copy", "load")
    /\ spill_text' = [spill_text EXCEPT ![spill_index[p]] = Msg(p)]
    /\ UNCHANGED <<ringVars, spill_used, spill_exhaustions, calls, pos,
                   spill_index, probe, result, consumerVars, observerVars, log>>

LoadPos(p) ==
    /\ Goto(p, "load", "check")
    /\ pos' = [pos EXCEPT ![p] = enqueue_pos]
    /\ UNCHANGED <<ringVars, poolVars, calls, spill_index, probe, result,
                   consumerVars, observerVars, log>>

\* The slot is free for this position.
CheckFree(p) ==
    /\ Goto(p, "check", "cas")
    /\ SamePos(seq[IndexOf(pos[p])], pos[p])
    /\ UNCHANGED <<ringVars, poolVars, calls, pos, spill_index, probe, result,
                   consumerVars, observerVars, log>>

\* Mutant: a full queue is waited for instead of refused.
CheckFullSpins(p) ==
    /\ Goto(p, "check", "load")
    /\ IsBehind(seq[IndexOf(pos[p])], pos[p])
    /\ UNCHANGED <<ringVars, poolVars, calls, pos, spill_index, probe, result,
                   consumerVars, observerVars, log>>

\* The slot still holds the record of the previous lap: the queue is full.
CheckFull(p) ==
    /\ Goto(p, "check", "reject")
    /\ IsBehind(seq[IndexOf(pos[p])], pos[p])
    /\ UNCHANGED <<ringVars, poolVars, calls, pos, spill_index, probe, result,
                   consumerVars, observerVars, log>>

\* Another producer was faster: read enqueue_pos again.
CheckStale(p) ==
    /\ Goto(p, "check", "load")
    /\ ~SamePos(seq[IndexOf(pos[p])], pos[p])
    /\ ~IsBehind(seq[IndexOf(pos[p])], pos[p])
    /\ UNCHANGED <<ringVars, poolVars, calls, pos, spill_index, probe, result,
                   consumerVars, observerVars, log>>

\* Mutant: the refused message keeps its block.
RejectLeaks(p) ==
    /\ Return(p, "reject", "full")
    /\ spill_index' = [spill_index EXCEPT ![p] = None]
    /\ UNCHANGED <<ringVars, poolVars, calls, pos, probe, consumerVars,
                   observerVars, log>>

\* The full queue gives the block back and returns 0.
Reject(p) ==
    /\ Return(p, "reject", "full")
    /\ spill_used' = spill_used \ {spill_index[p]}
    /\ spill_index' = [spill_index EXCEPT ![p] = None]
    /\ UNCHANGED <<ringVars, spill_text, spill_exhaustions, calls, pos, probe,
                   consumerVars, observerVars, log>>

\* Mutant: enqueue_pos is stored instead of compared and swapped.
ReserveUnchecked(p) ==
    /\ Goto(p, "cas", "pack")
    /\ pos[p] < MaxPos
    /\ enqueue_pos' = pos[p] + 1
    /\ log' = [log EXCEPT ![pos[p]] = Msg(p)]
    /\ UNCHANGED <<dequeue_pos, seq, record, poolVars, calls, pos, spill_index,
                   probe, result, consumerVars, observerVars>>

\* Mutant: the slot is published when it is reserved, before it is packed.
ReservePublishes(p) ==
    /\ Goto(p, "cas", "pack")
    /\ SamePos(enqueue_pos, pos[p])
    /\ enqueue_pos < MaxPos
    /\ enqueue_pos' = enqueue_pos + 1
    /\ log' = [log EXCEPT ![enqueue_pos] = Msg(p)]
    /\ seq' = [seq EXCEPT ![IndexOf(pos[p])] = pos[p] + 1]
    /\ UNCHANGED <<dequeue_pos, record, poolVars, calls, pos, spill_index,
                   probe, result, consumerVars, observerVars>>

\* The reservation.  StallWindow and MaxPos bound the model.
Reserve(p) ==
    /\ Goto(p, "cas", "pack")
    /\ SamePos(enqueue_pos, pos[p])
    /\ enqueue_pos < MaxPos
    /\ \A q \in Producers \ {p} :
        pc[q] \in {"check", "cas"} => enqueue_pos - pos[q] < StallWindow
    /\ enqueue_pos' = enqueue_pos + 1
    /\ log' = [log EXCEPT ![enqueue_pos] = Msg(p)]
    /\ UNCHANGED <<dequeue_pos, seq, record, poolVars, calls, pos, spill_index,
                   probe, result, consumerVars, observerVars>>

\* The weak compare-and-swap fails, with cause or spuriously, and loads pos.
ReserveFails(p) ==
    /\ Goto(p, "cas", "check")
    /\ pos' = [pos EXCEPT ![p] = enqueue_pos]
    /\ UNCHANGED <<ringVars, poolVars, calls, spill_index, probe, result,
                   consumerVars, observerVars, log>>

\* queue_record_pack
Pack(p) ==
    /\ Goto(p, "pack", "publish")
    /\ record' = [record EXCEPT ![IndexOf(pos[p])] =
                    [msg |-> Msg(p), spill |-> spill_index[p]]]
    /\ UNCHANGED <<enqueue_pos, dequeue_pos, seq, poolVars, calls, pos,
                   spill_index, probe, result, consumerVars, observerVars, log>>

\* Mutant: the slot is stamped with its position instead of the next one.
PublishUnmarked(p) ==
    /\ Return(p, "publish", "accepted")
    /\ seq' = [seq EXCEPT ![IndexOf(pos[p])] = pos[p]]
    /\ spill_index' = [spill_index EXCEPT ![p] = None]
    /\ UNCHANGED <<enqueue_pos, dequeue_pos, record, poolVars, calls, pos,
                   probe, consumerVars, observerVars, log>>

\* The release store that hands the slot, and the block, to the consumer.
Publish(p) ==
    /\ Return(p, "publish", "accepted")
    /\ seq' = [seq EXCEPT ![IndexOf(pos[p])] = pos[p] + 1]
    /\ spill_index' = [spill_index EXCEPT ![p] = None]
    /\ UNCHANGED <<enqueue_pos, dequeue_pos, record, poolVars, calls, pos,
                   probe, consumerVars, observerVars, log>>

Push(p) ==
    \/ Begin(p)
    \/ SpillTake(p) \/ SpillNextWord(p) \/ SpillExhausted(p) \/ SpillCopy(p)
    \/ LoadPos(p) \/ CheckFree(p) \/ CheckFull(p) \/ CheckStale(p) \/ Reject(p)
    \/ Reserve(p) \/ ReserveFails(p) \/ Pack(p) \/ Publish(p)

-----------------------------------------------------------------------------
(* logger_queue_try_pop; only the worker calls it.  A pop that finds        *)
(* nothing changes nothing, as in logger_queue_empty.                      *)

\* The next slot is published.
Published == SamePos(seq[IndexOf(dequeue_pos)], dequeue_pos + 1)

\* Mutant: the slot is given back before it is read.
TestReleases ==
    /\ cpc = "test" /\ cpc' = "unpack"
    /\ Published
    /\ seq' = [seq EXCEPT ![IndexOf(dequeue_pos)] = dequeue_pos + Cap]
    /\ UNCHANGED <<enqueue_pos, dequeue_pos, record, poolVars, producerVars,
                   popped, observerVars, log>>

Test ==
    /\ cpc = "test" /\ cpc' = "unpack"
    /\ Published
    /\ UNCHANGED <<ringVars, poolVars, producerVars, popped, observerVars, log>>

\* queue_record_unpack: the header from the slot, the text from slot or block.
Unpack ==
    /\ cpc = "unpack" /\ cpc' = "put"
    /\ LET r == record[IndexOf(dequeue_pos)]
       IN  popped' = [head |-> r.msg,
                      text |-> IF r.spill = None THEN r.msg
                               ELSE spill_text[r.spill],
                      spill |-> r.spill]
    /\ UNCHANGED <<ringVars, poolVars, producerVars, observerVars, log>>

\* queue_spill_put
PutBlock ==
    /\ cpc = "put" /\ cpc' = "reuse"
    /\ spill_used' = spill_used \ {popped.spill}
    /\ UNCHANGED <<ringVars, spill_text, spill_exhaustions, producerVars,
                   popped, observerVars, log>>

\* Mutant: the slot is stamped with the position after the next lap.
ReuseOffByOne ==
    /\ cpc = "reuse" /\ cpc' = "advance"
    /\ seq' = [seq EXCEPT ![IndexOf(dequeue_pos)] = dequeue_pos + Cap + 1]
    /\ UNCHANGED <<enqueue_pos, dequeue_pos, record, poolVars, producerVars,
                   popped, observerVars, log>>

\* The slot is free for the next lap.
Reuse ==
    /\ cpc = "reuse" /\ cpc' = "advance"
    /\ seq' = [seq EXCEPT ![IndexOf(dequeue_pos)] = dequeue_pos + Cap]
    /\ UNCHANGED <<enqueue_pos, dequeue_pos, record, poolVars, producerVars,
                   popped, observerVars, log>>

Advance ==
    /\ cpc = "advance" /\ cpc' = "test"
    /\ dequeue_pos' = dequeue_pos + 1
    /\ UNCHANGED <<enqueue_pos, seq, record, poolVars, producerVars, popped,
                   observerVars, log>>

Pop == Test \/ Unpack \/ PutBlock \/ Reuse \/ Advance

-----------------------------------------------------------------------------
(* logger_queue_depth: dequeue_pos first, then enqueue_pos, then the clamp. *)

DepthFirstLoad(o) ==
    /\ opc[o] = "idle"
    /\ opc' = [opc EXCEPT ![o] = "second"]
    /\ odeq' = [odeq EXCEPT ![o] = dequeue_pos]
    /\ odeq0' = [odeq0 EXCEPT ![o] = dequeue_pos]
    /\ UNCHANGED <<ringVars, poolVars, producerVars, consumerVars, depth, log>>

\* min(enq - deq in size_t, cap)
Clamped(enq, deq) ==
    LET d == (enq - deq) % PosMod IN IF d < Cap THEN d ELSE Cap

DepthSecondLoad(o) ==
    /\ opc[o] = "second"
    /\ opc' = [opc EXCEPT ![o] = "idle"]
    /\ depth' = [depth EXCEPT ![o] = Clamped(enqueue_pos, odeq[o])]
    /\ UNCHANGED <<ringVars, poolVars, producerVars, consumerVars, odeq, odeq0,
                   log>>

\* Mutant: enqueue_pos is read first.
DepthEnqueueFirst(o) ==
    /\ UNCHANGED <<ringVars, poolVars, producerVars, consumerVars, log>>
    /\ \/ /\ opc[o] = "idle" /\ opc' = [opc EXCEPT ![o] = "second"]
          /\ odeq' = [odeq EXCEPT ![o] = enqueue_pos]
          /\ odeq0' = [odeq0 EXCEPT ![o] = dequeue_pos]
          /\ UNCHANGED depth
       \/ /\ opc[o] = "second" /\ opc' = [opc EXCEPT ![o] = "idle"]
          /\ depth' = [depth EXCEPT ![o] = Clamped(odeq[o], dequeue_pos)]
          /\ UNCHANGED <<odeq, odeq0>>

Depth(o) == DepthFirstLoad(o) \/ DepthSecondLoad(o)

-----------------------------------------------------------------------------
Next ==
    \/ \E p \in Producers : Push(p)
    \/ Pop
    \/ \E o \in Observers : Depth(o)

Spec == Init /\ [][Next]_vars

\* The scheduler runs every thread that is not in Stalled.  The swap of a
\* running producer that keeps finding its position current succeeds in the
\* end: a weak compare-and-swap may fail spuriously, but not for ever.
Fairness ==
    /\ \A p \in Producers \ Stalled :
        /\ WF_vars(Push(p) /\ pc[p] # "idle")
        /\ SF_vars(Reserve(p))
    /\ WF_vars(Pop)

FairSpec == Spec /\ Fairness

-----------------------------------------------------------------------------
(* Properties                                                              *)

ProducerSteps == {"idle", "scan", "copy", "load", "check", "cas", "reject",
                  "pack", "publish"}
ConsumerSteps == {"test", "unpack", "put", "reuse", "advance"}
Records == [msg : Messages \cup {None}, spill : Blocks \cup {None}]
PoppedMessages == [head : Messages \cup {None}, text : Messages \cup {None},
                   spill : Blocks \cup {None}]

RingTypeOK ==
    /\ enqueue_pos \in Start..MaxPos
    /\ dequeue_pos \in Start..MaxPos
    /\ seq \in [Slots -> Nat]
    /\ record \in [Slots -> Records]

PoolTypeOK ==
    /\ spill_used \in SUBSET Blocks
    /\ spill_text \in [Blocks -> Messages \cup {None}]
    /\ spill_exhaustions \in Nat

ProducerTypeOK ==
    /\ pc \in [Producers -> ProducerSteps]
    /\ calls \in [Producers -> 0..MaxCalls]
    /\ pos \in [Producers -> Start..MaxPos]
    /\ spill_index \in [Producers -> Blocks \cup {None}]
    /\ probe \in [Producers -> [start : Nat, n : Nat]]
    /\ result \in [Producers -> Results]
    /\ \A p \in Producers : pc[p] # "idle" => calls[p] > 0

ConsumerTypeOK == cpc \in ConsumerSteps /\ popped \in PoppedMessages

ObserverTypeOK ==
    /\ opc \in [Observers -> {"idle", "second"}]
    /\ odeq \in [Observers -> Start..MaxPos]
    /\ odeq0 \in [Observers -> Start..MaxPos]
    /\ depth \in [Observers -> 0..Cap]

\* Every variable stays in its domain: no spill bit outside the pool is taken,
\* no position leaves the ring's range.
TypeOK ==
    /\ RingTypeOK /\ PoolTypeOK /\ ProducerTypeOK /\ ConsumerTypeOK
    /\ ObserverTypeOK
    /\ log \in [Positions -> Messages \cup {None}]

\* The first position whose slot the consumer has not given back.
Freed == IF cpc = "advance" THEN dequeue_pos + 1 ELSE dequeue_pos

\* A producer that has reserved a position and not published it.
Holds(p) == pc[p] \in {"pack", "publish"}

\* slots[i].record is plain memory: queue_record_pack of one producer never
\* overlaps that of another, nor queue_record_unpack of the consumer, on the
\* same slot.
SlotExclusive ==
    /\ \A p, q \in Producers :
        Holds(p) /\ Holds(q) /\ p # q => IndexOf(pos[p]) # IndexOf(pos[q])
    /\ cpc \in {"unpack", "put", "reuse"} =>
        \A p \in Producers : Holds(p) => IndexOf(pos[p]) # IndexOf(dequeue_pos)

\* logger_queue_try_pop hands over, whole, the message that reserved the
\* position it consumes: nothing lost, repeated, reordered or torn between
\* the header in the slot and the text in the spill block.
DeliveredInOrder ==
    cpc \in {"put", "reuse", "advance"} =>
        /\ popped.head = log[dequeue_pos]
        /\ popped.text = log[dequeue_pos]
        /\ log[dequeue_pos] # None

\* The record at position x is published and the consumer has not emptied it.
Waiting(x) ==
    /\ seq[IndexOf(x)] = x + 1
    /\ ~ (x = dequeue_pos /\ cpc \in {"reuse", "advance"})

\* The owners of spill block b: a producer before it publishes, a published
\* slot the consumer has not emptied.
WaitingPositions == {x \in dequeue_pos..(enqueue_pos - 1) : Waiting(x)}
ProducersOf(b) == {p \in Producers : spill_index[p] = b}
SlotsOf(b) == {x \in WaitingPositions : record[IndexOf(x)].spill = b}

\* queue_spill_try_take and queue_spill_put neither share nor leak a block:
\* a block's bit is set exactly while it has an owner, and it has only one.
SpillBlocksOwned ==
    \A b \in Blocks :
        /\ \A p, q \in ProducersOf(b) : p = q
        /\ \A x, y \in SlotsOf(b) : x = y
        /\ ProducersOf(b) = {} \/ SlotsOf(b) = {}
        /\ b \in spill_used <=> ProducersOf(b) # {} \/ SlotsOf(b) # {}

\* What the queue tells its callers is true.  A push that returned 1 is delivered
\* or waits published in its slot, and one that returned 0 left no trace in the
\* ring; logger_queue_depth reports no more than were reserved since the dequeue
\* position it began with, so its two loads never make the difference negative.
ReportsAreHonest ==
    /\ \A p \in Producers : pc[p] = "idle" /\ calls[p] > 0 =>
         LET at == {x \in Start..(enqueue_pos - 1) : log[x] = Msg(p)}
         IN  IF result[p] = "accepted"
             THEN \E x \in at :
                     /\ at = {x}
                     /\ \/ x < Freed
                        \/ /\ seq[IndexOf(x)] = x + 1
                           /\ record[IndexOf(x)].msg = Msg(p)
             ELSE at = {}
    /\ \A o \in Observers :
         opc[o] = "idle" => depth[o] <= enqueue_pos - odeq0[o]

\* Push refuses a message as "full" only at an instant when all Cap slots are
\* taken, however stale the position it read and wherever the positions wrap.
RejectOnlyWhenFull ==
    [][\A p \in Producers :
        pc[p] # "reject" /\ pc'[p] = "reject" => enqueue_pos - Freed >= Cap]_vars

Fifo == INSTANCE BoundedFifo WITH
    tail <- enqueue_pos,
    head <- IF cpc \in {"put", "reuse", "advance"} THEN dequeue_pos + 1
            ELSE dequeue_pos,
    delivered <- <<popped.head, popped.text>>

\* The ring and the pool implement the bounded FIFO: a push takes effect at
\* its compare-and-swap, a pop when it copies the record out.
RefinesFifo == Fifo!Spec

\* Every reserved position is consumed in the end, unless a producer that
\* stopped before it published blocks the ring at its own position.
ReservedIsConsumed ==
    \A x \in Positions : enqueue_pos > x ~>
        \/ dequeue_pos > x
        \/ \E p \in Stalled : Holds(p) /\ pos[p] = dequeue_pos

\* A producer that stops between reservation and publication blocks no other:
\* their pushes still return.
PushReturns ==
    \A p \in Producers \ Stalled : pc[p] # "idle" ~> pc[p] = "idle"
-----------------------------------------------------------------------------
(* The inductive invariant behind the safety properties, proved in          *)
(* MpscQueueProofs.                                                         *)

\* Position x is reserved and not published.
Unpublished(x) == \E p \in Producers : Holds(p) /\ pos[p] = x

\* At most Cap positions are reserved and not given back.
Bounded == Freed <= enqueue_pos /\ enqueue_pos <= Freed + Cap

\* Producers between reservation and publication hold different positions.
HoldersApart ==
    /\ \A p \in Producers : Holds(p) => pos[p] \in Freed..(enqueue_pos - 1)
    /\ \A p, q \in Producers : Holds(p) /\ Holds(q) /\ pos[p] = pos[q] => p = q

\* What a producer in the reservation loop knows of its position: it is not
\* older than the window, and once checked its slot stays free until reserved.
LoopKnows ==
    \A p \in Producers :
        /\ pc[p] \in {"check", "cas"} =>
            pos[p] <= enqueue_pos /\ enqueue_pos - pos[p] <= StallWindow
        /\ pc[p] = "cas" => pos[p] < Freed + Cap

\* The slots are the Cap positions from Freed on; the sequence number of each
\* says whether its record is readable.
Stamped ==
    \A x \in Freed..(Freed + Cap - 1) :
        seq[IndexOf(x)] = IF x < enqueue_pos /\ ~Unpublished(x) THEN x + 1 ELSE x

\* The consumer reads a published record.
ConsumerReads ==
    cpc \in {"unpack", "put", "reuse"} =>
        dequeue_pos < enqueue_pos /\ ~Unpublished(dequeue_pos)

RingInv == Bounded /\ HoldersApart /\ LoopKnows /\ Stamped /\ ConsumerReads

\* Which steps of a push hold a spill block, and when it has been filled.
BlockInv ==
    \A p \in Producers :
        /\ pc[p] \in {"idle", "scan"} => spill_index[p] = None
        /\ pc[p] = "copy" => spill_index[p] \in Blocks
        /\ pc[p] # "copy" /\ spill_index[p] # None =>
            spill_text[spill_index[p]] = Msg(p)

\* What the slots and the blocks contain: every reserved position has a message,
\* that of its producer until it is published; a packed slot is whole, and so is
\* one that waits, text included; the consumer gives back the block it read.
EveryReservedLogged == \A x \in Start..(enqueue_pos - 1) : log[x] \in Messages

HeldIsLogged == \A p \in Producers : Holds(p) => log[pos[p]] = Msg(p)

PackedIsWhole ==
    \A p \in Producers : pc[p] = "publish" =>
        record[IndexOf(pos[p])] = [msg |-> Msg(p), spill |-> spill_index[p]]

WaitingIsWhole ==
    \A x \in WaitingPositions :
        LET r == record[IndexOf(x)]
        IN  r.msg = log[x] /\ (r.spill # None => spill_text[r.spill] = log[x])

PutsWhatItRead ==
    cpc = "put" => popped.spill = record[IndexOf(dequeue_pos)].spill

ContentInv ==
    /\ EveryReservedLogged /\ HeldIsLogged /\ PackedIsWhole /\ WaitingIsWhole
    /\ PutsWhatItRead /\ DeliveredInOrder

\* What the log remembers: no message is logged twice or before its push began,
\* and one is logged exactly when its push holds a position or returned 1.
LoggedOnce ==
    \A x, y \in Start..(enqueue_pos - 1) : log[x] = log[y] => x = y

LoggedHasBegun ==
    \A x \in Start..(enqueue_pos - 1), p \in Producers, n \in 1..MaxCalls :
        log[x] = <<p, n>> => n <= calls[p]

LoggedIffAccepted ==
    \A p \in Producers : calls[p] > 0 =>
        ((\E x \in Start..(enqueue_pos - 1) : log[x] = Msg(p)) <=>
            Holds(p) \/ (pc[p] = "idle" /\ result[p] = "accepted"))

\* A published slot keeps its header until it is given back.
HeaderIsKept ==
    \A x \in Freed..(enqueue_pos - 1) :
        Unpublished(x) \/ record[IndexOf(x)].msg = log[x]

\* The observer's first load is never ahead of its second.
ObserverKnows ==
    \A o \in Observers :
        /\ odeq[o] = odeq0[o] /\ odeq0[o] <= enqueue_pos
        /\ opc[o] = "idle" => depth[o] <= enqueue_pos - odeq0[o]

HistoryInv ==
    /\ LoggedOnce /\ LoggedHasBegun /\ LoggedIffAccepted /\ HeaderIsKept
    /\ ObserverKnows

\* The conjunction is inductive.
IndInv ==
    /\ TypeOK /\ RingInv /\ BlockInv /\ SpillBlocksOwned /\ ContentInv
    /\ HistoryInv
==============================================================================
