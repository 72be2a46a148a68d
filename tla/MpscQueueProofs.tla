--------------------------- MODULE MpscQueueProofs ---------------------------
(***************************************************************************)
(* Proofs about MpscQueue for every number of producers and observers,     *)
(* every capacity and every width of size_t that the assumptions allow.    *)
(* First the ring's bookkeeping, which says who may touch a slot; then it  *)
(* is carried on to what the consumer finds there: the whole inductive     *)
(* invariant IndInv, the delivery in order, the ownership of the blocks,   *)
(* what a push and logger_queue_depth report, and the bounded FIFO.        *)
(***************************************************************************)
EXTENDS MpscQueue, TLAPS

-----------------------------------------------------------------------------
(* Division and remainder by a variable divisor.                           *)

\* Quotient and remainder recompose their dividend.
LEMMA DivMod ==
  ASSUME NEW a \in Int, NEW c \in Nat \ {0}
  PROVE  /\ a % c \in 0..(c - 1)
         /\ a \div c \in Int
         /\ a = c * (a \div c) + (a % c)
  OBVIOUS

\* A multiple of c that lies strictly between -c and c is zero.
LEMMA SmallMultiple ==
  ASSUME NEW c \in Nat \ {0}, NEW k \in Int, c * k < c, c * (-k) < c
  PROVE  k = 0
<1>1. ~(k >= 1)
  <2>1. SUFFICES ASSUME k >= 1 PROVE FALSE
    OBVIOUS
  <2>2. c * k >= c
    BY <2>1
  <2>3. QED
    BY <2>2
<1>2. ~(-k >= 1)
  <2>1. SUFFICES ASSUME -k >= 1 PROVE FALSE
    OBVIOUS
  <2>2. c * (-k) >= c
    BY <2>1
  <2>3. QED
    BY <2>2
<1>3. QED
  BY <1>1, <1>2

\* A decomposition into quotient and remainder is the only one.
LEMMA ModIs ==
  ASSUME NEW a \in Int, NEW c \in Nat \ {0}, NEW q \in Int,
         NEW r \in 0..(c - 1), a = c * q + r
  PROVE  a % c = r
<1> DEFINE m == a % c
           d == a \div c
<1>1. m \in 0..(c - 1) /\ d \in Int /\ a = c * d + m
  BY DivMod
<1> HIDE DEF m, d
<1>2. c * (d - q) < c /\ c * (-(d - q)) < c
  BY <1>1
<1>3. d - q = 0
  BY <1>1, <1>2, SmallMultiple
<1>4. m = r
  BY <1>1, <1>3
<1>5. QED
  BY <1>4 DEF m

\* Two numbers less than c apart with equal remainders are equal.
LEMMA ModInjective ==
  ASSUME NEW c \in Nat \ {0}, NEW a \in Int, NEW b \in Int,
         a % c = b % c, a - b < c, b - a < c
  PROVE  a = b
<1> DEFINE m == a % c
           d == a \div c
           e == b \div c
<1>1. m \in 0..(c - 1) /\ d \in Int /\ a = c * d + m
  BY DivMod
<1>2. e \in Int /\ b = c * e + m
  BY DivMod
<1> HIDE DEF m, d, e
<1>3. c * (d - e) < c /\ c * (-(d - e)) < c
  BY <1>1, <1>2
<1>4. d - e = 0
  BY <1>1, <1>2, <1>3, SmallMultiple
<1>5. QED
  BY <1>1, <1>2, <1>4

\* Adding the divisor keeps the remainder.
LEMMA ModShift ==
  ASSUME NEW a \in Int, NEW c \in Nat \ {0}
  PROVE  (a + c) % c = a % c
<1> DEFINE m == a % c
           d == a \div c
<1>1. m \in 0..(c - 1) /\ d \in Int /\ a = c * d + m
  BY DivMod
<1> HIDE DEF m, d
<1>2. a + c = c * (d + 1) + m
  BY <1>1
<1>3. (a + c) % c = m
  BY <1>1, <1>2, ModIs
<1>4. QED
  BY <1>3 DEF m

\* c consecutive numbers have every remainder.
LEMMA ModCovers ==
  ASSUME NEW c \in Nat \ {0}, NEW f \in Int, NEW i \in 0..(c - 1)
  PROVE  \E x \in f..(f + c - 1) : x % c = i
<1> DEFINE m == f % c
           d == f \div c
<1>1. m \in 0..(c - 1) /\ d \in Int /\ f = c * d + m
  BY DivMod
<1> HIDE DEF m, d
<1>2. CASE i >= m
  <2>1. c * d + i \in f..(f + c - 1)
    BY <1>1, <1>2
  <2>2. (c * d + i) % c = i
    BY <1>1, ModIs
  <2>3. QED
    BY <2>1, <2>2
<1>3. CASE i < m
  <2>1. c * (d + 1) = c * d + c
    BY <1>1
  <2>2. c * (d + 1) + i \in f..(f + c - 1)
    BY <1>1, <1>3, <2>1
  <2>3. (c * (d + 1) + i) % c = i
    BY <1>1, ModIs
  <2>4. QED
    BY <2>2, <2>3
<1>4. QED
  BY <1>1, <1>2, <1>3

\* The remainder of a number strictly between -c and c.
LEMMA ModSmall ==
  ASSUME NEW c \in Nat \ {0}, NEW x \in Int, x < c, -c < x
  PROVE  x % c = IF x >= 0 THEN x ELSE x + c
<1>1. CASE x >= 0
  <2>1. x = c * 0 + x /\ x \in 0..(c - 1)
    BY <1>1
  <2>2. QED
    BY <2>1, ModIs, <1>1
<1>2. CASE x < 0
  <2>1. x = c * (-1) + (x + c) /\ x + c \in 0..(c - 1)
    BY <1>2
  <2>2. x % c = x + c
    BY <2>1, ModIs
  <2>3. QED
    BY <2>2, <1>2
<1>3. QED
  BY <1>1, <1>2

\* A multiple of c may be reduced away before the remainder by c is taken.
LEMMA ModMod ==
  ASSUME NEW c \in Nat \ {0}, NEW m \in Nat \ {0}, m % c = 0, NEW a \in Int
  PROVE  (a % m) % c = a % c
<1> DEFINE r == a % m
           d == a \div m
           k == m \div c
           s == r % c
           e == r \div c
<1>1. r \in 0..(m - 1) /\ d \in Int /\ a = m * d + r
  BY DivMod
<1>2. k \in Int /\ m = c * k + (m % c)
  BY DivMod
<1>3. m = c * k
  BY <1>2
<1>4. r \in Int
  BY <1>1
<1>5. s \in 0..(c - 1) /\ e \in Int /\ r = c * e + s
  BY <1>4, DivMod
<1> HIDE DEF r, d, k, s, e
<1>6. m * d = c * (k * d)
  BY <1>1, <1>2, <1>3
<1>7. a = c * (k * d + e) + s
  BY <1>1, <1>2, <1>5, <1>6
<1>8. k * d + e \in Int
  BY <1>1, <1>2, <1>5
<1>9. a % c = s
  BY <1>5, <1>7, <1>8, ModIs
<1>10. QED
  BY <1>9 DEF s, r

-----------------------------------------------------------------------------
(* The index and the comparisons of wrapped positions.                     *)

\* pos & mask is unaffected by the wrap: consecutive positions use
\* consecutive slots, also across SIZE_MAX.
LEMMA IndexOfIs ==
  ASSUME NEW x \in Int
  PROVE  IndexOf(x) = x % Cap
<1>1. Cap \in Nat \ {0} /\ PosMod \in Nat \ {0} /\ PosMod % Cap = 0
  BY CapAssumption, WindowAssumption
<1>2. (x % PosMod) % Cap = x % Cap
  BY <1>1, ModMod
<1>3. QED
  BY <1>2 DEF IndexOf

\* An index names a slot.
LEMMA IndexType ==
  ASSUME NEW x \in Int
  PROVE  IndexOf(x) \in Slots
<1>1. IndexOf(x) = x % Cap
  BY IndexOfIs
<1>2. x % Cap \in 0..(Cap - 1)
  BY DivMod, CapAssumption
<1>3. QED
  BY <1>1, <1>2 DEF Slots

\* Positions less than Cap apart have different slots.
LEMMA IndexInjective ==
  ASSUME NEW x \in Int, NEW y \in Int, x - y < Cap, y - x < Cap,
         IndexOf(x) = IndexOf(y)
  PROVE  x = y
<1>1. Cap \in Nat \ {0}
  BY CapAssumption
<1>2. x % Cap = y % Cap
  BY IndexOfIs
<1>3. QED
  BY <1>1, <1>2, ModInjective

\* A lap later, the same slot.
LEMMA IndexShift ==
  ASSUME NEW x \in Int
  PROVE  IndexOf(x + Cap) = IndexOf(x)
<1>1. Cap \in Nat \ {0}
  BY CapAssumption
<1>2. x + Cap \in Int
  BY <1>1
<1>3. IndexOf(x) = x % Cap /\ IndexOf(x + Cap) = (x + Cap) % Cap
  BY <1>2, IndexOfIs
<1>4. QED
  BY <1>1, <1>3, ModShift

\* Cap consecutive positions use every slot.
LEMMA IndexCovers ==
  ASSUME NEW f \in Int, NEW i \in Slots
  PROVE  \E x \in f..(f + Cap - 1) : IndexOf(x) = i
<1>1. Cap \in Nat \ {0}
  BY CapAssumption
<1>2. PICK x \in f..(f + Cap - 1) : x % Cap = i
  BY <1>1, ModCovers DEF Slots
<1>3. x \in Int /\ IndexOf(x) = i
  BY <1>1, <1>2, IndexOfIs
<1>4. QED
  BY <1>2, <1>3

\* Within half the range of size_t the wrapped comparisons are the real ones.
LEMMA CompareIs ==
  ASSUME NEW a \in Int, NEW b \in Int,
         2 * (a - b) < PosMod, 2 * (b - a) < PosMod
  PROVE  /\ SamePos(a, b) <=> a = b
         /\ IsBehind(a, b) <=> a < b
<1>1. PosMod \in Nat \ {0} /\ PosMod % 2 = 0
  BY CapAssumption, WindowAssumption
<1>2. a - b \in Int /\ a - b < PosMod /\ -PosMod < a - b
  BY <1>1
<1>3. (a - b) % PosMod = IF a - b >= 0 THEN a - b ELSE a - b + PosMod
  BY <1>1, <1>2, ModSmall
<1>4. (a - b) % PosMod = 0 <=> a = b
  BY <1>1, <1>2, <1>3
<1>5. (a - b) % PosMod > (PosMod - 1) \div 2 <=> a < b
  BY <1>1, <1>2, <1>3
<1>6. QED
  BY <1>4, <1>5 DEF SamePos, IsBehind

-----------------------------------------------------------------------------
(* Types                                                                   *)

\* Freed is a position.
LEMMA FreedType ==
  ASSUME TypeOK
  PROVE  Freed \in Nat /\ enqueue_pos \in Nat /\ dequeue_pos \in Nat
  BY BoundsAssumption DEF TypeOK, RingTypeOK, Freed

\* The wrapped difference is clamped to the capacity.
LEMMA ClampedType ==
  ASSUME NEW a \in Nat, NEW b \in Nat
  PROVE  Clamped(a, b) \in 0..Cap
<1>1. (a - b) % PosMod \in 0..(PosMod - 1)
  BY DivMod, CapAssumption, WindowAssumption
<1>2. QED
  BY <1>1, CapAssumption DEF Clamped

\* The pool has blocks, in a whole number of words.
LEMMA PoolSize == SpillCap \in Nat \ {0} /\ SpillWords \in Nat
<1>1. SpillCap \in Nat \ {0}
  BY CapAssumption, PoolAssumption DEF SpillCap
<1>2. SpillCap + WordBits - 1 \in Nat /\ WordBits \in Nat \ {0}
  BY <1>1, PoolAssumption
<1>3. (SpillCap + WordBits - 1) \div WordBits \in Nat
  BY <1>2
<1>4. QED
  BY <1>1, <1>3 DEF SpillWords

\* A producer inside a push has a message.
LEMMA MsgType ==
  ASSUME ProducerTypeOK, NEW p \in Producers, pc[p] # "idle"
  PROVE  Msg(p) \in Messages
  BY BoundsAssumption DEF ProducerTypeOK, Msg, Messages

\* A step of a push that leaves ring, pool and log alone.
LEMMA TypeLocal ==
  ASSUME TypeOK, ProducerTypeOK', UNCHANGED <<ringVars, poolVars, consumerVars,
                                             observerVars, log>>
  PROVE  TypeOK'
  BY DEF TypeOK, RingTypeOK, PoolTypeOK, ConsumerTypeOK, ObserverTypeOK,
     ringVars, poolVars, consumerVars, observerVars

\* The steps of a push keep the types.
LEMMA TypePush ==
  ASSUME TypeOK, NEW p \in Producers, Push(p)
  PROVE  TypeOK'
<1> USE BoundsAssumption
<1>1. CASE Begin(p)
  <2>1. \A start \in 0..(SpillWords - 1) : [start |-> start, n |-> 0] \in [start : Nat, n : Nat]
    BY PoolSize
  <2>2. probe' \in [Producers -> [start : Nat, n : Nat]]
    BY <1>1, <2>1 DEF TypeOK, ProducerTypeOK, Begin
  <2>3. \E step \in ProducerSteps : pc' = [pc EXCEPT ![p] = step]
    BY <1>1 DEF Begin, Goto, Return, ProducerSteps
  <2>4. \E r \in Results : result' = [result EXCEPT ![p] = r]
    BY <1>1 DEF Begin, Return, Results
  <2>5. ProducerTypeOK'
    BY <1>1, <2>2, <2>3, <2>4 DEF TypeOK, ProducerTypeOK, Begin
  <2>6. QED
    BY <1>1, <2>5, TypeLocal DEF Begin
<1>2. CASE SpillTake(p)
  <2>1. FreeIn(ProbedWord(p)) \subseteq Blocks
    BY DEF FreeIn, BlocksOfWord
  <2>2. ProducerTypeOK'
    BY <1>2, <2>1 DEF TypeOK, ProducerTypeOK, ProducerSteps, SpillTake, Goto
  <2>3. PoolTypeOK'
    BY <1>2, <2>1 DEF TypeOK, PoolTypeOK, SpillTake
  <2>4. QED
    BY <1>2, <2>2, <2>3 DEF SpillTake, TypeOK, RingTypeOK, ConsumerTypeOK,
       ObserverTypeOK, ringVars, consumerVars, observerVars
<1>3. CASE SpillNextWord(p)
  <2>1. ProducerTypeOK'
    BY <1>3 DEF TypeOK, ProducerTypeOK, SpillNextWord
  <2>2. QED
    BY <1>3, <2>1, TypeLocal DEF SpillNextWord
<1>4. CASE SpillExhausted(p)
  <2>1. ProducerTypeOK'
    BY <1>4 DEF TypeOK, ProducerTypeOK, ProducerSteps, Results, SpillExhausted,
       Return, Goto
  <2>2. PoolTypeOK'
    BY <1>4 DEF TypeOK, PoolTypeOK, SpillExhausted
  <2>3. QED
    BY <1>4, <2>1, <2>2 DEF SpillExhausted, TypeOK, RingTypeOK, ConsumerTypeOK,
       ObserverTypeOK, ringVars, consumerVars, observerVars
<1>5. CASE SpillCopy(p)
  <2>1. Msg(p) \in Messages
    BY <1>5, MsgType DEF SpillCopy, Goto, TypeOK
  <2>2. ProducerTypeOK'
    BY <1>5 DEF TypeOK, ProducerTypeOK, ProducerSteps, SpillCopy, Goto
  <2>3. PoolTypeOK'
    BY <1>5, <2>1 DEF TypeOK, PoolTypeOK, SpillCopy
  <2>4. QED
    BY <1>5, <2>2, <2>3 DEF SpillCopy, TypeOK, RingTypeOK, ConsumerTypeOK,
       ObserverTypeOK, ringVars, consumerVars, observerVars
<1>6. CASE LoadPos(p)
  <2>1. ProducerTypeOK'
    BY <1>6 DEF TypeOK, ProducerTypeOK, RingTypeOK, ProducerSteps, LoadPos, Goto
  <2>2. QED
    BY <1>6, <2>1, TypeLocal DEF LoadPos
<1>7. CASE CheckFree(p)
  <2>1. ProducerTypeOK'
    BY <1>7 DEF TypeOK, ProducerTypeOK, ProducerSteps, CheckFree, Goto
  <2>2. QED
    BY <1>7, <2>1, TypeLocal DEF CheckFree
<1>8. CASE CheckFull(p)
  <2>1. ProducerTypeOK'
    BY <1>8 DEF TypeOK, ProducerTypeOK, ProducerSteps, CheckFull, Goto
  <2>2. QED
    BY <1>8, <2>1, TypeLocal DEF CheckFull
<1>9. CASE CheckStale(p)
  <2>1. ProducerTypeOK'
    BY <1>9 DEF TypeOK, ProducerTypeOK, ProducerSteps, CheckStale, Goto
  <2>2. QED
    BY <1>9, <2>1, TypeLocal DEF CheckStale
<1>10. CASE Reject(p)
  <2>1. ProducerTypeOK'
    BY <1>10 DEF TypeOK, ProducerTypeOK, ProducerSteps, Results, Reject,
       Return, Goto
  <2>2. PoolTypeOK'
    BY <1>10 DEF TypeOK, PoolTypeOK, Reject
  <2>3. QED
    BY <1>10, <2>1, <2>2 DEF Reject, TypeOK, RingTypeOK, ConsumerTypeOK,
       ObserverTypeOK, ringVars, consumerVars, observerVars
<1>11. CASE Reserve(p)
  <2>1. Msg(p) \in Messages
    BY <1>11, MsgType DEF Reserve, Goto, TypeOK
  <2>2. ProducerTypeOK'
    BY <1>11 DEF TypeOK, ProducerTypeOK, ProducerSteps, Reserve, Goto
  <2>3. RingTypeOK'
    BY <1>11 DEF TypeOK, RingTypeOK, Reserve
  <2>4. log' \in [Positions -> Messages \cup {None}]
    BY <1>11, <2>1 DEF TypeOK, RingTypeOK, Reserve, Positions
  <2>5. QED
    BY <1>11, <2>2, <2>3, <2>4 DEF Reserve, TypeOK, PoolTypeOK, ConsumerTypeOK,
       ObserverTypeOK, poolVars, consumerVars, observerVars
<1>12. CASE ReserveFails(p)
  <2>1. ProducerTypeOK'
    BY <1>12 DEF TypeOK, ProducerTypeOK, RingTypeOK, ProducerSteps,
       ReserveFails, Goto
  <2>2. QED
    BY <1>12, <2>1, TypeLocal DEF ReserveFails
<1>13. CASE Pack(p)
  <2>1. Msg(p) \in Messages
    BY <1>13, MsgType DEF Pack, Goto, TypeOK
  <2>2. ProducerTypeOK'
    BY <1>13 DEF TypeOK, ProducerTypeOK, ProducerSteps, Pack, Goto
  <2>3. [msg |-> Msg(p), spill |-> spill_index[p]] \in Records
    BY <2>1 DEF Records, TypeOK, ProducerTypeOK
  <2>4. RingTypeOK'
    BY <1>13, <2>3 DEF TypeOK, RingTypeOK, Pack
  <2>5. QED
    BY <1>13, <2>2, <2>4 DEF Pack, TypeOK, PoolTypeOK, ConsumerTypeOK,
       ObserverTypeOK, poolVars, consumerVars, observerVars
<1>14. CASE Publish(p)
  <2>1. ProducerTypeOK'
    BY <1>14 DEF TypeOK, ProducerTypeOK, ProducerSteps, Results, Publish,
       Return, Goto
  <2>2. pos[p] + 1 \in Nat
    BY DEF TypeOK, ProducerTypeOK
  <2>3. RingTypeOK'
    BY <1>14, <2>2 DEF TypeOK, RingTypeOK, Publish
  <2>4. QED
    BY <1>14, <2>1, <2>3 DEF Publish, TypeOK, PoolTypeOK, ConsumerTypeOK,
       ObserverTypeOK, poolVars, consumerVars, observerVars
<1>15. QED
  BY <1>1, <1>2, <1>3, <1>4, <1>5, <1>6, <1>7, <1>8, <1>9, <1>10, <1>11,
     <1>12, <1>13, <1>14 DEF Push

\* The steps of a pop keep the types.
LEMMA TypePop ==
  ASSUME TypeOK, RingInv, Pop
  PROVE  TypeOK'
<1> USE BoundsAssumption, CapAssumption
<1>1. dequeue_pos \in Nat /\ IndexOf(dequeue_pos) \in Slots
  BY IndexType DEF TypeOK, RingTypeOK
<1>2. CASE Test
  BY <1>2 DEF Test, TypeOK, RingTypeOK, PoolTypeOK, ProducerTypeOK,
     ConsumerTypeOK, ConsumerSteps, ObserverTypeOK, ringVars, poolVars,
     producerVars, observerVars
<1>3. CASE Unpack
  <2>1. record[IndexOf(dequeue_pos)] \in Records
    BY <1>1 DEF TypeOK, RingTypeOK
  <2>2. ConsumerTypeOK'
    BY <1>3, <2>1 DEF Unpack, TypeOK, ConsumerTypeOK, PoolTypeOK, ConsumerSteps,
       PoppedMessages, Records
  <2>3. QED
    BY <1>3, <2>2 DEF Unpack, TypeOK, RingTypeOK, PoolTypeOK, ProducerTypeOK,
       ObserverTypeOK, ringVars, poolVars, producerVars, observerVars
<1>4. CASE PutBlock
  BY <1>4 DEF PutBlock, TypeOK, RingTypeOK, PoolTypeOK, ProducerTypeOK,
     ConsumerTypeOK, ConsumerSteps, ObserverTypeOK, ringVars, producerVars,
     observerVars
<1>5. CASE Reuse
  <2>1. RingTypeOK'
    BY <1>1, <1>5 DEF Reuse, TypeOK, RingTypeOK
  <2>2. QED
    BY <1>5, <2>1 DEF Reuse, TypeOK, PoolTypeOK, ProducerTypeOK,
       ConsumerTypeOK, ConsumerSteps, ObserverTypeOK, poolVars, producerVars,
       observerVars
<1>6. CASE Advance
  <2>1. dequeue_pos + 1 <= enqueue_pos
    BY <1>6 DEF Advance, RingInv, Bounded, Freed
  <2>2. RingTypeOK'
    BY <1>1, <1>6, <2>1 DEF Advance, TypeOK, RingTypeOK
  <2>3. QED
    BY <1>6, <2>2 DEF Advance, TypeOK, PoolTypeOK, ProducerTypeOK,
       ConsumerTypeOK, ConsumerSteps, ObserverTypeOK, poolVars, producerVars,
       observerVars
<1>7. QED
  BY <1>2, <1>3, <1>4, <1>5, <1>6 DEF Pop

\* The steps of logger_queue_depth keep the types.
LEMMA TypeDepth ==
  ASSUME TypeOK, NEW o \in Observers, Depth(o)
  PROVE  TypeOK'
<1> USE BoundsAssumption
<1>1. Clamped(enqueue_pos, odeq[o]) \in 0..Cap
  <2>1. enqueue_pos \in Nat /\ odeq[o] \in Nat
    BY DEF TypeOK, RingTypeOK, ObserverTypeOK
  <2>2. QED
    BY <2>1, ClampedType
<1>2. ObserverTypeOK'
  <2>1. CASE DepthFirstLoad(o)
    BY <2>1 DEF DepthFirstLoad, TypeOK, RingTypeOK, ObserverTypeOK
  <2>2. CASE DepthSecondLoad(o)
    BY <1>1, <2>2 DEF DepthSecondLoad, TypeOK, ObserverTypeOK
  <2>3. QED
    BY <2>1, <2>2 DEF Depth
<1>3. UNCHANGED <<ringVars, poolVars, producerVars, consumerVars, log>>
  BY DEF Depth, DepthFirstLoad, DepthSecondLoad
<1>4. QED
  BY <1>2, <1>3 DEF TypeOK, RingTypeOK, PoolTypeOK, ProducerTypeOK,
     ConsumerTypeOK, ringVars, poolVars, producerVars, consumerVars

-----------------------------------------------------------------------------
(* The ring                                                                *)

\* The numbers the ring is made of.
LEMMA Numbers ==
  ASSUME TypeOK
  PROVE  /\ Freed \in Nat /\ enqueue_pos \in Nat /\ dequeue_pos \in Nat
         /\ Cap \in Nat /\ Cap >= 2
         /\ \A p \in Producers : pos[p] \in Nat
         /\ \A x \in Int : IndexOf(x) \in Slots /\ seq[IndexOf(x)] \in Nat
<1>1. \A x \in Int : IndexOf(x) \in Slots
  BY IndexType
<1>2. QED
  BY <1>1, FreedType, CapAssumption, BoundsAssumption
  DEF TypeOK, RingTypeOK, ProducerTypeOK

\* Every sequence number lies in the lap that begins at Freed.
LEMMA SeqInLap ==
  ASSUME TypeOK, RingInv, NEW i \in Slots
  PROVE  seq[i] \in Freed..(Freed + Cap)
<1>1. PICK x \in Freed..(Freed + Cap - 1) : IndexOf(x) = i
  BY Numbers, IndexCovers
<1>2. seq[i] = x \/ seq[i] = x + 1
  BY <1>1 DEF RingInv, Stamped
<1>3. QED
  BY <1>1, <1>2, Numbers

\* A producer's wrapped comparison of a slot with its position is exact.
LEMMA LoopCompares ==
  ASSUME TypeOK, RingInv, NEW p \in Producers, pc[p] \in {"check", "cas"}
  PROVE  LET s == seq[IndexOf(pos[p])]
         IN  /\ s \in Freed..(Freed + Cap)
             /\ SamePos(s, pos[p]) <=> s = pos[p]
             /\ IsBehind(s, pos[p]) <=> s < pos[p]
<1> DEFINE s == seq[IndexOf(pos[p])]
<1>1. s \in Freed..(Freed + Cap)
  BY Numbers, SeqInLap
<1>2. pos[p] <= enqueue_pos /\ enqueue_pos - pos[p] <= StallWindow
  BY DEF RingInv, LoopKnows
<1>3. Freed <= enqueue_pos /\ enqueue_pos <= Freed + Cap
  BY DEF RingInv, Bounded
<1> HIDE DEF s
<1>4. s \in Int /\ pos[p] \in Int /\ 2 * (s - pos[p]) < PosMod /\ 2 * (pos[p] - s) < PosMod
  BY <1>1, <1>2, <1>3, Numbers, WindowAssumption, CapAssumption
<1>5. /\ SamePos(s, pos[p]) <=> s = pos[p]
      /\ IsBehind(s, pos[p]) <=> s < pos[p]
  BY <1>4, CompareIs
<1>6. QED
  BY <1>1, <1>5 DEF s

\* The test of the sequence number is sound: a slot found free is not taken.
LEMMA FreeMeansFree ==
  ASSUME TypeOK, RingInv, NEW p \in Producers, pc[p] = "check",
         SamePos(seq[IndexOf(pos[p])], pos[p])
  PROVE  pos[p] < Freed + Cap
<1>1. seq[IndexOf(pos[p])] = pos[p] /\ pos[p] \in Freed..(Freed + Cap)
  BY LoopCompares
<1>2. SUFFICES ASSUME pos[p] = Freed + Cap PROVE FALSE
  BY <1>1, Numbers
<1>3. IndexOf(pos[p]) = IndexOf(Freed)
  BY <1>2, Numbers, IndexShift
<1>4. seq[IndexOf(Freed)] = Freed \/ seq[IndexOf(Freed)] = Freed + 1
  <2>1. Freed \in Freed..(Freed + Cap - 1)
    BY Numbers
  <2>2. QED
    BY <2>1 DEF RingInv, Stamped
<1>5. QED
  BY <1>1, <1>2, <1>3, <1>4, Numbers

\* A slot found behind means a full ring.
LEMMA BehindMeansFull ==
  ASSUME TypeOK, RingInv, NEW p \in Producers, pc[p] = "check",
         IsBehind(seq[IndexOf(pos[p])], pos[p])
  PROVE  enqueue_pos - Freed >= Cap
<1>1. seq[IndexOf(pos[p])] < pos[p] /\ seq[IndexOf(pos[p])] >= Freed
  BY LoopCompares, Numbers
<1>2. pos[p] <= enqueue_pos /\ enqueue_pos <= Freed + Cap
  BY DEF RingInv, LoopKnows, Bounded
<1>3. SUFFICES ASSUME pos[p] < Freed + Cap PROVE FALSE
  BY <1>2, Numbers
<1>4. pos[p] \in Freed..(Freed + Cap - 1)
  BY <1>1, <1>3, Numbers
<1>5. seq[IndexOf(pos[p])] >= pos[p]
  BY <1>4, Numbers DEF RingInv, Stamped
<1>6. QED
  BY <1>1, <1>5, Numbers

\* Steps of a push outside reservation, packing and publication.
LEMMA RingQuiet ==
  ASSUME TypeOK, RingInv, NEW p \in Producers, NEW step \in ProducerSteps,
         pc[p] \notin {"pack", "publish"}, step \notin {"pack", "publish"},
         pc' = [pc EXCEPT ![p] = step],
         UNCHANGED <<enqueue_pos, dequeue_pos, seq, cpc>>,
         \/ pos' = pos
         \/ pos' = [pos EXCEPT ![p] = enqueue_pos],
         step = "check" => pos' = [pos EXCEPT ![p] = enqueue_pos],
         step = "cas" => pos' = pos /\ pc[p] = "check" /\ pos[p] < Freed + Cap
  PROVE  RingInv'
<1> USE Numbers
<1>1. Freed' = Freed
  BY DEF Freed
<1>2. \A q \in Producers : /\ Holds(q)' <=> Holds(q)
                           /\ Holds(q) => pos'[q] = pos[q]
  BY DEF Holds, TypeOK, ProducerTypeOK
<1>3. \A x : Unpublished(x)' <=> Unpublished(x)
  BY <1>2 DEF Unpublished
<1>4. Bounded'
  BY <1>1 DEF RingInv, Bounded
<1>5. HoldersApart'
  BY <1>1, <1>2 DEF RingInv, HoldersApart
<1>6. LoopKnows'
  BY <1>1, WindowAssumption DEF RingInv, LoopKnows, TypeOK, ProducerTypeOK
<1>7. Stamped'
  BY <1>1, <1>3 DEF RingInv, Stamped
<1>8. ConsumerReads'
  BY <1>3 DEF RingInv, ConsumerReads
<1>9. QED
  BY <1>4, <1>5, <1>6, <1>7, <1>8 DEF RingInv

\* The reservation takes a free slot.
LEMMA RingReserve ==
  ASSUME TypeOK, RingInv, NEW p \in Producers, Reserve(p)
  PROVE  RingInv'
<1> USE Numbers
<1>1. pos[p] <= enqueue_pos /\ enqueue_pos - pos[p] <= StallWindow
      /\ pos[p] < Freed + Cap
  BY DEF Reserve, Goto, RingInv, LoopKnows
<1>2. pos[p] = enqueue_pos
  <2>1. 2 * (enqueue_pos - pos[p]) < PosMod /\ 2 * (pos[p] - enqueue_pos) < PosMod
    BY <1>1, WindowAssumption, CapAssumption
  <2>2. SamePos(enqueue_pos, pos[p]) <=> enqueue_pos = pos[p]
    BY <2>1, CompareIs
  <2>3. QED
    BY <2>2 DEF Reserve
<1>3. Freed' = Freed /\ enqueue_pos' = enqueue_pos + 1
  BY DEF Reserve, Freed, consumerVars
<1>4. /\ \A q \in Producers : Holds(q)' <=> Holds(q) \/ q = p
      /\ ~Holds(p) /\ pos' = pos
  BY DEF Holds, Reserve, Goto, TypeOK, ProducerTypeOK
<1>5. \A x : Unpublished(x)' <=> Unpublished(x) \/ x = enqueue_pos
  BY <1>2, <1>4 DEF Unpublished
<1>6. ~Unpublished(enqueue_pos)
  BY DEF Unpublished, RingInv, HoldersApart
<1>7. Bounded'
  BY <1>1, <1>2, <1>3 DEF RingInv, Bounded
<1>8. HoldersApart'
  BY <1>2, <1>3, <1>4 DEF RingInv, HoldersApart, Bounded
<1>9. LoopKnows'
  BY <1>3, WindowAssumption DEF RingInv, LoopKnows, Reserve, Goto, TypeOK,
     ProducerTypeOK
<1>10. Stamped'
  BY <1>3, <1>5, <1>6 DEF RingInv, Stamped, Reserve
<1>11. ConsumerReads'
  BY <1>3, <1>5 DEF RingInv, ConsumerReads, Reserve, consumerVars
<1>12. QED
  BY <1>7, <1>8, <1>9, <1>10, <1>11 DEF RingInv

\* Packing leaves the ring's bookkeeping alone.
LEMMA RingPack ==
  ASSUME TypeOK, RingInv, NEW p \in Producers, Pack(p)
  PROVE  RingInv'
<1> USE Numbers
<1>1. /\ \A q \in Producers : Holds(q)' <=> Holds(q)
      /\ pos' = pos /\ Freed' = Freed
      /\ UNCHANGED <<enqueue_pos, dequeue_pos, seq, cpc>>
  BY DEF Holds, Freed, Pack, Goto, TypeOK, ProducerTypeOK, consumerVars
<1>2. \A x : Unpublished(x)' <=> Unpublished(x)
  BY <1>1 DEF Unpublished
<1>3. LoopKnows'
  BY <1>1 DEF RingInv, LoopKnows, Pack, Goto, TypeOK, ProducerTypeOK
<1>4. QED
  BY <1>1, <1>2, <1>3 DEF RingInv, Bounded, HoldersApart, Stamped, ConsumerReads

\* The publication stamps the slot of its own position and no other.
LEMMA RingPublish ==
  ASSUME TypeOK, RingInv, NEW p \in Producers, Publish(p)
  PROVE  RingInv'
<1> USE Numbers
<1>1. /\ \A q \in Producers : Holds(q)' <=> Holds(q) /\ q # p
      /\ Holds(p)
      /\ pos' = pos /\ Freed' = Freed
      /\ UNCHANGED <<enqueue_pos, dequeue_pos, cpc>>
  BY DEF Holds, Freed, Publish, Return, Goto, TypeOK, ProducerTypeOK, consumerVars
<1>2. pos[p] \in Freed..(enqueue_pos - 1)
  BY <1>1 DEF RingInv, HoldersApart
<1>3. \A x : Unpublished(x)' <=> Unpublished(x) /\ x # pos[p]
  BY <1>1 DEF Unpublished, RingInv, HoldersApart
<1>4. HoldersApart'
  BY <1>1 DEF RingInv, HoldersApart
<1>5. LoopKnows'
  BY <1>1 DEF RingInv, LoopKnows, Publish, Return, Goto, TypeOK, ProducerTypeOK
<1>6. Stamped'
  <2>1. SUFFICES ASSUME NEW x \in Freed..(Freed + Cap - 1)
                 PROVE  seq'[IndexOf(x)] =
                          IF x < enqueue_pos /\ ~Unpublished(x)' THEN x + 1 ELSE x
    BY <1>1 DEF Stamped
  <2>2. CASE x = pos[p]
    <3>1. seq'[IndexOf(x)] = x + 1
      BY <2>2 DEF Publish, TypeOK, RingTypeOK
    <3>2. QED
      BY <1>2, <1>3, <2>2, <3>1
  <2>3. CASE x # pos[p]
    <3>1. IndexOf(x) # IndexOf(pos[p])
      <4>1. x \in Int /\ pos[p] \in Int /\ x - pos[p] < Cap /\ pos[p] - x < Cap
        BY <1>2 DEF RingInv, Bounded
      <4>2. QED
        BY <2>3, <4>1, IndexInjective
    <3>2. seq'[IndexOf(x)] = seq[IndexOf(x)]
      BY <3>1 DEF Publish, TypeOK, RingTypeOK
    <3>3. QED
      BY <1>3, <2>3, <3>2 DEF RingInv, Stamped
  <2>4. QED
    BY <2>2, <2>3
<1>7. ConsumerReads'
  BY <1>1, <1>3 DEF RingInv, ConsumerReads
<1>8. QED
  BY <1>1, <1>4, <1>5, <1>6, <1>7 DEF RingInv, Bounded

\* The steps of a pop.
LEMMA RingPop ==
  ASSUME TypeOK, RingInv, Pop
  PROVE  RingInv'
<1> USE Numbers
<1>1. pc' = pc /\ pos' = pos /\ enqueue_pos' = enqueue_pos
  BY DEF Pop, Test, Unpack, PutBlock, Reuse, Advance, producerVars, ringVars
<1>2. /\ \A q \in Producers : Holds(q)' <=> Holds(q)
      /\ \A x : Unpublished(x)' <=> Unpublished(x)
  BY <1>1 DEF Holds, Unpublished
<1>3. CASE Test
  <2>1. Freed = dequeue_pos /\ Freed' = Freed /\ UNCHANGED <<dequeue_pos, seq>>
    BY <1>3 DEF Test, Freed, ringVars
  <2>2. seq[IndexOf(dequeue_pos)] = dequeue_pos + 1
    <3>1. seq[IndexOf(dequeue_pos)] \in Freed..(Freed + Cap)
      BY SeqInLap
    <3>2. SamePos(seq[IndexOf(dequeue_pos)], dequeue_pos + 1)
          <=> seq[IndexOf(dequeue_pos)] = dequeue_pos + 1
      <4>1. /\ 2 * (seq[IndexOf(dequeue_pos)] - (dequeue_pos + 1)) < PosMod
            /\ 2 * ((dequeue_pos + 1) - seq[IndexOf(dequeue_pos)]) < PosMod
        BY <2>1, <3>1, WindowAssumption, CapAssumption
      <4>2. QED
        BY <4>1, CompareIs
    <3>3. QED
      BY <1>3, <3>2 DEF Test, Published
  <2>3. dequeue_pos < enqueue_pos /\ ~Unpublished(dequeue_pos)
    <3>1. dequeue_pos \in Freed..(Freed + Cap - 1)
      BY <2>1
    <3>2. QED
      BY <2>2, <3>1 DEF RingInv, Stamped
  <2>4. QED
    BY <1>1, <1>2, <2>1, <2>3 DEF RingInv, Bounded, HoldersApart, LoopKnows,
       Stamped, ConsumerReads
<1>4. CASE Unpack \/ PutBlock
  <2>1. /\ cpc \in {"unpack", "put"} /\ cpc' \in {"put", "reuse"}
        /\ Freed' = Freed /\ UNCHANGED <<dequeue_pos, seq>>
    BY <1>4 DEF Unpack, PutBlock, Freed, ringVars
  <2>2. QED
    BY <1>1, <1>2, <2>1 DEF RingInv, Bounded, HoldersApart, LoopKnows,
       Stamped, ConsumerReads
<1>5. CASE Reuse
  <2>1. /\ Freed = dequeue_pos /\ Freed' = Freed + 1
        /\ dequeue_pos' = dequeue_pos /\ cpc' = "advance"
        /\ seq' = [seq EXCEPT ![IndexOf(dequeue_pos)] = dequeue_pos + Cap]
    BY <1>5 DEF Reuse, Freed
  <2>2. dequeue_pos < enqueue_pos /\ ~Unpublished(dequeue_pos)
    BY <1>5 DEF Reuse, RingInv, ConsumerReads
  <2>3. Bounded'
    BY <1>1, <2>1, <2>2 DEF RingInv, Bounded
  <2>4. HoldersApart'
    BY <1>1, <1>2, <2>1, <2>2 DEF RingInv, HoldersApart, Unpublished
  <2>5. LoopKnows'
    BY <1>1, <2>1 DEF RingInv, LoopKnows
  <2>6. Stamped'
    <3>1. SUFFICES ASSUME NEW x \in (Freed + 1)..(Freed + Cap)
                   PROVE  seq'[IndexOf(x)] =
                            IF x < enqueue_pos /\ ~Unpublished(x) THEN x + 1 ELSE x
      BY <1>1, <1>2, <2>1 DEF Stamped
    <3>2. CASE x = Freed + Cap
      <4>1. IndexOf(x) = IndexOf(dequeue_pos)
        BY <2>1, <3>2, IndexShift
      <4>2. seq'[IndexOf(x)] = x
        BY <2>1, <3>2, <4>1 DEF TypeOK, RingTypeOK
      <4>3. QED
        BY <3>2, <4>2 DEF RingInv, Bounded
    <3>3. CASE x # Freed + Cap
      <4>1. x \in Freed..(Freed + Cap - 1) /\ x \in Int
        BY <3>3
      <4>2. IndexOf(x) # IndexOf(dequeue_pos)
        BY <2>1, <4>1, <3>1, IndexInjective
      <4>3. seq'[IndexOf(x)] = seq[IndexOf(x)]
        BY <2>1, <4>1, <4>2 DEF TypeOK, RingTypeOK
      <4>4. QED
        BY <4>1, <4>3 DEF RingInv, Stamped
    <3>4. QED
      BY <3>2, <3>3
  <2>7. QED
    BY <2>1, <2>3, <2>4, <2>5, <2>6 DEF RingInv, ConsumerReads
<1>6. CASE Advance
  <2>1. Freed' = Freed /\ cpc' = "test" /\ seq' = seq
    BY <1>6 DEF Advance, Freed
  <2>2. QED
    BY <1>1, <1>2, <2>1 DEF RingInv, Bounded, HoldersApart, LoopKnows,
       Stamped, ConsumerReads
<1>7. QED
  BY <1>3, <1>4, <1>5, <1>6 DEF Pop

\* Every step of a push keeps the ring's bookkeeping.
LEMMA RingPush ==
  ASSUME TypeOK, RingInv, NEW p \in Producers, Push(p)
  PROVE  RingInv'
<1>1. CASE Reserve(p) \/ Pack(p) \/ Publish(p)
  BY <1>1, RingReserve, RingPack, RingPublish
<1>2. CASE CheckFree(p)
  <2>1. pos[p] < Freed + Cap
    BY <1>2, FreeMeansFree DEF CheckFree, Goto
  <2>2. QED
    BY <1>2, <2>1, RingQuiet
    DEF CheckFree, Goto, ringVars, consumerVars, ProducerSteps
<1>3. CASE LoadPos(p) \/ ReserveFails(p)
  BY <1>3, RingQuiet
  DEF LoadPos, ReserveFails, Goto, ringVars, consumerVars, ProducerSteps
<1>4. CASE Begin(p)
  <2>1. PICK step \in {"idle", "load", "scan"} : pc' = [pc EXCEPT ![p] = step]
    BY <1>4 DEF Begin, Return, Goto
  <2>2. pc[p] = "idle" /\ pos' = pos /\ UNCHANGED <<enqueue_pos, dequeue_pos, seq, cpc>>
    BY <1>4 DEF Begin, Return, Goto, ringVars, consumerVars
  <2>3. QED
    BY <2>1, <2>2, RingQuiet DEF ProducerSteps
<1>5. CASE SpillNextWord(p)
  <2>1. pc' = [pc EXCEPT ![p] = "scan"]
    BY <1>5 DEF SpillNextWord, TypeOK, ProducerTypeOK
  <2>2. pc[p] = "scan" /\ pos' = pos /\ UNCHANGED <<enqueue_pos, dequeue_pos, seq, cpc>>
    BY <1>5 DEF SpillNextWord, ringVars, consumerVars
  <2>3. QED
    BY <2>1, <2>2, RingQuiet DEF ProducerSteps
<1>6. CASE SpillTake(p) \/ SpillExhausted(p) \/ SpillCopy(p)
  BY <1>6, RingQuiet
  DEF SpillTake, SpillExhausted, SpillCopy, Goto, Return, ringVars,
      consumerVars, ProducerSteps
<1>7. CASE CheckFull(p) \/ CheckStale(p) \/ Reject(p)
  BY <1>7, RingQuiet
  DEF CheckFull, CheckStale, Reject, Goto, Return, ringVars, consumerVars,
      ProducerSteps
<1>8. QED
  BY <1>1, <1>2, <1>3, <1>4, <1>5, <1>6, <1>7 DEF Push

\* Steps that touch none of the ring's variables keep its bookkeeping.
LEMMA RingStutter ==
  ASSUME RingInv, UNCHANGED <<ringVars, producerVars, cpc>>
  PROVE  RingInv'
  BY DEF RingInv, Bounded, HoldersApart, LoopKnows, Stamped, ConsumerReads,
     Freed, Holds, Unpublished, ringVars, producerVars

\* The state logger_queue_init leaves, or a drained queue later on.
LEMMA RingInit ==
  ASSUME Init
  PROVE  TypeOK /\ RingInv
<1> USE CapAssumption, BoundsAssumption DEF Init
<1>1. TypeOK
  <2>1. RingTypeOK
    <3>1. EmptyRecord \in Records
      BY DEF EmptyRecord, Records
    <3>2. seq \in [Slots -> Nat]
      OBVIOUS
    <3>3. QED
      BY <3>1, <3>2 DEF RingTypeOK
  <2>2. PoolTypeOK
    BY DEF PoolTypeOK
  <2>3. ProducerTypeOK
    BY DEF ProducerTypeOK, ProducerSteps, Results
  <2>4. ConsumerTypeOK
    BY DEF ConsumerTypeOK, ConsumerSteps, EmptyMessage, PoppedMessages
  <2>5. ObserverTypeOK
    BY DEF ObserverTypeOK
  <2>6. QED
    BY <2>1, <2>2, <2>3, <2>4, <2>5 DEF TypeOK
<1>2. Freed = Start /\ \A p \in Producers : ~Holds(p)
  BY DEF Freed, Holds
<1>3. Stamped
  <2>1. SUFFICES ASSUME NEW x \in Start..(Start + Cap - 1)
                 PROVE  seq[IndexOf(x)] = x
    <3>1. \A x \in Start..(Start + Cap - 1) : ~(x < enqueue_pos)
      OBVIOUS
    <3>2. QED
      BY <1>2, <3>1 DEF Stamped
  <2>2. IndexOf(x) \in Slots
    BY IndexType
  <2>3. /\ seq[IndexOf(x)] \in Start..(Start + Cap - 1)
        /\ IndexOf(seq[IndexOf(x)]) = IndexOf(x)
    BY <2>2
  <2>4. QED
    BY <2>3, IndexInjective
<1>4. QED
  BY <1>1, <1>2, <1>3 DEF RingInv, Bounded, HoldersApart, LoopKnows,
     ConsumerReads

\* Types and ring bookkeeping hold in every state, for every capacity, every
\* set of producers and every width of size_t.
THEOREM TypeAndRing == Spec => [](TypeOK /\ RingInv)
<1>1. Init => TypeOK /\ RingInv
  BY RingInit
<1>2. TypeOK /\ RingInv /\ [Next]_vars => TypeOK' /\ RingInv'
  <2>1. SUFFICES ASSUME TypeOK, RingInv, [Next]_vars
                 PROVE  TypeOK' /\ RingInv'
    OBVIOUS
  <2>2. CASE \E p \in Producers : Push(p)
    BY <2>1, <2>2, TypePush, RingPush
  <2>3. CASE Pop
    BY <2>1, <2>3, TypePop, RingPop
  <2>4. CASE \E o \in Observers : Depth(o)
    <3>1. UNCHANGED <<ringVars, producerVars, cpc>>
      BY <2>4 DEF Depth, DepthFirstLoad, DepthSecondLoad, consumerVars
    <3>2. QED
      BY <2>1, <2>4, <3>1, TypeDepth, RingStutter
  <2>5. CASE UNCHANGED vars
    <3>1. UNCHANGED <<ringVars, producerVars, cpc>>
      BY <2>5 DEF vars, consumerVars
    <3>2. TypeOK'
      BY <2>1, <2>5 DEF vars, TypeOK, RingTypeOK, PoolTypeOK, ProducerTypeOK,
         ConsumerTypeOK, ObserverTypeOK, ringVars, poolVars, producerVars,
         consumerVars, observerVars
    <3>3. QED
      BY <2>1, <3>1, <3>2, RingStutter
  <2>6. QED
    BY <2>1, <2>2, <2>3, <2>4, <2>5 DEF Next
<1>3. QED
  BY <1>1, <1>2, PTL DEF Spec

\* No slot record is accessed by two threads at once.
THEOREM SlotsAreExclusive == Spec => []SlotExclusive
<1>1. TypeOK /\ RingInv => SlotExclusive
  <2>1. SUFFICES ASSUME TypeOK, RingInv PROVE SlotExclusive
    OBVIOUS
  <2>2. \A p \in Producers : Holds(p) => pos[p] \in Freed..(Freed + Cap - 1)
    BY <2>1, Numbers DEF RingInv, HoldersApart, Bounded
  <2>3. ASSUME NEW p \in Producers, NEW q \in Producers, Holds(p), Holds(q), p # q
        PROVE  IndexOf(pos[p]) # IndexOf(pos[q])
    <3>1. pos[p] # pos[q]
      BY <2>1, <2>3 DEF RingInv, HoldersApart
    <3>2. pos[p] \in Int /\ pos[q] \in Int
          /\ pos[p] - pos[q] < Cap /\ pos[q] - pos[p] < Cap
      BY <2>1, <2>2, <2>3, Numbers
    <3>3. QED
      BY <3>1, <3>2, IndexInjective
  <2>4. ASSUME NEW p \in Producers, Holds(p), cpc \in {"unpack", "put", "reuse"}
        PROVE  IndexOf(pos[p]) # IndexOf(dequeue_pos)
    <3>1. Freed = dequeue_pos
      BY <2>4 DEF Freed
    <3>2. pos[p] # dequeue_pos
      BY <2>1, <2>4 DEF RingInv, ConsumerReads, Unpublished
    <3>3. pos[p] \in Int /\ dequeue_pos \in Int
          /\ pos[p] - dequeue_pos < Cap /\ dequeue_pos - pos[p] < Cap
      BY <2>1, <2>2, <2>4, <3>1, Numbers
    <3>4. QED
      BY <3>2, <3>3, IndexInjective
  <2>5. QED
    BY <2>3, <2>4 DEF SlotExclusive
<1>2. QED
  BY <1>1, TypeAndRing, PTL

\* A push is refused as full only while all Cap slots are taken.
THEOREM RefusalMeansFull == Spec => RejectOnlyWhenFull
<1> DEFINE Refusal == \A p \in Producers :
              pc[p] # "reject" /\ pc'[p] = "reject" => enqueue_pos - Freed >= Cap
<1>1. TypeOK /\ RingInv /\ [Next]_vars => [Refusal]_vars
  <2>1. SUFFICES ASSUME TypeOK, RingInv, Next, NEW p \in Producers,
                        pc[p] # "reject", pc'[p] = "reject"
                 PROVE  enqueue_pos - Freed >= Cap
    OBVIOUS
  <2>2. PICK q \in Producers : Push(q)
    BY <2>1 DEF Next, Pop, Test, Unpack, PutBlock, Reuse, Advance, Depth,
       DepthFirstLoad, DepthSecondLoad, producerVars
  <2>3. CheckFull(q) /\ q = p
    BY <2>1, <2>2 DEF Push, Begin, SpillTake, SpillNextWord, SpillExhausted,
       SpillCopy, LoadPos, CheckFree, CheckFull, CheckStale, Reject, Reserve,
       ReserveFails, Pack, Publish, Goto, Return, TypeOK, ProducerTypeOK
  <2>4. QED
    BY <2>1, <2>3, BehindMeansFull DEF CheckFull, Goto
<1>2. QED
  BY <1>1, TypeAndRing, PTL DEF Spec, RejectOnlyWhenFull

-----------------------------------------------------------------------------
(* The positions whose record waits for the consumer.                      *)

\* A waiting position is published and not given back.
LEMMA WaitingIsPublished ==
  ASSUME TypeOK, RingInv, NEW x \in WaitingPositions
  PROVE  /\ x \in Int /\ x \in Freed..(enqueue_pos - 1)
         /\ x \in Freed..(Freed + Cap - 1)
         /\ ~Unpublished(x)
<1> USE Numbers
<1>1. x \in dequeue_pos..(enqueue_pos - 1) /\ Waiting(x)
  BY DEF WaitingPositions
<1>2. x \in Freed..(enqueue_pos - 1) /\ x \in Freed..(Freed + Cap - 1)
  BY <1>1 DEF Waiting, Freed, RingInv, Bounded
<1>3. seq[IndexOf(x)] = x + 1
  BY <1>1 DEF Waiting
<1>4. seq[IndexOf(x)] = IF x < enqueue_pos /\ ~Unpublished(x) THEN x + 1 ELSE x
  BY <1>2 DEF RingInv, Stamped
<1>5. QED
  BY <1>1, <1>2, <1>3, <1>4

\* A producer between reservation and publication has a slot that no waiting
\* position uses.
LEMMA HeldIsNotWaiting ==
  ASSUME TypeOK, RingInv, NEW p \in Producers, Holds(p)
  PROVE  /\ pos[p] \in Freed..(enqueue_pos - 1)
         /\ pos[p] \in Freed..(Freed + Cap - 1)
         /\ pos[p] \notin WaitingPositions
         /\ \A x \in WaitingPositions : IndexOf(x) # IndexOf(pos[p])
<1> USE Numbers
<1>1. pos[p] \in Freed..(enqueue_pos - 1) /\ pos[p] \in Freed..(Freed + Cap - 1)
  BY DEF RingInv, HoldersApart, Bounded
<1>2. Unpublished(pos[p])
  BY DEF Unpublished
<1>3. ASSUME NEW x \in WaitingPositions
      PROVE  x # pos[p] /\ IndexOf(x) # IndexOf(pos[p])
  <2>1. x \in Int /\ x \in Freed..(Freed + Cap - 1) /\ x # pos[p]
    BY <1>2, WaitingIsPublished
  <2>2. x - pos[p] < Cap /\ pos[p] - x < Cap
    BY <1>1, <2>1
  <2>3. QED
    BY <2>1, <2>2, IndexInjective
<1>4. QED
  BY <1>1, <1>3

\* Two waiting positions have two slots.
LEMMA WaitingApart ==
  ASSUME TypeOK, RingInv, NEW x \in WaitingPositions, NEW y \in WaitingPositions,
         IndexOf(x) = IndexOf(y)
  PROVE  x = y
<1>1. /\ x \in Int /\ x \in Freed..(Freed + Cap - 1)
      /\ y \in Int /\ y \in Freed..(Freed + Cap - 1)
  BY WaitingIsPublished
<1>2. x - y < Cap /\ y - x < Cap
  BY <1>1, Numbers
<1>3. QED
  BY <1>1, <1>2, IndexInjective

\* A record that the consumer has tested waits until its block is given back.
LEMMA TestedWaits ==
  ASSUME TypeOK, RingInv, cpc \in {"unpack", "put"}
  PROVE  dequeue_pos \in WaitingPositions
<1> USE Numbers
<1>1. dequeue_pos < enqueue_pos /\ ~Unpublished(dequeue_pos) /\ Freed = dequeue_pos
  BY DEF RingInv, ConsumerReads, Freed
<1>2. dequeue_pos \in Freed..(Freed + Cap - 1)
  BY <1>1
<1>3. seq[IndexOf(dequeue_pos)] = dequeue_pos + 1
  BY <1>1, <1>2 DEF RingInv, Stamped
<1>4. QED
  BY <1>1, <1>3 DEF WaitingPositions, Waiting

-----------------------------------------------------------------------------
(* How a step changes the waiting positions.                               *)

\* Most steps leave them alone.
LEMMA WaitingKept ==
  ASSUME UNCHANGED <<enqueue_pos, dequeue_pos, seq>>,
         cpc' \in {"reuse", "advance"} <=> cpc \in {"reuse", "advance"}
  PROVE  WaitingPositions' = WaitingPositions
  BY DEF WaitingPositions, Waiting

\* So does the reservation: a reserved position does not wait yet.
LEMMA WaitingReserve ==
  ASSUME TypeOK, RingInv, NEW p \in Producers, Reserve(p)
  PROVE  /\ pos[p] = enqueue_pos
         /\ WaitingPositions' = WaitingPositions
<1> USE Numbers
<1>1. pos[p] <= enqueue_pos /\ enqueue_pos - pos[p] <= StallWindow
      /\ pos[p] < Freed + Cap
  BY DEF Reserve, Goto, RingInv, LoopKnows
<1>2. pos[p] = enqueue_pos
  <2>1. 2 * (enqueue_pos - pos[p]) < PosMod /\ 2 * (pos[p] - enqueue_pos) < PosMod
    BY <1>1, WindowAssumption, CapAssumption
  <2>2. SamePos(enqueue_pos, pos[p]) <=> enqueue_pos = pos[p]
    BY <2>1, CompareIs
  <2>3. QED
    BY <2>2 DEF Reserve
<1>3. enqueue_pos \in Freed..(Freed + Cap - 1)
  BY <1>1, <1>2 DEF RingInv, Bounded
<1>4. seq[IndexOf(enqueue_pos)] = enqueue_pos
  BY <1>3 DEF RingInv, Stamped
<1>5. ~Waiting(enqueue_pos)
  BY <1>4 DEF Waiting
<1>6. \A x : Waiting(x)' <=> Waiting(x)
  BY DEF Waiting, Reserve, consumerVars
<1>7. enqueue_pos' = enqueue_pos + 1 /\ dequeue_pos' = dequeue_pos
  BY DEF Reserve
<1>8. QED
  BY <1>2, <1>5, <1>6, <1>7 DEF WaitingPositions

\* The publication adds its own position.
LEMMA WaitingPublish ==
  ASSUME TypeOK, RingInv, NEW p \in Producers, Publish(p)
  PROVE  WaitingPositions' = WaitingPositions \cup {pos[p]}
<1> USE Numbers
<1>1. /\ Holds(p) /\ UNCHANGED <<enqueue_pos, dequeue_pos, cpc, pos>>
      /\ seq' = [seq EXCEPT ![IndexOf(pos[p])] = pos[p] + 1]
  BY DEF Publish, Return, Goto, Holds, consumerVars
<1>2. pos[p] \in Freed..(enqueue_pos - 1) /\ pos[p] \in Freed..(Freed + Cap - 1)
  BY <1>1, HeldIsNotWaiting
<1>3. Waiting(pos[p])' /\ pos[p] \in dequeue_pos..(enqueue_pos - 1)
  <2>1. seq'[IndexOf(pos[p])] = pos[p] + 1
    BY <1>1 DEF TypeOK, RingTypeOK
  <2>2. ~(pos[p] = dequeue_pos /\ cpc \in {"reuse", "advance"})
    <3>1. CASE cpc = "advance"
      BY <1>2, <3>1 DEF Freed
    <3>2. CASE cpc = "reuse"
      BY <1>1, <3>2 DEF RingInv, ConsumerReads, Unpublished
    <3>3. QED
      BY <3>1, <3>2
  <2>3. QED
    BY <1>1, <1>2, <2>1, <2>2 DEF Waiting, Freed
<1>4. ASSUME NEW x \in dequeue_pos..(enqueue_pos - 1), x # pos[p]
      PROVE  Waiting(x)' <=> Waiting(x)
  <2>1. CASE x = dequeue_pos /\ cpc = "advance"
    BY <1>1, <2>1 DEF Waiting
  <2>2. CASE ~(x = dequeue_pos /\ cpc = "advance")
    <3>1. x \in Freed..(Freed + Cap - 1)
      BY <2>2 DEF Freed, RingInv, Bounded
    <3>2. x \in Int /\ x - pos[p] < Cap /\ pos[p] - x < Cap
      BY <1>2, <3>1
    <3>3. IndexOf(x) # IndexOf(pos[p])
      BY <1>4, <3>2, IndexInjective
    <3>4. seq'[IndexOf(x)] = seq[IndexOf(x)]
      BY <1>1, <3>2, <3>3 DEF TypeOK, RingTypeOK
    <3>5. QED
      BY <1>1, <3>4 DEF Waiting
  <2>3. QED
    BY <2>1, <2>2
<1>5. QED
  BY <1>1, <1>3, <1>4 DEF WaitingPositions

\* The consumer removes the position it consumes when it gives the block back.
LEMMA WaitingPop ==
  ASSUME TypeOK, RingInv, Pop
  PROVE  WaitingPositions' =
           IF PutBlock THEN WaitingPositions \ {dequeue_pos} ELSE WaitingPositions
<1> USE Numbers
<1>1. CASE Test \/ Unpack
  <2>1. UNCHANGED <<enqueue_pos, dequeue_pos, seq>> /\ ~PutBlock
        /\ cpc \notin {"reuse", "advance"} /\ cpc' \notin {"reuse", "advance"}
    BY <1>1 DEF Test, Unpack, PutBlock, ringVars
  <2>2. QED
    BY <2>1, WaitingKept
<1>2. CASE PutBlock
  <2>1. UNCHANGED <<enqueue_pos, dequeue_pos, seq>> /\ cpc = "put" /\ cpc' = "reuse"
    BY <1>2 DEF PutBlock, ringVars
  <2>2. QED
    BY <1>2, <2>1 DEF WaitingPositions, Waiting
<1>3. CASE Reuse
  <2>1. /\ cpc = "reuse" /\ cpc' = "advance" /\ ~PutBlock
        /\ UNCHANGED <<enqueue_pos, dequeue_pos>>
        /\ seq' = [seq EXCEPT ![IndexOf(dequeue_pos)] = dequeue_pos + Cap]
    BY <1>3 DEF Reuse, PutBlock
  <2>2. ASSUME NEW x \in dequeue_pos..(enqueue_pos - 1)
        PROVE  Waiting(x)' <=> Waiting(x)
    <3>1. CASE x = dequeue_pos
      BY <2>1, <3>1 DEF Waiting
    <3>2. CASE x # dequeue_pos
      <4>1. x \in Int /\ x - dequeue_pos < Cap /\ dequeue_pos - x < Cap
        BY <2>1 DEF RingInv, Bounded, Freed
      <4>2. IndexOf(x) # IndexOf(dequeue_pos)
        BY <3>2, <4>1, IndexInjective
      <4>3. seq'[IndexOf(x)] = seq[IndexOf(x)]
        BY <2>1, <4>1, <4>2 DEF TypeOK, RingTypeOK
      <4>4. QED
        BY <2>1, <3>2, <4>3 DEF Waiting
    <3>3. QED
      BY <3>1, <3>2
  <2>3. QED
    BY <2>1, <2>2 DEF WaitingPositions
<1>4. CASE Advance
  <2>1. /\ cpc = "advance" /\ cpc' = "test" /\ ~PutBlock
        /\ UNCHANGED <<enqueue_pos, seq>> /\ dequeue_pos' = dequeue_pos + 1
    BY <1>4 DEF Advance, PutBlock
  <2>2. ~Waiting(dequeue_pos)
    BY <2>1 DEF Waiting
  <2>3. \A x \in (dequeue_pos + 1)..(enqueue_pos - 1) : Waiting(x)' <=> Waiting(x)
    BY <2>1 DEF Waiting
  <2>4. QED
    BY <2>1, <2>2, <2>3 DEF WaitingPositions
<1>5. QED
  BY <1>1, <1>2, <1>3, <1>4 DEF Pop

-----------------------------------------------------------------------------
(* The spill blocks                                                        *)

\* The steps of a push that take no block and fill none.
LEMMA BlockQuiet ==
  ASSUME TypeOK, BlockInv, NEW p \in Producers, NEW step \in ProducerSteps,
         step # "copy", pc[p] # "copy",
         pc' = [pc EXCEPT ![p] = step],
         UNCHANGED spill_text,
         \A q \in Producers \ {p} :
            calls'[q] = calls[q] /\ spill_index'[q] = spill_index[q],
         \/ spill_index'[p] = None
         \/ /\ step \notin {"idle", "scan"}
            /\ calls'[p] = calls[p] /\ spill_index'[p] = spill_index[p]
  PROVE  BlockInv'
  BY DEF BlockInv, Msg, TypeOK, ProducerTypeOK

\* Every step of a push knows whether it holds a block.
LEMMA BlockPush ==
  ASSUME TypeOK, BlockInv, SpillBlocksOwned, NEW p \in Producers, Push(p)
  PROVE  BlockInv'
<1>1. CASE Begin(p)
  <2>1. PICK step \in {"idle", "load", "scan"} : pc' = [pc EXCEPT ![p] = step]
    BY <1>1 DEF Begin, Return, Goto
  <2>2. /\ pc[p] = "idle" /\ UNCHANGED spill_text /\ spill_index'[p] = None
        /\ \A q \in Producers \ {p} :
             calls'[q] = calls[q] /\ spill_index'[q] = spill_index[q]
    BY <1>1 DEF Begin, Return, Goto, poolVars, TypeOK, ProducerTypeOK
  <2>3. QED
    BY <2>1, <2>2, BlockQuiet DEF ProducerSteps
<1>2. CASE SpillTake(p)
  <2>1. PICK b \in Blocks : spill_index' = [spill_index EXCEPT ![p] = b]
    BY <1>2 DEF SpillTake, FreeIn, BlocksOfWord
  <2>2. pc' = [pc EXCEPT ![p] = "copy"] /\ UNCHANGED <<spill_text, calls>>
    BY <1>2 DEF SpillTake, Goto
  <2>3. QED
    BY <2>1, <2>2 DEF BlockInv, Msg, TypeOK, ProducerTypeOK
<1>3. CASE SpillNextWord(p)
  BY <1>3 DEF SpillNextWord, BlockInv, Msg, poolVars
<1>4. CASE SpillCopy(p)
  <2>1. /\ pc[p] = "copy" /\ pc' = [pc EXCEPT ![p] = "load"]
        /\ spill_text' = [spill_text EXCEPT ![spill_index[p]] = Msg(p)]
        /\ UNCHANGED <<calls, spill_index>>
    BY <1>4 DEF SpillCopy, Goto
  <2>2. spill_index[p] \in Blocks
    BY <2>1 DEF BlockInv
  <2>3. \A q \in Producers : spill_index[q] = spill_index[p] => q = p
    BY <2>2 DEF SpillBlocksOwned, ProducersOf
  <2>4. ASSUME NEW q \in Producers, pc'[q] # "copy", spill_index[q] # None
        PROVE  spill_text'[spill_index[q]] = Msg(q)
    <3>1. CASE q = p
      BY <2>1, <2>2, <3>1 DEF TypeOK, PoolTypeOK
    <3>2. CASE q # p
      <4>1. spill_index[q] \in Blocks /\ spill_index[q] # spill_index[p]
        BY <2>3, <2>4, <3>2 DEF TypeOK, ProducerTypeOK
      <4>2. spill_text'[spill_index[q]] = spill_text[spill_index[q]]
        BY <2>1, <4>1 DEF TypeOK, PoolTypeOK
      <4>3. pc[q] # "copy"
        BY <2>1, <2>4, <3>2 DEF TypeOK, ProducerTypeOK
      <4>4. QED
        BY <2>4, <4>2, <4>3 DEF BlockInv
    <3>3. QED
      BY <3>1, <3>2
  <2>5. \A q \in Producers : Msg(q)' = Msg(q)
    BY <2>1 DEF Msg
  <2>6. ASSUME NEW q \in Producers
        PROVE  /\ pc'[q] \in {"idle", "scan"} => spill_index[q] = None
               /\ pc'[q] = "copy" => spill_index[q] \in Blocks
    BY <2>1 DEF BlockInv, TypeOK, ProducerTypeOK
  <2>7. QED
    BY <2>1, <2>4, <2>5, <2>6 DEF BlockInv
<1>5. CASE SpillExhausted(p)
  <2>1. spill_index[p] = None
    BY <1>5 DEF SpillExhausted, Return, Goto, BlockInv
  <2>2. QED
    BY <1>5, <2>1, BlockQuiet DEF SpillExhausted, Return, Goto, ProducerSteps
<1>6. CASE LoadPos(p) \/ CheckFree(p) \/ CheckFull(p) \/ CheckStale(p) \/ ReserveFails(p)
  BY <1>6, BlockQuiet
  DEF LoadPos, CheckFree, CheckFull, CheckStale, ReserveFails, Goto, poolVars,
      ProducerSteps
<1>7. CASE Reserve(p) \/ Pack(p)
  BY <1>7, BlockQuiet DEF Reserve, Pack, Goto, poolVars, ProducerSteps
<1>8. CASE Reject(p) \/ Publish(p)
  BY <1>8, BlockQuiet
  DEF Reject, Publish, Return, Goto, poolVars, ProducerSteps, TypeOK,
      ProducerTypeOK
<1>9. QED
  BY <1>1, <1>2, <1>3, <1>4, <1>5, <1>6, <1>7, <1>8 DEF Push

\* Ownership does not change when no block changes hands.
LEMMA OwnedKept ==
  ASSUME SpillBlocksOwned, UNCHANGED <<spill_used, spill_index>>,
         WaitingPositions' = WaitingPositions,
         \A x \in WaitingPositions : record'[IndexOf(x)] = record[IndexOf(x)]
  PROVE  SpillBlocksOwned'
<1>1. \A b : ProducersOf(b)' = ProducersOf(b) /\ SlotsOf(b)' = SlotsOf(b)
  BY DEF ProducersOf, SlotsOf
<1>2. QED
  BY <1>1 DEF SpillBlocksOwned

\* queue_spill_try_take takes a block nobody owns.
LEMMA OwnedTake ==
  ASSUME TypeOK, BlockInv, SpillBlocksOwned, NEW p \in Producers, SpillTake(p)
  PROVE  SpillBlocksOwned'
<1>1. PICK b \in Blocks : /\ b \notin spill_used
                          /\ spill_used' = spill_used \cup {b}
                          /\ spill_index' = [spill_index EXCEPT ![p] = b]
  BY DEF SpillTake, FreeIn, BlocksOfWord
<1>2. UNCHANGED <<enqueue_pos, dequeue_pos, seq, record, cpc>>
  BY DEF SpillTake, ringVars, consumerVars
<1>3. \A c : SlotsOf(c)' = SlotsOf(c)
  BY <1>2, WaitingKept DEF SlotsOf
<1>4. spill_index[p] = None
  BY DEF SpillTake, Goto, BlockInv
<1>5. b # None
  BY NoneAssumption, PoolSize DEF Blocks
<1>6. ProducersOf(b) = {} /\ SlotsOf(b) = {}
  BY <1>1 DEF SpillBlocksOwned
<1>7. ProducersOf(b)' = {p}
  BY <1>1, <1>6 DEF ProducersOf, TypeOK, ProducerTypeOK
<1>8. \A c \in Blocks \ {b} : ProducersOf(c)' = ProducersOf(c)
  <2>1. \A c \in Blocks : c # None
    BY NoneAssumption, PoolSize DEF Blocks
  <2>2. QED
    BY <1>1, <1>4, <2>1 DEF ProducersOf, TypeOK, ProducerTypeOK
<1>9. SUFFICES ASSUME NEW c \in Blocks
               PROVE  /\ \A q, r \in ProducersOf(c)' : q = r
                      /\ \A x, y \in SlotsOf(c) : x = y
                      /\ ProducersOf(c)' = {} \/ SlotsOf(c) = {}
                      /\ c \in spill_used' <=> ProducersOf(c)' # {} \/ SlotsOf(c) # {}
  BY <1>3 DEF SpillBlocksOwned
<1>10. CASE c = b
  BY <1>1, <1>6, <1>7, <1>10
<1>11. CASE c # b
  BY <1>1, <1>8, <1>11 DEF SpillBlocksOwned
<1>12. QED
  BY <1>10, <1>11

\* The refused push gives its block back.
LEMMA OwnedReject ==
  ASSUME TypeOK, SpillBlocksOwned, NEW p \in Producers, Reject(p)
  PROVE  SpillBlocksOwned'
<1>1. /\ spill_used' = spill_used \ {spill_index[p]}
      /\ spill_index' = [spill_index EXCEPT ![p] = None]
      /\ UNCHANGED <<enqueue_pos, dequeue_pos, seq, record, cpc>>
  BY DEF Reject, ringVars, consumerVars
<1>2. \A c : SlotsOf(c)' = SlotsOf(c)
  BY <1>1, WaitingKept DEF SlotsOf
<1>3. \A c \in Blocks : c # None
  BY NoneAssumption, PoolSize DEF Blocks
<1>4. \A c \in Blocks : ProducersOf(c)' = ProducersOf(c) \ {p}
  BY <1>1, <1>3 DEF ProducersOf, TypeOK, ProducerTypeOK
<1>5. SUFFICES ASSUME NEW c \in Blocks
               PROVE  /\ \A q, r \in ProducersOf(c)' : q = r
                      /\ \A x, y \in SlotsOf(c) : x = y
                      /\ ProducersOf(c)' = {} \/ SlotsOf(c) = {}
                      /\ c \in spill_used' <=> ProducersOf(c)' # {} \/ SlotsOf(c) # {}
  BY <1>2 DEF SpillBlocksOwned
<1>6. CASE c = spill_index[p]
  <2>1. p \in ProducersOf(c)
    BY <1>6 DEF ProducersOf
  <2>2. ProducersOf(c)' = {} /\ SlotsOf(c) = {}
    BY <1>4, <2>1 DEF SpillBlocksOwned
  <2>3. QED
    BY <1>1, <1>6, <2>2
<1>7. CASE c # spill_index[p]
  <2>1. ProducersOf(c)' = ProducersOf(c)
    BY <1>4, <1>7 DEF ProducersOf
  <2>2. c \in spill_used' <=> c \in spill_used
    BY <1>1, <1>7
  <2>3. QED
    BY <2>1, <2>2 DEF SpillBlocksOwned
<1>8. QED
  BY <1>6, <1>7

\* The publication hands the block over with the slot.
LEMMA OwnedPublish ==
  ASSUME TypeOK, RingInv, SpillBlocksOwned, PackedIsWhole,
         NEW p \in Producers, Publish(p)
  PROVE  SpillBlocksOwned'
<1>1. /\ Holds(p) /\ pc[p] = "publish"
      /\ spill_index' = [spill_index EXCEPT ![p] = None]
      /\ UNCHANGED <<spill_used, record>>
  BY DEF Publish, Return, Goto, Holds, poolVars
<1>2. WaitingPositions' = WaitingPositions \cup {pos[p]} /\ pos[p] \notin WaitingPositions
  BY <1>1, WaitingPublish, HeldIsNotWaiting
<1>3. record[IndexOf(pos[p])].spill = spill_index[p]
  <2>1. record[IndexOf(pos[p])] = [msg |-> Msg(p), spill |-> spill_index[p]]
    BY <1>1 DEF PackedIsWhole
  <2>2. QED
    BY <2>1
<1>4. \A c \in Blocks : c # None
  BY NoneAssumption, PoolSize DEF Blocks
<1>5. \A c \in Blocks : ProducersOf(c)' = ProducersOf(c) \ {p}
  BY <1>1, <1>4 DEF ProducersOf, TypeOK, ProducerTypeOK
<1>6. \A c \in Blocks : SlotsOf(c)' =
        IF c = spill_index[p] THEN SlotsOf(c) \cup {pos[p]} ELSE SlotsOf(c)
  BY <1>1, <1>2, <1>3 DEF SlotsOf
<1>7. SUFFICES ASSUME NEW c \in Blocks
               PROVE  /\ \A q, r \in ProducersOf(c)' : q = r
                      /\ \A x, y \in SlotsOf(c)' : x = y
                      /\ ProducersOf(c)' = {} \/ SlotsOf(c)' = {}
                      /\ c \in spill_used <=> ProducersOf(c)' # {} \/ SlotsOf(c)' # {}
  BY <1>1 DEF SpillBlocksOwned
<1>8. CASE c = spill_index[p]
  <2>1. p \in ProducersOf(c)
    BY <1>8 DEF ProducersOf
  <2>2. SlotsOf(c) = {} /\ c \in spill_used /\ ProducersOf(c) \subseteq {p}
    BY <2>1 DEF SpillBlocksOwned
  <2>3. ProducersOf(c)' = {} /\ SlotsOf(c)' = {pos[p]}
    BY <1>5, <1>6, <1>8, <2>2
  <2>4. QED
    BY <2>2, <2>3
<1>9. CASE c # spill_index[p]
  <2>1. ProducersOf(c)' = ProducersOf(c)
    BY <1>5, <1>9 DEF ProducersOf
  <2>2. QED
    BY <1>6, <1>9, <2>1 DEF SpillBlocksOwned
<1>10. QED
  BY <1>8, <1>9

\* queue_spill_put gives back the block of the record that was read.
LEMMA OwnedPut ==
  ASSUME TypeOK, RingInv, SpillBlocksOwned, PutsWhatItRead, PutBlock
  PROVE  SpillBlocksOwned'
<1>1. /\ cpc = "put" /\ spill_used' = spill_used \ {popped.spill}
      /\ UNCHANGED <<spill_index, record>>
  BY DEF PutBlock, ringVars, producerVars
<1>2. dequeue_pos \in WaitingPositions
      /\ WaitingPositions' = WaitingPositions \ {dequeue_pos}
  BY <1>1, TestedWaits, WaitingPop DEF Pop
<1>3. popped.spill = record[IndexOf(dequeue_pos)].spill
  BY <1>1 DEF PutsWhatItRead
<1>4. \A c : ProducersOf(c)' = ProducersOf(c) /\ SlotsOf(c)' = SlotsOf(c) \ {dequeue_pos}
  BY <1>1, <1>2 DEF ProducersOf, SlotsOf
<1>5. SUFFICES ASSUME NEW c \in Blocks
               PROVE  /\ \A q, r \in ProducersOf(c) : q = r
                      /\ \A x, y \in SlotsOf(c)' : x = y
                      /\ ProducersOf(c) = {} \/ SlotsOf(c)' = {}
                      /\ c \in spill_used' <=> ProducersOf(c) # {} \/ SlotsOf(c)' # {}
  BY <1>4 DEF SpillBlocksOwned
<1>6. CASE c = popped.spill
  <2>1. dequeue_pos \in SlotsOf(c)
    BY <1>2, <1>3, <1>6 DEF SlotsOf
  <2>2. SlotsOf(c)' = {} /\ ProducersOf(c) = {}
    BY <1>4, <2>1 DEF SpillBlocksOwned
  <2>3. QED
    BY <1>1, <1>6, <2>2
<1>7. CASE c # popped.spill
  <2>1. dequeue_pos \notin SlotsOf(c)
    BY <1>3, <1>7 DEF SlotsOf
  <2>2. SlotsOf(c)' = SlotsOf(c) /\ (c \in spill_used' <=> c \in spill_used)
    BY <1>1, <1>4, <1>7, <2>1
  <2>3. QED
    BY <2>2 DEF SpillBlocksOwned
<1>8. QED
  BY <1>6, <1>7

-----------------------------------------------------------------------------
(* The contents                                                            *)

\* Steps of a push that touch neither slot, nor block, nor log.
LEMMA ContentQuiet ==
  ASSUME TypeOK, ContentInv, NEW p \in Producers, NEW step \in ProducerSteps,
         pc[p] \notin {"pack", "publish"}, step \notin {"pack", "publish"},
         pc' = [pc EXCEPT ![p] = step],
         UNCHANGED <<enqueue_pos, dequeue_pos, seq, record, spill_text, cpc,
                     popped, log>>,
         \A q \in Producers \ {p} :
            /\ calls'[q] = calls[q] /\ pos'[q] = pos[q]
            /\ spill_index'[q] = spill_index[q]
  PROVE  ContentInv'
<1>1. WaitingPositions' = WaitingPositions
  BY WaitingKept
<1>2. \A q \in Producers :
        /\ Holds(q)' => Holds(q) /\ q # p
        /\ pc'[q] = "publish" => pc[q] = "publish" /\ q # p
        /\ q # p => Msg(q)' = Msg(q)
  BY DEF Holds, Msg, TypeOK, ProducerTypeOK
<1>3. HeldIsLogged'
  BY <1>2 DEF ContentInv, HeldIsLogged
<1>4. PackedIsWhole'
  BY <1>2 DEF ContentInv, PackedIsWhole
<1>5. WaitingIsWhole'
  BY <1>1 DEF ContentInv, WaitingIsWhole
<1>6. EveryReservedLogged' /\ PutsWhatItRead' /\ DeliveredInOrder'
  BY DEF ContentInv, EveryReservedLogged, PutsWhatItRead, DeliveredInOrder
<1>7. QED
  BY <1>3, <1>4, <1>5, <1>6 DEF ContentInv

\* The text goes into a block that no waiting record points to.
LEMMA ContentCopy ==
  ASSUME TypeOK, BlockInv, SpillBlocksOwned, ContentInv, NEW p \in Producers,
         SpillCopy(p)
  PROVE  ContentInv'
<1>1. /\ pc[p] = "copy" /\ pc' = [pc EXCEPT ![p] = "load"]
      /\ spill_text' = [spill_text EXCEPT ![spill_index[p]] = Msg(p)]
      /\ UNCHANGED <<enqueue_pos, dequeue_pos, seq, record, cpc, popped, log,
                     calls, pos, spill_index>>
  BY DEF SpillCopy, Goto, ringVars, consumerVars
<1>2. WaitingPositions' = WaitingPositions
  BY <1>1, WaitingKept
<1>3. spill_index[p] \in Blocks
  BY <1>1 DEF BlockInv
<1>4. p \in ProducersOf(spill_index[p])
  BY DEF ProducersOf
<1>5. SlotsOf(spill_index[p]) = {}
  BY <1>3, <1>4 DEF SpillBlocksOwned
<1>6. \A x \in WaitingPositions : record[IndexOf(x)].spill # spill_index[p]
  BY <1>5 DEF SlotsOf
<1>7. \A b : b # spill_index[p] => spill_text'[b] = spill_text[b]
  BY <1>1, <1>3 DEF TypeOK, PoolTypeOK
<1>8. WaitingIsWhole'
  BY <1>1, <1>2, <1>6, <1>7 DEF ContentInv, WaitingIsWhole
<1>9. \A q \in Producers :
        /\ Holds(q)' => Holds(q)
        /\ pc'[q] = "publish" => pc[q] = "publish"
        /\ Msg(q)' = Msg(q)
  BY <1>1 DEF Holds, Msg, TypeOK, ProducerTypeOK
<1>10. HeldIsLogged' /\ PackedIsWhole'
  BY <1>1, <1>9 DEF ContentInv, HeldIsLogged, PackedIsWhole
<1>11. EveryReservedLogged' /\ PutsWhatItRead' /\ DeliveredInOrder'
  BY <1>1 DEF ContentInv, EveryReservedLogged, PutsWhatItRead, DeliveredInOrder
<1>12. QED
  BY <1>8, <1>10, <1>11 DEF ContentInv

\* The reservation logs the message at a position that was not reserved.
LEMMA ContentReserve ==
  ASSUME TypeOK, RingInv, ContentInv, NEW p \in Producers, Reserve(p)
  PROVE  ContentInv'
<1> USE Numbers
<1>1. pos[p] = enqueue_pos /\ WaitingPositions' = WaitingPositions
  BY WaitingReserve
<1>2. /\ pc[p] = "cas" /\ pc' = [pc EXCEPT ![p] = "pack"]
      /\ enqueue_pos < MaxPos /\ enqueue_pos' = enqueue_pos + 1
      /\ log' = [log EXCEPT ![enqueue_pos] = Msg(p)]
      /\ UNCHANGED <<dequeue_pos, seq, record, spill_text, cpc, popped, calls,
                     pos, spill_index>>
  BY DEF Reserve, Goto, poolVars, consumerVars
<1>3. Msg(p) \in Messages
  BY <1>2, MsgType DEF TypeOK
<1>4. enqueue_pos \in Positions
  BY <1>2, BoundsAssumption DEF Positions, TypeOK, RingTypeOK
<1>5. log'[enqueue_pos] = Msg(p) /\ \A x : x # enqueue_pos => log'[x] = log[x]
  BY <1>2, <1>4 DEF TypeOK
<1>6. /\ \A q \in Producers : Msg(q)' = Msg(q)
      /\ \A q \in Producers : Holds(q)' => Holds(q) \/ q = p
      /\ \A q \in Producers : pc'[q] = "publish" => pc[q] = "publish"
  BY <1>2 DEF Holds, Msg, TypeOK, ProducerTypeOK
<1>7. EveryReservedLogged'
  BY <1>2, <1>3, <1>5, BoundsAssumption DEF ContentInv, EveryReservedLogged
<1>8. HeldIsLogged'
  <2>1. SUFFICES ASSUME NEW q \in Producers, Holds(q)'
                 PROVE  log'[pos[q]] = Msg(q)
    BY <1>2, <1>6 DEF HeldIsLogged
  <2>2. CASE q = p
    BY <1>1, <1>5, <2>2
  <2>3. CASE q # p
    <3>1. Holds(q)
      BY <1>6, <2>1, <2>3
    <3>2. pos[q] # enqueue_pos
      BY <3>1 DEF RingInv, HoldersApart
    <3>3. QED
      BY <1>5, <3>1, <3>2 DEF ContentInv, HeldIsLogged
  <2>4. QED
    BY <2>2, <2>3
<1>9. PackedIsWhole'
  BY <1>2, <1>6 DEF ContentInv, PackedIsWhole
<1>10. WaitingIsWhole'
  <2>1. \A x \in WaitingPositions : log'[x] = log[x]
    BY <1>5 DEF WaitingPositions
  <2>2. QED
    BY <1>1, <1>2, <2>1 DEF ContentInv, WaitingIsWhole
<1>11. PutsWhatItRead'
  BY <1>2 DEF ContentInv, PutsWhatItRead
<1>12. DeliveredInOrder'
  <2>1. cpc \in {"put", "reuse", "advance"} => dequeue_pos < enqueue_pos
    BY DEF RingInv, ConsumerReads, Bounded, Freed
  <2>2. QED
    BY <1>2, <1>5, <2>1 DEF ContentInv, DeliveredInOrder
<1>13. QED
  BY <1>7, <1>8, <1>9, <1>10, <1>11, <1>12 DEF ContentInv

\* queue_record_pack writes into the producer's own slot.
LEMMA ContentPack ==
  ASSUME TypeOK, RingInv, ContentInv, NEW p \in Producers, Pack(p)
  PROVE  ContentInv' /\ \A x \in WaitingPositions :
                           record'[IndexOf(x)] = record[IndexOf(x)]
<1> USE Numbers
<1> DEFINE new == [msg |-> Msg(p), spill |-> spill_index[p]]
<1>1. /\ pc[p] = "pack" /\ pc' = [pc EXCEPT ![p] = "publish"] /\ Holds(p)
      /\ record' = [record EXCEPT ![IndexOf(pos[p])] = new]
      /\ UNCHANGED <<enqueue_pos, dequeue_pos, seq, spill_text, cpc, popped, log,
                     calls, pos, spill_index>>
  BY DEF Pack, Goto, Holds, poolVars, consumerVars
<1>2. WaitingPositions' = WaitingPositions
  BY <1>1, WaitingKept
<1>3. \A x \in WaitingPositions : IndexOf(x) # IndexOf(pos[p])
  BY <1>1, HeldIsNotWaiting
<1>4. /\ record'[IndexOf(pos[p])] = new
      /\ \A i \in Slots : i # IndexOf(pos[p]) => record'[i] = record[i]
  BY <1>1 DEF TypeOK, RingTypeOK
<1> HIDE DEF new
<1>5. \A x \in WaitingPositions : record'[IndexOf(x)] = record[IndexOf(x)]
  <2>1. \A x \in WaitingPositions : x \in Int
    BY WaitingIsPublished
  <2>2. QED
    BY <1>3, <1>4, <2>1
<1>6. \A q \in Producers : /\ Holds(q)' => Holds(q)
                           /\ Msg(q)' = Msg(q)
  BY <1>1 DEF Holds, Msg, TypeOK, ProducerTypeOK
<1>7. PackedIsWhole'
  <2>1. SUFFICES ASSUME NEW q \in Producers, pc'[q] = "publish"
                 PROVE  record'[IndexOf(pos[q])] =
                          [msg |-> Msg(q), spill |-> spill_index[q]]
    BY <1>1, <1>6 DEF PackedIsWhole
  <2>2. CASE q = p
    BY <1>4, <2>2 DEF new
  <2>3. CASE q # p
    <3>1. pc[q] = "publish" /\ Holds(q)
      BY <1>1, <2>1, <2>3 DEF Holds, TypeOK, ProducerTypeOK
    <3>2. pos[q] # pos[p]
      BY <1>1, <2>3, <3>1 DEF RingInv, HoldersApart
    <3>3. /\ pos[p] \in Freed..(Freed + Cap - 1)
          /\ pos[q] \in Freed..(Freed + Cap - 1)
      BY <1>1, <3>1, HeldIsNotWaiting
    <3>4. pos[q] \in Int /\ pos[p] \in Int /\ pos[q] - pos[p] < Cap
          /\ pos[p] - pos[q] < Cap
      BY <3>3
    <3>5. IndexOf(pos[q]) # IndexOf(pos[p])
      BY <3>2, <3>4, IndexInjective
    <3>6. record'[IndexOf(pos[q])] = record[IndexOf(pos[q])]
      BY <1>4, <3>4, <3>5
    <3>7. QED
      BY <3>1, <3>6 DEF ContentInv, PackedIsWhole
  <2>4. QED
    BY <2>2, <2>3
<1>8. WaitingIsWhole'
  BY <1>1, <1>2, <1>5 DEF ContentInv, WaitingIsWhole
<1>9. PutsWhatItRead'
  <2>1. cpc = "put" => dequeue_pos \in WaitingPositions
    BY TestedWaits
  <2>2. QED
    BY <1>1, <1>5, <2>1 DEF ContentInv, PutsWhatItRead
<1>10. EveryReservedLogged' /\ HeldIsLogged' /\ DeliveredInOrder'
  BY <1>1, <1>6 DEF ContentInv, EveryReservedLogged, HeldIsLogged,
     DeliveredInOrder
<1>11. QED
  BY <1>5, <1>7, <1>8, <1>9, <1>10 DEF ContentInv

\* The publication makes a packed record wait.
LEMMA ContentPublish ==
  ASSUME TypeOK, RingInv, BlockInv, ContentInv, NEW p \in Producers, Publish(p)
  PROVE  ContentInv'
<1>1. /\ pc[p] = "publish" /\ pc' = [pc EXCEPT ![p] = "idle"] /\ Holds(p)
      /\ spill_index' = [spill_index EXCEPT ![p] = None]
      /\ UNCHANGED <<enqueue_pos, dequeue_pos, record, spill_text, cpc, popped,
                     log, calls, pos>>
  BY DEF Publish, Return, Goto, Holds, poolVars, consumerVars
<1>2. WaitingPositions' = WaitingPositions \cup {pos[p]}
  BY WaitingPublish
<1>3. /\ record[IndexOf(pos[p])] = [msg |-> Msg(p), spill |-> spill_index[p]]
      /\ log[pos[p]] = Msg(p)
  BY <1>1 DEF ContentInv, PackedIsWhole, HeldIsLogged
<1>4. spill_index[p] # None => spill_text[spill_index[p]] = Msg(p)
  BY <1>1 DEF BlockInv
<1>5. WaitingIsWhole'
  <2>1. SUFFICES ASSUME NEW x \in WaitingPositions \cup {pos[p]}
                 PROVE  /\ record[IndexOf(x)].msg = log[x]
                        /\ record[IndexOf(x)].spill # None =>
                             spill_text[record[IndexOf(x)].spill] = log[x]
    BY <1>1, <1>2 DEF WaitingIsWhole
  <2>2. CASE x = pos[p]
    BY <1>3, <1>4, <2>2
  <2>3. CASE x # pos[p]
    BY <2>1, <2>3 DEF ContentInv, WaitingIsWhole
  <2>4. QED
    BY <2>2, <2>3
<1>6. \A q \in Producers :
        /\ Holds(q)' => Holds(q)
        /\ pc'[q] = "publish" => /\ pc[q] = "publish"
                                 /\ spill_index'[q] = spill_index[q]
        /\ Msg(q)' = Msg(q)
  BY <1>1 DEF Holds, Msg, TypeOK, ProducerTypeOK
<1>7. HeldIsLogged' /\ PackedIsWhole'
  BY <1>1, <1>6 DEF ContentInv, HeldIsLogged, PackedIsWhole
<1>8. EveryReservedLogged' /\ PutsWhatItRead' /\ DeliveredInOrder'
  BY <1>1 DEF ContentInv, EveryReservedLogged, PutsWhatItRead, DeliveredInOrder
<1>9. QED
  BY <1>5, <1>7, <1>8 DEF ContentInv

\* The consumer copies out what waits in the slot, header and text.
LEMMA ContentPop ==
  ASSUME TypeOK, RingInv, ContentInv, Pop
  PROVE  ContentInv'
<1>1. UNCHANGED <<enqueue_pos, record, spill_text, log, pc, calls, pos, spill_index>>
  BY DEF Pop, Test, Unpack, PutBlock, Reuse, Advance, ringVars, poolVars,
     producerVars
<1>2. \A q \in Producers : (Holds(q)' <=> Holds(q)) /\ Msg(q)' = Msg(q)
  BY <1>1 DEF Holds, Msg
<1>3. EveryReservedLogged' /\ HeldIsLogged' /\ PackedIsWhole'
  BY <1>1, <1>2 DEF ContentInv, EveryReservedLogged, HeldIsLogged, PackedIsWhole
<1>4. WaitingPositions' \subseteq WaitingPositions
  BY WaitingPop
<1>5. WaitingIsWhole'
  BY <1>1, <1>4 DEF ContentInv, WaitingIsWhole
<1>6. PutsWhatItRead' /\ DeliveredInOrder'
  <2>1. CASE Unpack
    <3> DEFINE r == record[IndexOf(dequeue_pos)]
    <3>1. /\ cpc = "unpack" /\ cpc' = "put" /\ dequeue_pos' = dequeue_pos
          /\ popped' = [head |-> r.msg,
                        text |-> IF r.spill = None THEN r.msg ELSE spill_text[r.spill],
                        spill |-> r.spill]
      BY <2>1 DEF Unpack, ringVars
    <3>2. r.msg = log[dequeue_pos] /\ (r.spill # None => spill_text[r.spill] = log[dequeue_pos])
      BY <3>1, TestedWaits DEF ContentInv, WaitingIsWhole
    <3>3. log[dequeue_pos] # None
      <4>1. dequeue_pos \in Start..(enqueue_pos - 1)
        BY <3>1, Numbers DEF RingInv, ConsumerReads, TypeOK, RingTypeOK
      <4>2. QED
        BY <4>1, NoneAssumption DEF ContentInv, EveryReservedLogged, Messages
    <3> HIDE DEF r
    <3>4. popped'.head = log[dequeue_pos] /\ popped'.text = log[dequeue_pos]
          /\ popped'.spill = r.spill
      BY <3>1, <3>2
    <3>5. QED
      BY <1>1, <3>1, <3>3, <3>4 DEF PutsWhatItRead, DeliveredInOrder, r
  <2>2. CASE PutBlock \/ Reuse
    BY <1>1, <2>2 DEF PutBlock, Reuse, ringVars, ContentInv, PutsWhatItRead,
       DeliveredInOrder
  <2>3. CASE Test \/ Advance
    BY <2>3 DEF Test, Advance, PutsWhatItRead, DeliveredInOrder
  <2>4. QED
    BY <2>1, <2>2, <2>3 DEF Pop
<1>7. QED
  BY <1>3, <1>5, <1>6 DEF ContentInv

\* Every step of a push keeps the ownership of the blocks.
LEMMA OwnedPush ==
  ASSUME TypeOK, RingInv, BlockInv, SpillBlocksOwned, ContentInv,
         NEW p \in Producers, Push(p)
  PROVE  SpillBlocksOwned'
<1>1. CASE SpillTake(p) \/ Reject(p)
  BY <1>1, OwnedTake, OwnedReject
<1>2. CASE Publish(p)
  BY <1>2, OwnedPublish DEF ContentInv
<1>3. CASE Reserve(p)
  BY <1>3, WaitingReserve, OwnedKept DEF Reserve, poolVars
<1>4. CASE Pack(p)
  <2>1. WaitingPositions' = WaitingPositions
    BY <1>4, WaitingKept DEF Pack, consumerVars
  <2>2. QED
    BY <1>4, <2>1, ContentPack, OwnedKept DEF Pack, poolVars
<1>5. ASSUME UNCHANGED <<ringVars, spill_used, spill_index, cpc>>
      PROVE  SpillBlocksOwned'
  <2>1. WaitingPositions' = WaitingPositions
    BY <1>5, WaitingKept DEF ringVars
  <2>2. QED
    BY <1>5, <2>1, OwnedKept DEF ringVars
<1>6. CASE Begin(p)
  <2>1. spill_index[p] = None
    BY <1>6 DEF Begin, Return, Goto, BlockInv
  <2>2. spill_index' = spill_index
    BY <1>6, <2>1 DEF Begin, TypeOK, ProducerTypeOK
  <2>3. QED
    BY <1>5, <1>6, <2>2 DEF Begin, poolVars, consumerVars
<1>7. CASE SpillNextWord(p) \/ SpillExhausted(p) \/ SpillCopy(p)
  BY <1>5, <1>7 DEF SpillNextWord, SpillExhausted, SpillCopy, poolVars,
     consumerVars
<1>8. CASE LoadPos(p) \/ CheckFree(p) \/ CheckFull(p) \/ CheckStale(p) \/ ReserveFails(p)
  BY <1>5, <1>8 DEF LoadPos, CheckFree, CheckFull, CheckStale, ReserveFails,
     poolVars, consumerVars
<1>9. QED
  BY <1>1, <1>2, <1>3, <1>4, <1>6, <1>7, <1>8 DEF Push

\* Every step of a push keeps the contents.
LEMMA ContentPush ==
  ASSUME TypeOK, RingInv, BlockInv, SpillBlocksOwned, ContentInv,
         NEW p \in Producers, Push(p)
  PROVE  ContentInv'
<1>1. CASE Reserve(p) \/ Pack(p) \/ Publish(p) \/ SpillCopy(p)
  BY <1>1, ContentReserve, ContentPack, ContentPublish, ContentCopy
<1>2. CASE Begin(p)
  <2>1. PICK step \in {"idle", "load", "scan"} : pc' = [pc EXCEPT ![p] = step]
    BY <1>2 DEF Begin, Return, Goto
  <2>2. /\ pc[p] = "idle"
        /\ UNCHANGED <<enqueue_pos, dequeue_pos, seq, record, spill_text, cpc,
                       popped, log>>
    BY <1>2 DEF Begin, Return, Goto, ringVars, poolVars, consumerVars
  <2>3. \A q \in Producers \ {p} : /\ calls'[q] = calls[q] /\ pos'[q] = pos[q]
                                    /\ spill_index'[q] = spill_index[q]
    BY <1>2 DEF Begin, TypeOK, ProducerTypeOK
  <2>4. QED
    BY <2>1, <2>2, <2>3, ContentQuiet DEF ProducerSteps
<1>3. CASE SpillTake(p)
  <2>1. \A q \in Producers \ {p} : spill_index'[q] = spill_index[q]
    BY <1>3 DEF SpillTake, TypeOK, ProducerTypeOK
  <2>2. QED
    BY <1>3, <2>1, ContentQuiet DEF SpillTake, Goto, ringVars, consumerVars,
       ProducerSteps
<1>4. CASE SpillNextWord(p)
  <2>1. pc[p] = "scan" /\ pc' = [pc EXCEPT ![p] = "scan"]
    BY <1>4 DEF SpillNextWord, TypeOK, ProducerTypeOK
  <2>2. QED
    BY <1>4, <2>1, ContentQuiet DEF SpillNextWord, ringVars, poolVars,
       consumerVars, ProducerSteps
<1>5. CASE SpillExhausted(p)
  BY <1>5, ContentQuiet DEF SpillExhausted, Return, Goto, ringVars,
     consumerVars, ProducerSteps
<1>6. CASE Reject(p)
  <2>1. \A q \in Producers \ {p} : spill_index'[q] = spill_index[q]
    BY <1>6 DEF Reject, TypeOK, ProducerTypeOK
  <2>2. QED
    BY <1>6, <2>1, ContentQuiet DEF Reject, Return, Goto, ringVars,
       consumerVars, ProducerSteps
<1>7. CASE CheckFree(p) \/ CheckFull(p) \/ CheckStale(p)
  BY <1>7, ContentQuiet DEF CheckFree, CheckFull, CheckStale, Goto, ringVars,
     poolVars, consumerVars, ProducerSteps
<1>8. CASE LoadPos(p) \/ ReserveFails(p)
  <2>1. \A q \in Producers \ {p} : pos'[q] = pos[q]
    BY <1>8 DEF LoadPos, ReserveFails, TypeOK, ProducerTypeOK
  <2>2. QED
    BY <1>8, <2>1, ContentQuiet DEF LoadPos, ReserveFails, Goto, ringVars,
       poolVars, consumerVars, ProducerSteps
<1>9. QED
  BY <1>1, <1>2, <1>3, <1>4, <1>5, <1>6, <1>7, <1>8 DEF Push

\* Steps that touch none of the queue's variables.
LEMMA ContentStutter ==
  ASSUME BlockInv, SpillBlocksOwned, ContentInv,
         UNCHANGED <<ringVars, poolVars, producerVars, consumerVars, log>>
  PROVE  BlockInv' /\ SpillBlocksOwned' /\ ContentInv'
<1>1. WaitingPositions' = WaitingPositions
  BY WaitingKept DEF ringVars, consumerVars
<1>2. BlockInv'
  BY DEF BlockInv, Msg, poolVars, producerVars
<1>3. SpillBlocksOwned'
  BY <1>1, OwnedKept DEF ringVars, poolVars, producerVars
<1>4. ContentInv'
  BY <1>1 DEF ContentInv, EveryReservedLogged, HeldIsLogged, PackedIsWhole,
     WaitingIsWhole, PutsWhatItRead, DeliveredInOrder, Holds, Msg, ringVars,
     poolVars, producerVars, consumerVars
<1>5. QED
  BY <1>2, <1>3, <1>4

-----------------------------------------------------------------------------
(* The history                                                             *)

\* The messages of two producers differ, and so do two calls of one.
LEMMA MsgIs ==
  ASSUME NEW p \in Producers, NEW q \in Producers, NEW n
  PROVE  /\ Msg(p) = Msg(q) => p = q
         /\ Msg(p) = <<q, n>> => p = q /\ calls[p] = n
  BY DEF Msg

\* Steps inside a push that touch neither slot nor log.
LEMMA HistoryQuiet ==
  ASSUME TypeOK, HistoryInv, NEW p \in Producers, NEW step \in ProducerSteps,
         pc[p] \notin {"idle", "pack", "publish"},
         step \notin {"pack", "publish"},
         pc' = [pc EXCEPT ![p] = step],
         step = "idle" => result'[p] # "accepted",
         UNCHANGED <<enqueue_pos, dequeue_pos, record, cpc, log, calls,
                     observerVars>>,
         \A q \in Producers \ {p} : pos'[q] = pos[q] /\ result'[q] = result[q]
  PROVE  HistoryInv'
<1>1. \A q \in Producers :
        /\ Holds(q)' <=> Holds(q)
        /\ Holds(q) => pos'[q] = pos[q]
        /\ pc'[q] = "idle" /\ result'[q] = "accepted" <=>
             pc[q] = "idle" /\ result[q] = "accepted"
        /\ Msg(q)' = Msg(q)
  BY DEF Holds, Msg, TypeOK, ProducerTypeOK
<1>2. \A x : Unpublished(x)' <=> Unpublished(x)
  BY <1>1 DEF Unpublished
<1>3. Freed' = Freed
  BY DEF Freed
<1>4. LoggedOnce' /\ LoggedHasBegun'
  BY DEF HistoryInv, LoggedOnce, LoggedHasBegun
<1>5. LoggedIffAccepted'
  BY <1>1 DEF HistoryInv, LoggedIffAccepted
<1>6. HeaderIsKept'
  BY <1>2, <1>3 DEF HistoryInv, HeaderIsKept
<1>7. ObserverKnows'
  BY DEF HistoryInv, ObserverKnows, observerVars
<1>8. QED
  BY <1>4, <1>5, <1>6, <1>7 DEF HistoryInv

\* A push that begins has a message the log does not know.
LEMMA HistoryBegin ==
  ASSUME TypeOK, HistoryInv, NEW p \in Producers, Begin(p)
  PROVE  HistoryInv'
<1>1. /\ pc[p] = "idle" /\ calls[p] < MaxCalls
      /\ calls' = [calls EXCEPT ![p] = @ + 1]
      /\ UNCHANGED <<enqueue_pos, dequeue_pos, record, cpc, log, pos, observerVars>>
  BY DEF Begin, Return, Goto, ringVars, consumerVars
<1>2. PICK step \in {"idle", "load", "scan"} : pc' = [pc EXCEPT ![p] = step]
  BY DEF Begin, Return, Goto
<1>3. /\ \A q \in Producers \ {p} : result'[q] = result[q]
      /\ result'[p] # "accepted"
  BY DEF Begin, Return, TypeOK, ProducerTypeOK
<1>4. \A q \in Producers \ {p} :
        /\ Holds(q)' <=> Holds(q)
        /\ pc'[q] = pc[q] /\ calls'[q] = calls[q] /\ Msg(q)' = Msg(q)
  BY <1>1, <1>2 DEF Holds, Msg, TypeOK, ProducerTypeOK
<1>5. /\ calls[p] \in Nat /\ calls'[p] = calls[p] + 1
      /\ calls'[p] \in 1..MaxCalls /\ Msg(p)' = <<p, calls[p] + 1>>
  BY <1>1, BoundsAssumption DEF Msg, TypeOK, ProducerTypeOK
<1>6. ~Holds(p) /\ ~Holds(p)'
  BY <1>1, <1>2 DEF Holds, TypeOK, ProducerTypeOK
<1>7. LoggedOnce'
  BY <1>1 DEF HistoryInv, LoggedOnce
<1>8. LoggedHasBegun'
  BY <1>1, <1>4, <1>5 DEF HistoryInv, LoggedHasBegun
<1>9. LoggedIffAccepted'
  <2>1. SUFFICES ASSUME NEW q \in Producers, calls'[q] > 0
                 PROVE  (\E x \in Start..(enqueue_pos - 1) : log[x] = Msg(q)') <=>
                          Holds(q)' \/ (pc'[q] = "idle" /\ result'[q] = "accepted")
    BY <1>1 DEF LoggedIffAccepted
  <2>2. CASE q = p
    <3>1. \A x \in Start..(enqueue_pos - 1) : log[x] # <<p, calls[p] + 1>>
      BY <1>5 DEF HistoryInv, LoggedHasBegun
    <3>2. QED
      BY <1>3, <1>5, <1>6, <2>2, <3>1
  <2>3. CASE q # p
    BY <1>3, <1>4, <2>1, <2>3 DEF HistoryInv, LoggedIffAccepted
  <2>4. QED
    BY <2>2, <2>3
<1>10. HeaderIsKept'
  <2>1. \A x : Unpublished(x)' <=> Unpublished(x)
    BY <1>1, <1>4, <1>6 DEF Unpublished
  <2>2. QED
    BY <1>1, <2>1 DEF HistoryInv, HeaderIsKept, Freed
<1>11. ObserverKnows'
  BY <1>1 DEF HistoryInv, ObserverKnows, observerVars
<1>12. QED
  BY <1>7, <1>8, <1>9, <1>10, <1>11 DEF HistoryInv

\* The reservation logs a message that was not logged before.
LEMMA HistoryReserve ==
  ASSUME TypeOK, RingInv, HistoryInv, NEW p \in Producers, Reserve(p)
  PROVE  /\ HistoryInv'
         /\ \A x \in Start..(enqueue_pos - 1) : log[x] # Msg(p)
<1> USE Numbers
<1>1. pos[p] = enqueue_pos
  BY WaitingReserve
<1>2. /\ pc[p] = "cas" /\ pc' = [pc EXCEPT ![p] = "pack"]
      /\ enqueue_pos < MaxPos /\ enqueue_pos' = enqueue_pos + 1
      /\ log' = [log EXCEPT ![enqueue_pos] = Msg(p)]
      /\ UNCHANGED <<dequeue_pos, record, cpc, calls, pos, result, observerVars>>
  BY DEF Reserve, Goto, consumerVars
<1>3. enqueue_pos \in Positions
  BY <1>2, BoundsAssumption DEF Positions, TypeOK, RingTypeOK
<1>4. log'[enqueue_pos] = Msg(p) /\ \A x : x # enqueue_pos => log'[x] = log[x]
  BY <1>2, <1>3 DEF TypeOK
<1>5. /\ \A q \in Producers : Msg(q)' = Msg(q)
      /\ \A q \in Producers : Holds(q)' <=> Holds(q) \/ q = p
      /\ \A q \in Producers \ {p} : pc'[q] = pc[q]
      /\ pc'[p] # "idle" /\ ~Holds(p)
  BY <1>2 DEF Holds, Msg, TypeOK, ProducerTypeOK
<1>6. \A x \in Start..(enqueue_pos - 1) : log[x] # Msg(p)
  <2>1. calls[p] > 0
    BY <1>2 DEF TypeOK, ProducerTypeOK
  <2>2. QED
    BY <1>2, <1>5, <2>1 DEF HistoryInv, LoggedIffAccepted
<1>7. Start..(enqueue_pos' - 1) = (Start..(enqueue_pos - 1)) \cup {enqueue_pos}
  BY <1>2, BoundsAssumption DEF TypeOK, RingTypeOK
<1>8. \A x \in Start..(enqueue_pos - 1) : log'[x] = log[x] /\ x # enqueue_pos
  BY <1>4, BoundsAssumption
<1>9. LoggedOnce'
  <2>1. SUFFICES ASSUME NEW x \in (Start..(enqueue_pos - 1)) \cup {enqueue_pos},
                        NEW y \in (Start..(enqueue_pos - 1)) \cup {enqueue_pos},
                        log'[x] = log'[y]
                 PROVE  x = y
    BY <1>7 DEF LoggedOnce
  <2>2. CASE x = enqueue_pos \/ y = enqueue_pos
    BY <1>4, <1>6, <1>8, <2>1, <2>2
  <2>3. CASE x # enqueue_pos /\ y # enqueue_pos
    BY <1>8, <2>1, <2>3 DEF HistoryInv, LoggedOnce
  <2>4. QED
    BY <2>2, <2>3
<1>10. LoggedHasBegun'
  <2>1. SUFFICES ASSUME NEW x \in (Start..(enqueue_pos - 1)) \cup {enqueue_pos},
                        NEW q \in Producers, NEW n \in 1..MaxCalls,
                        log'[x] = <<q, n>>
                 PROVE  n <= calls[q]
    BY <1>2, <1>7 DEF LoggedHasBegun
  <2>2. CASE x = enqueue_pos
    <3>1. p = q /\ calls[p] = n
      BY <1>4, <2>1, <2>2, MsgIs
    <3>2. QED
      BY <3>1
  <2>3. CASE x # enqueue_pos
    BY <1>8, <2>1, <2>3 DEF HistoryInv, LoggedHasBegun
  <2>4. QED
    BY <2>2, <2>3
<1>11. LoggedIffAccepted'
  <2>1. SUFFICES ASSUME NEW q \in Producers, calls[q] > 0
                 PROVE  (\E x \in Start..(enqueue_pos' - 1) : log'[x] = Msg(q)) <=>
                          Holds(q)' \/ (pc'[q] = "idle" /\ result[q] = "accepted")
    BY <1>2, <1>5 DEF LoggedIffAccepted
  <2>2. CASE q = p
    BY <1>4, <1>5, <1>7, <2>2
  <2>3. CASE q # p
    <3>1. Msg(q) # Msg(p)
      BY <2>3, MsgIs
    <3>2. (\E x \in Start..(enqueue_pos' - 1) : log'[x] = Msg(q)) <=>
            \E x \in Start..(enqueue_pos - 1) : log[x] = Msg(q)
      BY <1>4, <1>7, <1>8, <3>1
    <3>3. QED
      BY <1>5, <2>1, <2>3, <3>2 DEF HistoryInv, LoggedIffAccepted
  <2>4. QED
    BY <2>2, <2>3
<1>12. HeaderIsKept'
  <2>1. Freed' = Freed
    BY <1>2 DEF Freed
  <2>2. \A x : Unpublished(x) \/ x = enqueue_pos => Unpublished(x)'
    BY <1>1, <1>2, <1>5 DEF Unpublished
  <2>3. SUFFICES ASSUME NEW x \in Freed..enqueue_pos, ~Unpublished(x)'
                 PROVE  record[IndexOf(x)].msg = log'[x]
    BY <1>2, <2>1 DEF HeaderIsKept
  <2>4. x # enqueue_pos /\ ~Unpublished(x)
    BY <2>2, <2>3
  <2>5. x \in Freed..(enqueue_pos - 1) /\ log'[x] = log[x]
    BY <1>4, <2>4
  <2>6. QED
    BY <2>4, <2>5 DEF HistoryInv, HeaderIsKept
<1>13. ObserverKnows'
  BY <1>2 DEF HistoryInv, ObserverKnows, observerVars, TypeOK, ObserverTypeOK
<1>14. QED
  BY <1>6, <1>9, <1>10, <1>11, <1>12, <1>13 DEF HistoryInv

\* Packing and publishing keep the log and make its header readable.
LEMMA HistoryPublish ==
  ASSUME TypeOK, RingInv, ContentInv, HistoryInv, NEW p \in Producers,
         Pack(p) \/ Publish(p)
  PROVE  HistoryInv'
<1> USE Numbers
<1>1. /\ Holds(p) /\ pc[p] # "idle"
      /\ UNCHANGED <<enqueue_pos, dequeue_pos, cpc, log, calls, pos, observerVars>>
  BY DEF Pack, Publish, Return, Goto, Holds, consumerVars
<1>2. \A q \in Producers :
        /\ Msg(q)' = Msg(q)
        /\ Holds(q)' \/ (pc'[q] = "idle" /\ result'[q] = "accepted") <=>
             Holds(q) \/ (pc[q] = "idle" /\ result[q] = "accepted")
  BY <1>1 DEF Pack, Publish, Return, Goto, Holds, Msg, TypeOK, ProducerTypeOK
<1>3. LoggedIffAccepted'
  BY <1>1, <1>2 DEF HistoryInv, LoggedIffAccepted
<1>4. LoggedOnce' /\ LoggedHasBegun' /\ ObserverKnows'
  BY <1>1 DEF HistoryInv, LoggedOnce, LoggedHasBegun, ObserverKnows, observerVars
<1>5. HeaderIsKept'
  <2>1. Freed' = Freed
    BY <1>1 DEF Freed
  <2>2. \A x : Unpublished(x) => Unpublished(x)' \/ (Publish(p) /\ x = pos[p])
    BY <1>1 DEF Unpublished, Pack, Publish, Return, Goto, Holds, TypeOK,
       ProducerTypeOK
  <2>3. SUFFICES ASSUME NEW x \in Freed..(enqueue_pos - 1), ~Unpublished(x)'
                 PROVE  record'[IndexOf(x)].msg = log[x]
    BY <1>1, <2>1 DEF HeaderIsKept
  <2>4. CASE x = pos[p]
    <3>1. Publish(p)
      <4>1. Unpublished(x)
        BY <1>1, <2>4 DEF Unpublished
      <4>2. QED
        BY <2>2, <2>3, <4>1
    <3>2. pc[p] = "publish" /\ record' = record
      BY <3>1 DEF Publish, Return, Goto
    <3>3. /\ record[IndexOf(pos[p])] = [msg |-> Msg(p), spill |-> spill_index[p]]
          /\ log[pos[p]] = Msg(p)
      BY <1>1, <3>2 DEF ContentInv, PackedIsWhole, HeldIsLogged
    <3>4. record[IndexOf(pos[p])].msg = Msg(p)
      BY <3>3
    <3>5. QED
      BY <2>4, <3>2, <3>3, <3>4
  <2>5. CASE x # pos[p]
    <3>1. ~Unpublished(x)
      BY <2>2, <2>3, <2>5
    <3>2. pos[p] \in Freed..(Freed + Cap - 1) /\ x \in Freed..(Freed + Cap - 1)
      BY <1>1, HeldIsNotWaiting DEF RingInv, Bounded
    <3>3. x \in Int /\ x - pos[p] < Cap /\ pos[p] - x < Cap
      BY <3>2
    <3>4. IndexOf(x) # IndexOf(pos[p])
      BY <2>5, <3>3, IndexInjective
    <3>5. record'[IndexOf(x)] = record[IndexOf(x)]
      BY <3>3, <3>4 DEF Pack, Publish, TypeOK, RingTypeOK
    <3>6. QED
      BY <3>1, <3>5 DEF HistoryInv, HeaderIsKept
  <2>6. QED
    BY <2>4, <2>5
<1>6. QED
  BY <1>3, <1>4, <1>5 DEF HistoryInv

\* Every step of a push keeps the history.
LEMMA HistoryPush ==
  ASSUME TypeOK, RingInv, ContentInv, HistoryInv, NEW p \in Producers, Push(p)
  PROVE  HistoryInv'
<1>1. CASE Begin(p) \/ Reserve(p) \/ Pack(p) \/ Publish(p)
  BY <1>1, HistoryBegin, HistoryReserve, HistoryPublish
<1>2. CASE SpillTake(p) \/ SpillCopy(p)
  BY <1>2, HistoryQuiet DEF SpillTake, SpillCopy, Goto, ringVars, consumerVars,
     ProducerSteps
<1>3. CASE SpillNextWord(p)
  <2>1. pc[p] = "scan" /\ pc' = [pc EXCEPT ![p] = "scan"]
    BY <1>3 DEF SpillNextWord, TypeOK, ProducerTypeOK
  <2>2. QED
    BY <1>3, <2>1, HistoryQuiet DEF SpillNextWord, ringVars, consumerVars,
       ProducerSteps
<1>4. CASE SpillExhausted(p) \/ Reject(p)
  <2>1. /\ pc' = [pc EXCEPT ![p] = "idle"]
        /\ pc[p] \in {"scan", "reject"}
        /\ UNCHANGED <<enqueue_pos, dequeue_pos, record, cpc, log, calls, pos,
                       observerVars>>
    BY <1>4 DEF SpillExhausted, Reject, Return, Goto, ringVars, consumerVars
  <2>2. result'[p] # "accepted" /\ \A q \in Producers \ {p} : result'[q] = result[q]
    BY <1>4 DEF SpillExhausted, Reject, Return, TypeOK, ProducerTypeOK
  <2>3. QED
    BY <2>1, <2>2, HistoryQuiet DEF ProducerSteps
<1>5. CASE CheckFree(p) \/ CheckFull(p) \/ CheckStale(p)
  BY <1>5, HistoryQuiet DEF CheckFree, CheckFull, CheckStale, Goto, ringVars,
     consumerVars, ProducerSteps
<1>6. CASE LoadPos(p) \/ ReserveFails(p)
  <2>1. \A q \in Producers \ {p} : pos'[q] = pos[q]
    BY <1>6 DEF LoadPos, ReserveFails, TypeOK, ProducerTypeOK
  <2>2. QED
    BY <1>6, <2>1, HistoryQuiet DEF LoadPos, ReserveFails, Goto, ringVars,
       consumerVars, ProducerSteps
<1>7. QED
  BY <1>1, <1>2, <1>3, <1>4, <1>5, <1>6 DEF Push

\* A pop only moves Freed on.
LEMMA HistoryPop ==
  ASSUME TypeOK, HistoryInv, Pop
  PROVE  HistoryInv'
<1>1. UNCHANGED <<enqueue_pos, record, log, pc, calls, pos, result, observerVars>>
  BY DEF Pop, Test, Unpack, PutBlock, Reuse, Advance, ringVars, producerVars
<1>2. Freed' \in Nat /\ Freed <= Freed' /\ Freed \in Nat
  BY Numbers DEF Pop, Test, Unpack, PutBlock, Reuse, Advance, ringVars, Freed
<1>3. \A q \in Producers : (Holds(q)' <=> Holds(q)) /\ Msg(q)' = Msg(q)
  BY <1>1 DEF Holds, Msg
<1>4. \A x : Unpublished(x)' <=> Unpublished(x)
  BY <1>1, <1>3 DEF Unpublished
<1>5. HeaderIsKept'
  <2>1. \A x \in Freed'..(enqueue_pos - 1) : x \in Freed..(enqueue_pos - 1)
    BY <1>2, Numbers
  <2>2. QED
    BY <1>1, <1>4, <2>1 DEF HistoryInv, HeaderIsKept
<1>6. QED
  BY <1>1, <1>3, <1>5 DEF HistoryInv, LoggedOnce, LoggedHasBegun,
     LoggedIffAccepted, ObserverKnows, observerVars

\* A remainder is no larger than the number.
LEMMA ModAtMost ==
  ASSUME NEW a \in Nat, NEW c \in Nat \ {0}
  PROVE  a % c <= a
<1> DEFINE m == a % c
           d == a \div c
<1>1. m \in 0..(c - 1) /\ d \in Int /\ a = c * d + m
  BY DivMod
<1> HIDE DEF m, d
<1>2. d >= 0
  <2>1. SUFFICES ASSUME d <= -1 PROVE FALSE
    BY <1>1
  <2>2. c * d <= -c
    BY <1>1, <2>1
  <2>3. QED
    BY <1>1, <2>2
<1>3. c * d >= 0
  BY <1>1, <1>2
<1>4. QED
  BY <1>1, <1>3 DEF m

\* The two loads of logger_queue_depth give a difference that is not negative.
LEMMA HistoryDepth ==
  ASSUME TypeOK, RingInv, HistoryInv, NEW o \in Observers, Depth(o)
  PROVE  HistoryInv'
<1> USE Numbers
<1>1. UNCHANGED <<ringVars, poolVars, producerVars, consumerVars, log>>
  BY DEF Depth, DepthFirstLoad, DepthSecondLoad
<1>2. HeaderIsKept' /\ LoggedOnce' /\ LoggedHasBegun' /\ LoggedIffAccepted'
  BY <1>1 DEF HistoryInv, LoggedOnce, LoggedHasBegun, LoggedIffAccepted,
     HeaderIsKept, Holds, Msg, Unpublished, Freed, ringVars, producerVars,
     consumerVars
<1>3. ObserverKnows'
  <2>1. enqueue_pos' = enqueue_pos
    BY <1>1 DEF ringVars
  <2>2. CASE DepthFirstLoad(o)
    <3>1. dequeue_pos <= enqueue_pos
      BY DEF RingInv, Bounded, Freed
    <3>2. QED
      BY <2>1, <2>2, <3>1 DEF DepthFirstLoad, HistoryInv, ObserverKnows, TypeOK,
         ObserverTypeOK
  <2>3. CASE DepthSecondLoad(o)
    <3>1. odeq[o] \in Nat /\ odeq[o] = odeq0[o] /\ enqueue_pos - odeq[o] \in Nat
      BY BoundsAssumption DEF HistoryInv, ObserverKnows, TypeOK, ObserverTypeOK
    <3>2. PosMod \in Nat \ {0}
      BY CapAssumption, WindowAssumption
    <3>3. /\ (enqueue_pos - odeq[o]) % PosMod <= enqueue_pos - odeq[o]
          /\ (enqueue_pos - odeq[o]) % PosMod \in Int
      <4> DEFINE d == enqueue_pos - odeq[o]
      <4>1. d \in Nat
        BY <3>1
      <4> HIDE DEF d
      <4>2. d % PosMod <= d
        BY <3>2, <4>1, ModAtMost
      <4>3. d \in Int
        BY <4>1
      <4>4. d % PosMod \in 0..(PosMod - 1)
        BY <3>2, <4>3, DivMod
      <4>5. QED
        BY <3>2, <4>2, <4>4 DEF d
    <3>4. Clamped(enqueue_pos, odeq[o]) <= enqueue_pos - odeq[o]
      BY <3>1, <3>3 DEF Clamped
    <3>5. /\ depth' = [depth EXCEPT ![o] = Clamped(enqueue_pos, odeq[o])]
          /\ opc' = [opc EXCEPT ![o] = "idle"] /\ UNCHANGED <<odeq, odeq0>>
      BY <2>3 DEF DepthSecondLoad
    <3>6. depth'[o] <= enqueue_pos - odeq0[o]
      BY <3>1, <3>4, <3>5 DEF TypeOK, ObserverTypeOK
    <3>7. \A r \in Observers \ {o} : depth'[r] = depth[r] /\ opc'[r] = opc[r]
      BY <3>5 DEF TypeOK, ObserverTypeOK
    <3>8. QED
      BY <2>1, <3>5, <3>6, <3>7 DEF HistoryInv, ObserverKnows
  <2>4. QED
    BY <2>2, <2>3 DEF Depth
<1>4. QED
  BY <1>2, <1>3 DEF HistoryInv

\* A drained queue has an empty log.
LEMMA HistoryInit ==
  ASSUME Init
  PROVE  HistoryInv
<1>1. Start..(enqueue_pos - 1) = {} /\ Freed..(enqueue_pos - 1) = {}
  BY BoundsAssumption DEF Init, Freed
<1>2. LoggedOnce /\ LoggedHasBegun /\ HeaderIsKept
  BY <1>1 DEF LoggedOnce, LoggedHasBegun, HeaderIsKept
<1>3. LoggedIffAccepted
  BY <1>1 DEF LoggedIffAccepted, Init
<1>4. ObserverKnows
  BY BoundsAssumption DEF ObserverKnows, Init
<1>5. QED
  BY <1>2, <1>3, <1>4 DEF HistoryInv

-----------------------------------------------------------------------------
(* The invariant and what follows from it                                  *)

\* The invariant holds of the drained queue.
LEMMA ContentInit ==
  ASSUME Init
  PROVE  IndInv
<1> USE DEF Init
<1>1. TypeOK /\ RingInv
  BY RingInit
<1>2. WaitingPositions = {}
  BY BoundsAssumption DEF WaitingPositions
<1>3. BlockInv
  BY DEF BlockInv
<1>4. SpillBlocksOwned
  <2>1. \A b \in Blocks : b # None
    BY NoneAssumption, PoolSize DEF Blocks
  <2>2. \A b \in Blocks : ProducersOf(b) = {} /\ SlotsOf(b) = {}
    BY <1>2, <2>1 DEF ProducersOf, SlotsOf
  <2>3. QED
    BY <2>2 DEF SpillBlocksOwned
<1>5. ContentInv
  BY <1>2, BoundsAssumption DEF ContentInv, EveryReservedLogged, HeldIsLogged,
     PackedIsWhole, WaitingIsWhole, PutsWhatItRead, DeliveredInOrder, Holds
<1>6. QED
  BY <1>1, <1>3, <1>4, <1>5, HistoryInit DEF IndInv

\* Every step keeps the invariant.
LEMMA ContentStep == IndInv /\ [Next]_vars => IndInv'
<1>1. SUFFICES ASSUME TypeOK, RingInv, BlockInv, SpillBlocksOwned, ContentInv,
                      HistoryInv, [Next]_vars
               PROVE  IndInv'
  BY DEF IndInv
<1>2. CASE \E p \in Producers : Push(p)
  BY <1>1, <1>2, TypePush, RingPush, BlockPush, OwnedPush, ContentPush,
     HistoryPush DEF IndInv
<1>3. CASE Pop
  <2>1. BlockInv'
    BY <1>1, <1>3 DEF BlockInv, Msg, Pop, Test, Unpack, PutBlock, Reuse,
       Advance, poolVars, producerVars
  <2>2. SpillBlocksOwned'
    <3>1. CASE PutBlock
      BY <1>1, <3>1, OwnedPut DEF ContentInv
    <3>2. CASE ~PutBlock
      <4>1. UNCHANGED <<record, spill_used, spill_index>>
        BY <1>3, <3>2 DEF Pop, Test, Unpack, Reuse, Advance, ringVars, poolVars,
           producerVars
      <4>2. QED
        BY <1>1, <1>3, <3>2, <4>1, WaitingPop, OwnedKept
    <3>3. QED
      BY <3>1, <3>2
  <2>3. QED
    BY <1>1, <1>3, <2>1, <2>2, TypePop, RingPop, ContentPop, HistoryPop
    DEF IndInv
<1>4. CASE \E o \in Observers : Depth(o)
  <2>1. UNCHANGED <<ringVars, poolVars, producerVars, consumerVars, log>>
    BY <1>4 DEF Depth, DepthFirstLoad, DepthSecondLoad
  <2>2. RingInv'
    BY <1>1, <2>1, RingStutter DEF consumerVars
  <2>3. QED
    BY <1>1, <1>4, <2>1, <2>2, TypeDepth, ContentStutter, HistoryDepth
    DEF IndInv
<1>5. CASE UNCHANGED vars
  <2>1. UNCHANGED <<ringVars, poolVars, producerVars, consumerVars, log>>
    BY <1>5 DEF vars
  <2>2. RingInv'
    BY <1>1, <2>1, RingStutter DEF consumerVars
  <2>3. TypeOK'
    BY <1>1, <1>5 DEF vars, TypeOK, RingTypeOK, PoolTypeOK, ProducerTypeOK,
       ConsumerTypeOK, ObserverTypeOK, ringVars, poolVars, producerVars,
       consumerVars, observerVars
  <2>4. HistoryInv'
    BY <1>1, <1>5 DEF HistoryInv, LoggedOnce, LoggedHasBegun, LoggedIffAccepted,
       HeaderIsKept, ObserverKnows, Holds, Msg, Unpublished, Freed, vars,
       ringVars, producerVars, consumerVars, observerVars
  <2>5. QED
    BY <1>1, <2>1, <2>2, <2>3, <2>4, ContentStutter DEF IndInv
<1>6. QED
  BY <1>1, <1>2, <1>3, <1>4, <1>5 DEF Next

\* The inductive invariant of ring, blocks and contents holds in every state of
\* logger_queue, for every capacity, pool size and set of producers.
THEOREM QueueInvariant == Spec => []IndInv
<1>1. Init => IndInv
  BY ContentInit
<1>2. QED
  BY <1>1, ContentStep, PTL DEF Spec

\* logger_queue_try_pop hands over, whole and in the order of reservation, the
\* message that reserved the position it consumes.
THEOREM DeliveryIsInOrder == Spec => []DeliveredInOrder
<1>1. IndInv => DeliveredInOrder
  BY DEF IndInv, ContentInv
<1>2. QED
  BY <1>1, QueueInvariant, PTL

\* No spill block is shared by two owners and none is leaked.
THEOREM BlocksHaveOneOwner == Spec => []SpillBlocksOwned
<1>1. IndInv => SpillBlocksOwned
  BY DEF IndInv
<1>2. QED
  BY <1>1, QueueInvariant, PTL

\* What logger_queue_push and logger_queue_depth report is true: an accepted
\* message is delivered or waits published, a refused one left no trace, and a
\* depth counts no more than was reserved since the call began.
THEOREM QueueReportsAreHonest == Spec => []ReportsAreHonest
<1>1. IndInv => ReportsAreHonest
  <2>1. SUFFICES ASSUME TypeOK, RingInv, ContentInv, HistoryInv
                 PROVE  ReportsAreHonest
    BY DEF IndInv
  <2> USE <2>1, Numbers
  <2>2. ASSUME NEW p \in Producers, pc[p] = "idle", calls[p] > 0,
               result[p] # "accepted"
        PROVE  {x \in Start..(enqueue_pos - 1) : log[x] = Msg(p)} = {}
    <3>1. ~Holds(p)
      BY <2>2 DEF Holds
    <3>2. QED
      BY <2>2, <3>1 DEF HistoryInv, LoggedIffAccepted
  <2>3. ASSUME NEW p \in Producers, pc[p] = "idle", calls[p] > 0,
               result[p] = "accepted"
        PROVE  LET at == {x \in Start..(enqueue_pos - 1) : log[x] = Msg(p)}
               IN  \E x \in at :
                     /\ at = {x}
                     /\ \/ x < Freed
                        \/ /\ seq[IndexOf(x)] = x + 1
                           /\ record[IndexOf(x)].msg = Msg(p)
    <3>1. PICK x \in Start..(enqueue_pos - 1) : log[x] = Msg(p)
      BY <2>3 DEF HistoryInv, LoggedIffAccepted
    <3>2. {y \in Start..(enqueue_pos - 1) : log[y] = Msg(p)} = {x}
      BY <3>1 DEF HistoryInv, LoggedOnce
    <3>3. ~Unpublished(x)
      <4>1. SUFFICES ASSUME NEW q \in Producers, Holds(q), pos[q] = x PROVE FALSE
        BY DEF Unpublished
      <4>2. Msg(q) = Msg(p)
        BY <3>1, <4>1 DEF ContentInv, HeldIsLogged
      <4>3. q = p
        BY <4>2, MsgIs
      <4>4. QED
        BY <2>3, <4>1, <4>3 DEF Holds
    <3>4. ASSUME ~(x < Freed)
          PROVE  seq[IndexOf(x)] = x + 1 /\ record[IndexOf(x)].msg = Msg(p)
      <4>1. x \in Freed..(enqueue_pos - 1) /\ x \in Freed..(Freed + Cap - 1)
        BY <3>1, <3>4, BoundsAssumption DEF RingInv, Bounded
      <4>2. seq[IndexOf(x)] = x + 1
        BY <3>3, <4>1 DEF RingInv, Stamped
      <4>3. QED
        BY <3>1, <3>3, <4>1, <4>2 DEF HistoryInv, HeaderIsKept
    <3>5. QED
      BY <3>1, <3>2, <3>4
  <2>4. \A o \in Observers :
          opc[o] = "idle" => depth[o] <= enqueue_pos - odeq0[o]
    BY DEF HistoryInv, ObserverKnows
  <2>5. QED
    BY <2>2, <2>3, <2>4 DEF ReportsAreHonest
<1>2. QED
  BY <1>1, QueueInvariant, PTL

-----------------------------------------------------------------------------
(* The bounded FIFO                                                        *)

Mapped == IF cpc \in {"put", "reuse", "advance"} THEN dequeue_pos + 1
          ELSE dequeue_pos

\* A reservation enters the FIFO at its tail.
LEMMA ReserveEnters ==
  ASSUME IndInv, NEW p \in Producers, Reserve(p)
  PROVE  Fifo!Enqueue(Msg(p)) /\ Msg(p) \in Messages
<1> USE Numbers
<1>1. TypeOK /\ RingInv /\ HistoryInv
  BY DEF IndInv
<1>2. Msg(p) \in Messages
  BY <1>1, MsgType DEF Reserve, Goto, TypeOK
<1>3. enqueue_pos - Mapped < Cap
  <2>1. pos[p] = enqueue_pos
    BY <1>1, WaitingReserve
  <2>2. pos[p] < Freed + Cap
    BY <1>1 DEF Reserve, Goto, RingInv, LoopKnows
  <2>3. QED
    BY <1>1, <2>1, <2>2 DEF Mapped, Freed
<1>4. \A x \in Start..(enqueue_pos - 1) : log[x] # Msg(p)
  BY <1>1, HistoryReserve
<1>5. /\ log' = [log EXCEPT ![enqueue_pos] = Msg(p)]
      /\ enqueue_pos' = enqueue_pos + 1
      /\ UNCHANGED <<cpc, dequeue_pos, popped>>
  BY DEF Reserve, consumerVars
<1>6. Fifo!Enqueue(Msg(p))
  BY <1>3, <1>4, <1>5 DEF Fifo!Enqueue, Mapped
<1>7. QED
  BY <1>2, <1>6

\* Copying the record out delivers the message at the FIFO's head.
LEMMA UnpackDelivers ==
  ASSUME IndInv, Unpack
  PROVE  Fifo!Dequeue
<1>1. TypeOK /\ RingInv /\ ContentInv
  BY DEF IndInv
<1>2. /\ cpc = "unpack" /\ cpc' = "put"
      /\ UNCHANGED <<enqueue_pos, dequeue_pos, log>>
  BY DEF Unpack, ringVars
<1>3. dequeue_pos < enqueue_pos
  BY <1>1, <1>2 DEF RingInv, ConsumerReads
<1>4. DeliveredInOrder'
  BY <1>1, ContentPop DEF Pop, ContentInv
<1>5. popped'.head = log[dequeue_pos] /\ popped'.text = log[dequeue_pos]
  BY <1>2, <1>4 DEF DeliveredInOrder
<1>6. QED
  BY <1>2, <1>3, <1>5 DEF Fifo!Dequeue

\* The queue implements the bounded FIFO: its reservation is the enqueue, its
\* copying out the dequeue, and every other step leaves the FIFO alone.
THEOREM QueueImplementsFifo == Spec => RefinesFifo
<1>1. Init => Fifo!Init
  BY DEF Init, Fifo!Init, EmptyMessage, Positions
<1>2. IndInv /\ [Next]_vars => [Fifo!Next]_(Fifo!vars)
  <2>1. SUFFICES ASSUME IndInv, [Next]_vars
                 PROVE  Fifo!Next \/ UNCHANGED Fifo!vars
    OBVIOUS
  <2>2. ASSUME UNCHANGED <<log, enqueue_pos, popped>>, Mapped' = Mapped
        PROVE  UNCHANGED Fifo!vars
    BY <2>2 DEF Fifo!vars, Mapped
  <2>3. CASE \E p \in Producers : Push(p)
    <3>1. PICK p \in Producers : Push(p)
      BY <2>3
    <3>2. CASE Reserve(p)
      BY <2>1, <3>2, ReserveEnters DEF Fifo!Next
    <3>3. CASE ~Reserve(p)
      <4>1. UNCHANGED <<log, enqueue_pos, dequeue_pos, cpc, popped>>
        BY <3>1, <3>3 DEF Push, Begin, SpillTake, SpillNextWord, SpillExhausted,
           SpillCopy, LoadPos, CheckFree, CheckFull, CheckStale, Reject,
           ReserveFails, Pack, Publish, ringVars, consumerVars
      <4>2. QED
        BY <2>2, <4>1 DEF Mapped
    <3>4. QED
      BY <3>2, <3>3
  <2>4. CASE Unpack
    BY <2>1, <2>4, UnpackDelivers DEF Fifo!Next
  <2>5. CASE Test \/ PutBlock \/ Reuse \/ Advance
    BY <2>2, <2>5 DEF Test, PutBlock, Reuse, Advance, Mapped, ringVars
  <2>6. CASE (\E o \in Observers : Depth(o)) \/ UNCHANGED vars
    BY <2>2, <2>6 DEF Depth, DepthFirstLoad, DepthSecondLoad, Mapped, vars,
       ringVars, consumerVars
  <2>7. QED
    BY <2>1, <2>3, <2>4, <2>5, <2>6 DEF Next, Pop
<1>3. QED
  BY <1>1, <1>2, QueueInvariant, PTL DEF Spec, RefinesFifo, Fifo!Spec
==============================================================================
