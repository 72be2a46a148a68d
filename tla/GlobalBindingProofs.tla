------------------------- MODULE GlobalBindingProofs -------------------------
(***************************************************************************)
(* Proofs about the default slot (GlobalBinding), for every set of         *)
(* readers, controllers and instances, every last generation and every     *)
(* number of lock calls that fail.                                         *)
(***************************************************************************)
EXTENDS GlobalBinding, TLAPS

-----------------------------------------------------------------------------
(* The inductive invariant                                                 *)

Alive(i) == state[i] \in {"RUNNING", "STOPPING"}

\* A controller past its checks and before its publication.
Rebinding(c) == pc[c] \in {"close", "wrlock", "install", "publish"}

\* Who holds which lock.  A controller that holds the write lock still holds
\* g_control_mu, also when an unlock failed and the thread is lost with both.
LocksInv ==
    /\ \A c \in Controllers : pc[c] = "validate" \/ Rebinding(c) => control = c
    /\ \A c \in Controllers : pc[c] \in {"install", "publish"} => writing = c
    /\ writing # NULL =>
        /\ control = writing /\ reading = {}
        /\ pc[writing] \in {"install", "publish", "finish", "poison", "poison_ticket", "lost"}
    /\ \A r \in Readers : pc[r] \in {"pin", "use"} => r \in reading

\* What a controller past its checks knows of the binding it replaces.
TicketInv ==
    \A c \in Controllers : Rebinding(c) =>
        /\ current[c] = seen[c]
        /\ g_ticket.generation = current[c].generation
        /\ current[c].generation < MaxGeneration
        /\ expected[c] # replacement[c]
        /\ g_logger = IF pc[c] = "publish" THEN replacement[c] ELSE expected[c]

\* A mark is set only on a live instance, and so is the name in a call.
MarkedIsAlive ==
    /\ \A i \in Instances : default_borrowed[i] => Alive(i)
    /\ \A c \in Controllers : \A i \in Named(c) \ {NULL} : Alive(i)

\* Every loan is marked, and no two of them are of one instance: the slot's,
\* the ones still to be given back, and the one a publication replaces.  The
\* instance about to be lent is not marked yet.
LoansInv ==
    /\ g_logger # NULL => default_borrowed[g_logger]
    /\ \A c \in Controllers : release_borrow[c] # NULL =>
        /\ pc[c] \in {"finish", "finish_control", "leave", "poison", "poison_ticket", "lost"}
        /\ default_borrowed[release_borrow[c]] /\ release_borrow[c] # g_logger
    /\ \A c, d \in Controllers :
        release_borrow[c] # NULL /\ release_borrow[c] = release_borrow[d] => c = d
    /\ \A c \in Controllers : Rebinding(c) /\ pc[c] # "publish" /\ replacement[c] # NULL =>
        ~default_borrowed[replacement[c]]
    /\ \A c \in Controllers : pc[c] = "publish" /\ expected[c] # NULL =>
        /\ default_borrowed[expected[c]]
        /\ \A d \in Controllers : release_borrow[d] # expected[c]

\* A reader works with the slot's instance, and only inside the call.
ReadersInv ==
    /\ \A r \in Readers : used[r] # NULL => pc[r] = "use"
    /\ ReaderKeepsGeneration

SlotInv == LocksInv /\ TicketInv /\ MarkedIsAlive /\ LoansInv /\ ReadersInv

BindingInv == TypeOK /\ SlotInv

-----------------------------------------------------------------------------
(* One lemma per action                                                    *)

\* Steps that neither set nor give back a mark keep the loans apart.
LEMMA LoansKept ==
  ASSUME TypeOK, LoansInv, NEW t \in Callers, NEW step,
         pc' = [pc EXCEPT ![t] = step],
         UNCHANGED <<g_logger, default_borrowed, release_borrow, expected, replacement>>,
         step # "publish",
         step \in {"close", "wrlock", "install"} => pc[t] \in {"close", "wrlock", "install"},
         pc[t] \in {"finish", "finish_control", "leave", "poison", "poison_ticket", "lost"} =>
            step \in {"finish", "finish_control", "leave", "poison", "poison_ticket", "lost"}
  PROVE  LoansInv'
<1> USE CallersAssumption DEF TypeOK, Callers
<1>1. /\ \A d \in Callers \ {t} : pc'[d] = pc[d]
      /\ pc'[t] = step
  OBVIOUS
<1>2. \A d \in Controllers :
        /\ Rebinding(d)' /\ pc'[d] # "publish" => Rebinding(d) /\ pc[d] # "publish"
        /\ pc'[d] = "publish" => pc[d] = "publish"
  BY <1>1 DEF Rebinding
<1>3. \A d \in Controllers : release_borrow[d] # NULL =>
        pc'[d] \in {"finish", "finish_control", "leave", "poison", "poison_ticket", "lost"}
  BY <1>1 DEF LoansInv
<1>4. QED
  BY <1>2, <1>3 DEF LoansInv

\* The lifetime lock is released, or its release fails and poisons the slot.
LEMMA UnlockLifetimeKeeps ==
  ASSUME BindingInv, NEW t \in Callers, UnlockLifetime(t)
  PROVE  BindingInv'
<1> USE CallersAssumption, InstancesAssumption, BoundsAssumption
    DEF BindingInv, SlotInv, Rebinding, UnlockLifetime, Goto, TypeOK, Callers, Slots, Tickets, Phases
<1>a. PICK step \in {"finish_control", "leave", "poison"} : pc' = [pc EXCEPT ![t] = step]
  OBVIOUS
<1>b. /\ pc[t] = "finish" /\ faults' \in 0..MaxFaults
      /\ reading' \in {reading, reading \ {t}}
      /\ \/ writing' = writing /\ (writing = t => step = "poison")
         \/ writing' = NULL /\ writing = t
  <2>1. CASE step \in {"finish_control", "leave"}
    BY <1>a, <2>1 DEF Fault
  <2>2. CASE step = "poison"
    BY <1>a, <2>2 DEF Fault
  <2>3. QED
    BY <2>1, <2>2
<1>c. UNCHANGED <<g_ticket, g_lock_error, g_logger, control, default_borrowed, state, seen,
                  current, expected, replacement, used, release_borrow>>
  BY DEF locals, args
<1> HIDE DEF UnlockLifetime
<1>1. TypeOK'
  BY <1>a, <1>b, <1>c
<1>2. LocksInv'
  BY <1>a, <1>b, <1>c DEF LocksInv
<1>3. TicketInv'
  BY <1>a, <1>b, <1>c DEF TicketInv
<1>4. MarkedIsAlive'
  BY <1>a, <1>b, <1>c DEF MarkedIsAlive, Alive, Named
<1>5. LoansInv'
  BY <1>a, <1>b, <1>c, LoansKept
<1>6. ReadersInv'
  BY <1>a, <1>b, <1>c DEF ReadersInv, ReaderKeepsGeneration
<1>7. QED
  BY <1>1, <1>2, <1>3, <1>4, <1>5, <1>6

\* The control mutex is released, or its release fails.
LEMMA UnlockControlKeeps ==
  ASSUME BindingInv, NEW t \in Callers, UnlockControl(t)
  PROVE  BindingInv'
<1> USE CallersAssumption, InstancesAssumption, BoundsAssumption
    DEF BindingInv, SlotInv, Rebinding, UnlockControl, Goto, TypeOK, Callers, Slots, Tickets, Phases
<1>a. PICK step \in {"leave", "poison"} : pc' = [pc EXCEPT ![t] = step]
  OBVIOUS
<1>b. /\ pc[t] = "finish_control" /\ faults' \in 0..MaxFaults
      /\ control' = control \/ (control = t /\ control' = NULL)
  BY DEF Fault
<1>c. UNCHANGED <<g_ticket, g_lock_error, g_logger, reading, writing, default_borrowed, state,
                  seen, current, expected, replacement, used, release_borrow>>
  BY DEF locals, args
<1> HIDE DEF UnlockControl
<1>1. TypeOK'
  BY <1>a, <1>b, <1>c
<1>2. LocksInv'
  BY <1>a, <1>b, <1>c DEF LocksInv
<1>3. TicketInv'
  BY <1>a, <1>b, <1>c DEF TicketInv
<1>4. MarkedIsAlive'
  BY <1>a, <1>b, <1>c DEF MarkedIsAlive, Alive, Named
<1>5. LoansInv'
  BY <1>a, <1>b, <1>c, LoansKept
<1>6. ReadersInv'
  BY <1>a, <1>b, <1>c DEF ReadersInv, ReaderKeepsGeneration
<1>7. QED
  BY <1>1, <1>2, <1>3, <1>4, <1>5, <1>6

\* The poison's first half sets the error.
LEMMA PoisonErrorKeeps ==
  ASSUME BindingInv, NEW t \in Callers, PoisonError(t)
  PROVE  BindingInv'
<1> USE CallersAssumption, InstancesAssumption, BoundsAssumption
    DEF BindingInv, SlotInv, Rebinding, locks, locals, args, PoisonError, Goto, TypeOK, Callers, Slots, Tickets, Phases
<1>1. TypeOK'
  OBVIOUS
<1>2. LocksInv'
  BY DEF LocksInv
<1>3. TicketInv'
  BY DEF LocksInv, TicketInv
<1>4. MarkedIsAlive'
  BY DEF MarkedIsAlive, Alive, Named
<1>5. LoansInv'
  BY DEF LoansInv
<1>6. ReadersInv'
  BY DEF ReadersInv, ReaderKeepsGeneration, LocksInv
<1>7. QED
  BY <1>1, <1>2, <1>3, <1>4, <1>5, <1>6

\* Its second half breaks the ticket and keeps the generation.
LEMMA PoisonTicketKeeps ==
  ASSUME BindingInv, NEW t \in Callers, PoisonTicket(t)
  PROVE  BindingInv'
<1> USE CallersAssumption, InstancesAssumption, BoundsAssumption
    DEF BindingInv, SlotInv, Rebinding, locks, locals, args, Unset, Forget, PoisonTicket, Goto, TypeOK, Callers, Slots, Tickets, Phases
<1>1. TypeOK'
  <2>1. Unset \in Tickets /\ NULL \in Slots /\ [g_ticket EXCEPT !.phase = "BROKEN"] \in Tickets
    OBVIOUS
  <2>2. /\ g_ticket' = [g_ticket EXCEPT !.phase = "BROKEN"]
        /\ pc' = [pc EXCEPT ![t] = "lost"] /\ seen' = [seen EXCEPT ![t] = Unset]
        /\ UNCHANGED <<g_lock_error, g_logger, control, reading, writing, default_borrowed, state,
                       used, release_borrow, faults>>
    OBVIOUS
  <2>3. /\ current' \in [Controllers -> Tickets]
        /\ expected' \in [Controllers -> Slots] /\ replacement' \in [Controllers -> Slots]
    <3>1. CASE t \in Controllers
      <4>1. /\ current' = [current EXCEPT ![t] = Unset]
            /\ expected' = [expected EXCEPT ![t] = NULL]
            /\ replacement' = [replacement EXCEPT ![t] = NULL]
        BY <3>1
      <4> HIDE DEF PoisonTicket, Unset, Tickets
      <4>2. QED
        BY <2>1, <3>1, <4>1
    <3>2. CASE t \notin Controllers
      BY <3>2
    <3>3. QED
      BY <3>1, <3>2
  <2> HIDE DEF PoisonTicket, Unset, Tickets
  <2>4. QED
    BY <2>1, <2>2, <2>3
<1>2. LocksInv'
  BY DEF LocksInv
<1>3. TicketInv'
  BY DEF LocksInv, TicketInv
<1>4. MarkedIsAlive'
  BY DEF MarkedIsAlive, Alive, Named
<1>5. LoansInv'
  BY DEF LoansInv
<1>6. ReadersInv'
  BY DEF ReadersInv, ReaderKeepsGeneration, LocksInv
<1>7. QED
  BY <1>1, <1>2, <1>3, <1>4, <1>5, <1>6

\* The loan that was replaced is given back; nobody else has it.
LEMMA LeaveKeeps ==
  ASSUME BindingInv, NEW t \in Callers, Leave(t)
  PROVE  BindingInv'
<1> USE CallersAssumption, InstancesAssumption, BoundsAssumption
    DEF BindingInv, SlotInv, Rebinding, locks, locals, args, Unset, Forget, Leave, Goto, TypeOK, Callers, Slots, Tickets, Phases
<1>1. TypeOK'
  <2>1. CASE t \in Controllers
    <3>1. Unset \in Tickets /\ NULL \in Slots
      OBVIOUS
    <3>2. default_borrowed' \in [Instances -> BOOLEAN]
      <4>1. default_borrowed' = [i \in Instances |-> default_borrowed[i] /\ i # release_borrow[t]]
        BY <2>1
      <4> HIDE DEF Leave, TypeOK, BindingInv
      <4>2. \A i \in Instances : (default_borrowed[i] /\ i # release_borrow[t]) \in BOOLEAN
        BY Zenon
      <4>3. QED
        BY <4>1, <4>2, Zenon
    <3>3. pc' = [pc EXCEPT ![t] = "idle"] /\ seen' = [seen EXCEPT ![t] = Unset]
      OBVIOUS
    <3>4. /\ release_borrow' = [release_borrow EXCEPT ![t] = NULL]
          /\ current' = [current EXCEPT ![t] = Unset]
          /\ expected' = [expected EXCEPT ![t] = NULL]
          /\ replacement' = [replacement EXCEPT ![t] = NULL]
      BY <2>1
    <3>5. UNCHANGED <<g_ticket, g_lock_error, g_logger, control, reading, writing, state, used,
                      faults>>
      OBVIOUS
    <3> HIDE DEF Leave, Unset
    <3>6. QED
      BY <2>1, <3>1, <3>2, <3>3, <3>4, <3>5
  <2>2. CASE t \notin Controllers
    BY <2>2
  <2>3. QED
    BY <2>1, <2>2
<1>2. LocksInv'
  BY DEF LocksInv
<1>3. TicketInv'
  BY DEF LocksInv, TicketInv
<1>4. MarkedIsAlive'
  BY DEF MarkedIsAlive, Alive, Named
<1>5. LoansInv'
  <2>1. CASE t \in Controllers
    <3>1. /\ pc' = [pc EXCEPT ![t] = "idle"]
          /\ default_borrowed' = [i \in Instances |-> default_borrowed[i] /\ i # release_borrow[t]]
          /\ release_borrow' = [release_borrow EXCEPT ![t] = NULL]
          /\ \A c \in Controllers \ {t} : expected'[c] = expected[c] /\ replacement'[c] = replacement[c]
          /\ g_logger' = g_logger
      BY <2>1
    <3>2. /\ pc'[t] = "idle" /\ release_borrow'[t] = NULL
          /\ \A c \in Controllers \ {t} : pc'[c] = pc[c] /\ release_borrow'[c] = release_borrow[c]
      BY <2>1, <3>1
    <3>3. \A i \in Instances : default_borrowed'[i] <=> default_borrowed[i] /\ i # release_borrow[t]
      BY <3>1
    <3> HIDE DEF Leave
    <3>4. g_logger' # NULL => default_borrowed'[g_logger']
      BY <2>1, <3>1, <3>3 DEF LoansInv
    <3>5. ASSUME NEW c \in Controllers, release_borrow'[c] # NULL
          PROVE  /\ pc'[c] \in {"finish", "finish_control", "leave", "poison", "poison_ticket", "lost"}
                 /\ default_borrowed'[release_borrow'[c]] /\ release_borrow'[c] # g_logger'
      <4>1. c # t /\ release_borrow'[c] = release_borrow[c] /\ release_borrow[c] \in Instances
        BY <2>1, <3>2, <3>5
      <4>2. release_borrow[c] # release_borrow[t]
        BY <2>1, <3>5, <4>1 DEF LoansInv
      <4>3. QED
        BY <3>1, <3>2, <3>3, <3>5, <4>1, <4>2 DEF LoansInv
    <3>6. ASSUME NEW c \in Controllers, pc'[c] = "publish", expected'[c] # NULL
          PROVE  /\ default_borrowed'[expected'[c]]
                 /\ \A d \in Controllers : release_borrow'[d] # expected'[c]
      <4>1. c # t /\ pc[c] = "publish" /\ expected'[c] = expected[c] /\ expected[c] \in Instances
        BY <2>1, <3>1, <3>2, <3>6
      <4>2. QED
        BY <2>1, <3>2, <3>3, <3>6, <4>1 DEF LoansInv
    <3>7. ASSUME NEW c \in Controllers, pc'[c] \in {"close", "wrlock", "install"},
                 replacement'[c] # NULL
          PROVE  ~default_borrowed'[replacement'[c]]
      <4>1. c # t /\ pc[c] = pc'[c] /\ replacement'[c] = replacement[c] /\ replacement[c] \in Instances
        BY <2>1, <3>1, <3>2, <3>7
      <4>2. QED
        BY <3>3, <3>7, <4>1 DEF LoansInv
    <3>8. \A c, d \in Controllers :
            release_borrow'[c] # NULL /\ release_borrow'[c] = release_borrow'[d] => c = d
      BY <3>2 DEF LoansInv
    <3>9. QED
      BY <3>4, <3>5, <3>6, <3>7, <3>8 DEF LoansInv
  <2>2. CASE t \notin Controllers
    BY <2>2 DEF LoansInv
  <2>3. QED
    BY <2>1, <2>2
<1>6. ReadersInv'
  BY DEF ReadersInv, ReaderKeepsGeneration, LocksInv
<1>7. QED
  BY <1>1, <1>2, <1>3, <1>4, <1>5, <1>6

\* A reader observes the ticket.
LEMMA PinLoadKeeps ==
  ASSUME BindingInv, NEW r \in Readers, PinLoad(r)
  PROVE  BindingInv'
<1> USE CallersAssumption, InstancesAssumption, BoundsAssumption
    DEF BindingInv, SlotInv, Rebinding, locks, locals, args, PinLoad, Goto, TypeOK, Callers, Slots, Tickets, Phases
<1>1. TypeOK'
  OBVIOUS
<1>2. LocksInv'
  BY DEF LocksInv
<1>3. TicketInv'
  BY DEF LocksInv, TicketInv
<1>4. MarkedIsAlive'
  BY DEF MarkedIsAlive, Alive, Named
<1>5. LoansInv'
  BY DEF LoansInv
<1>6. ReadersInv'
  BY DEF ReadersInv, ReaderKeepsGeneration, LocksInv
<1>7. QED
  BY <1>1, <1>2, <1>3, <1>4, <1>5, <1>6

\* A reader takes the lock, or fails to.
LEMMA PinLockKeeps ==
  ASSUME BindingInv, NEW r \in Readers, PinLock(r)
  PROVE  BindingInv'
<1> USE CallersAssumption, InstancesAssumption, BoundsAssumption
    DEF BindingInv, SlotInv, Rebinding, PinLock, Goto, TypeOK, Callers, Slots, Tickets, Phases
<1>a. /\ pc[r] = "rdlock" /\ faults' \in 0..MaxFaults
      /\ \/ pc' = [pc EXCEPT ![r] = "pin"] /\ writing = NULL /\ reading' = reading \cup {r}
         \/ pc' = [pc EXCEPT ![r] = "finish"] /\ reading' = reading
  BY DEF Fault
<1>b. UNCHANGED <<g_ticket, g_lock_error, g_logger, control, writing, default_borrowed, state,
                  seen, current, expected, replacement, used, release_borrow>>
  BY DEF locals, args
<1> HIDE DEF PinLock
<1>1. TypeOK'
  BY <1>a, <1>b
<1>2. LocksInv'
  BY <1>a, <1>b DEF LocksInv
<1>3. TicketInv'
  BY <1>a, <1>b DEF LocksInv, TicketInv
<1>4. MarkedIsAlive'
  BY <1>a, <1>b DEF MarkedIsAlive, Alive, Named
<1>5. LoansInv'
  BY <1>a, <1>b, LoansKept
<1>6. ReadersInv'
  BY <1>a, <1>b DEF ReadersInv, ReaderKeepsGeneration, LocksInv
<1>7. QED
  BY <1>1, <1>2, <1>3, <1>4, <1>5, <1>6

\* Under the lock, the reader finds the ticket it observed or leaves.
LEMMA PinCheckKeeps ==
  ASSUME BindingInv, NEW r \in Readers, PinCheck(r)
  PROVE  BindingInv'
<1> USE CallersAssumption, InstancesAssumption, BoundsAssumption
    DEF BindingInv, SlotInv, Rebinding, PinCheck, Goto, TypeOK, Callers, Slots, Tickets, Phases
<1>a. /\ pc[r] = "pin"
      /\ \/ /\ pc' = [pc EXCEPT ![r] = "use"] /\ g_ticket = seen[r] /\ g_logger # NULL
            /\ used' = [used EXCEPT ![r] = g_logger]
         \/ pc' = [pc EXCEPT ![r] = "finish"] /\ used' = used
  OBVIOUS
<1>b. UNCHANGED <<g_ticket, g_lock_error, g_logger, control, reading, writing, default_borrowed,
                  state, seen, current, expected, replacement, release_borrow, faults>>
  BY DEF locks, locals, args
<1> HIDE DEF PinCheck
<1>1. TypeOK'
  <2>1. used' \in [Readers -> Slots]
    <3>1. used \in [Readers -> Slots] /\ g_logger \in Slots
      OBVIOUS
    <3> HIDE DEF TypeOK, Slots
    <3>2. QED
      BY <1>a, <3>1
  <2>2. PICK step \in {"use", "finish"} : pc' = [pc EXCEPT ![r] = step]
    BY <1>a
  <2>3. r \in Callers
    OBVIOUS
  <2>4. QED
    BY <1>b, <2>1, <2>2, <2>3
<1>2. LocksInv'
  BY <1>a, <1>b DEF LocksInv
<1>3. TicketInv'
  BY <1>a, <1>b DEF LocksInv, TicketInv
<1>4. MarkedIsAlive'
  BY <1>a, <1>b DEF MarkedIsAlive, Alive, Named
<1>5. LoansInv'
  BY <1>a, <1>b, LoansKept
<1>6. ReadersInv'
  BY <1>a, <1>b DEF ReadersInv, ReaderKeepsGeneration, LocksInv
<1>7. QED
  BY <1>1, <1>2, <1>3, <1>4, <1>5, <1>6

\* The instance call returns.
LEMMA UseEndKeeps ==
  ASSUME BindingInv, NEW r \in Readers, UseEnd(r)
  PROVE  BindingInv'
<1> USE CallersAssumption, InstancesAssumption, BoundsAssumption
    DEF BindingInv, SlotInv, Rebinding, locks, locals, args, UseEnd, Goto, TypeOK, Callers, Slots, Tickets, Phases
<1>1. TypeOK'
  OBVIOUS
<1>2. LocksInv'
  BY DEF LocksInv
<1>3. TicketInv'
  BY DEF LocksInv, TicketInv
<1>4. MarkedIsAlive'
  BY DEF MarkedIsAlive, Alive, Named
<1>5. LoansInv'
  BY DEF LoansInv
<1>6. ReadersInv'
  BY DEF ReadersInv, ReaderKeepsGeneration, LocksInv
<1>7. QED
  BY <1>1, <1>2, <1>3, <1>4, <1>5, <1>6

\* A rebinding begins with live instances.
LEMMA SetBeginKeeps ==
  ASSUME BindingInv, NEW c \in Controllers, SetBegin(c)
  PROVE  BindingInv'
<1> USE CallersAssumption, InstancesAssumption, BoundsAssumption
    DEF BindingInv, SlotInv, Rebinding, locks, locals, args, SetBegin, Goto, TypeOK, Callers, Slots, Tickets, Phases
<1>1. TypeOK'
  OBVIOUS
<1>2. LocksInv'
  BY DEF LocksInv
<1>3. TicketInv'
  BY DEF LocksInv, TicketInv
<1>4. MarkedIsAlive'
  BY DEF MarkedIsAlive, Alive, Named
<1>5. LoansInv'
  BY DEF LoansInv
<1>6. ReadersInv'
  BY DEF ReadersInv, ReaderKeepsGeneration, LocksInv
<1>7. QED
  BY <1>1, <1>2, <1>3, <1>4, <1>5, <1>6

\* It takes the control mutex, or fails to.
LEMMA LockControlKeeps ==
  ASSUME BindingInv, NEW c \in Controllers, LockControl(c)
  PROVE  BindingInv'
<1> USE CallersAssumption, InstancesAssumption, BoundsAssumption
    DEF BindingInv, SlotInv, Rebinding, LockControl, Goto, TypeOK, Callers, Slots, Tickets, Phases
<1>a. PICK step \in {"validate", "finish"} : pc' = [pc EXCEPT ![c] = step]
  OBVIOUS
<1>b. /\ pc[c] = "control" /\ faults' \in 0..MaxFaults
      /\ \/ control = NULL /\ control' = c
         \/ step = "finish" /\ control' = control
  BY <1>a DEF Fault
<1>c. UNCHANGED <<g_ticket, g_lock_error, g_logger, reading, writing, default_borrowed, state,
                  seen, current, expected, replacement, used, release_borrow>>
  BY DEF locals, args
<1> HIDE DEF LockControl
<1>1. TypeOK'
  BY <1>a, <1>b, <1>c
<1>2. LocksInv'
  BY <1>a, <1>b, <1>c DEF LocksInv
<1>3. TicketInv'
  BY <1>a, <1>b, <1>c DEF LocksInv, TicketInv
<1>4. MarkedIsAlive'
  BY <1>a, <1>b, <1>c DEF MarkedIsAlive, Alive, Named
<1>5. LoansInv'
  BY <1>a, <1>b, <1>c, LoansKept
<1>6. ReadersInv'
  BY <1>a, <1>b, <1>c DEF ReadersInv, ReaderKeepsGeneration, LocksInv
<1>7. QED
  BY <1>1, <1>2, <1>3, <1>4, <1>5, <1>6

\* Its checks hold of the binding in the slot.
LEMMA ValidateKeeps ==
  ASSUME BindingInv, NEW c \in Controllers, Validate(c)
  PROVE  BindingInv'
<1> USE CallersAssumption, InstancesAssumption, BoundsAssumption
    DEF BindingInv, SlotInv, Rebinding, locks, locals, args, Lendable, Validate, Goto, TypeOK, Callers, Slots, Tickets, Phases
<1>1. TypeOK'
  OBVIOUS
<1>2. LocksInv'
  BY DEF LocksInv
<1>3. TicketInv'
  BY DEF LocksInv, TicketInv
<1>4. MarkedIsAlive'
  BY DEF MarkedIsAlive, Alive, Named
<1>5. LoansInv'
  BY DEF LoansInv
<1>6. ReadersInv'
  BY DEF ReadersInv, ReaderKeepsGeneration, LocksInv
<1>7. QED
  BY <1>1, <1>2, <1>3, <1>4, <1>5, <1>6

\* It closes admission.
LEMMA CloseKeeps ==
  ASSUME BindingInv, NEW c \in Controllers, Close(c)
  PROVE  BindingInv'
<1> USE CallersAssumption, InstancesAssumption, BoundsAssumption
    DEF BindingInv, SlotInv, Rebinding, Close, Goto, TypeOK, Callers, Slots, Tickets, Phases
<1>a. /\ pc[c] = "close" /\ g_ticket' \in Tickets
      /\ g_ticket'.generation = g_ticket.generation
      /\ \/ pc' = [pc EXCEPT ![c] = "wrlock"]
         \/ pc' = [pc EXCEPT ![c] = "finish"]
  OBVIOUS
<1>b. UNCHANGED <<g_lock_error, g_logger, control, reading, writing, default_borrowed, state, seen,
                  current, expected, replacement, used, release_borrow, faults>>
  BY DEF locks, locals, args
<1> HIDE DEF Close
<1>1. TypeOK'
  BY <1>a, <1>b
<1>2. LocksInv'
  BY <1>a, <1>b DEF LocksInv
<1>3. TicketInv'
  BY <1>a, <1>b DEF LocksInv, TicketInv
<1>4. MarkedIsAlive'
  BY <1>a, <1>b DEF MarkedIsAlive, Alive, Named
<1>5. LoansInv'
  BY <1>a, <1>b, LoansKept
<1>6. ReadersInv'
  BY <1>a, <1>b DEF ReadersInv, ReaderKeepsGeneration, LocksInv
<1>7. QED
  BY <1>1, <1>2, <1>3, <1>4, <1>5, <1>6

\* It waits for the readers, or reopens admission.
LEMMA DrainKeeps ==
  ASSUME BindingInv, NEW c \in Controllers, Drain(c)
  PROVE  BindingInv'
<1> USE CallersAssumption, InstancesAssumption, BoundsAssumption
    DEF BindingInv, SlotInv, Rebinding, Drain, Goto, TypeOK, Callers, Slots, Tickets, Phases
<1>a. PICK step \in {"install", "finish"} : pc' = [pc EXCEPT ![c] = step]
  OBVIOUS
<1>b. /\ pc[c] = "wrlock" /\ faults' \in 0..MaxFaults
      /\ \/ writing = NULL /\ reading = {} /\ writing' = c /\ g_ticket' = g_ticket
         \/ /\ step = "finish" /\ writing' = writing
            /\ g_ticket' = IF g_ticket = Updating(c) THEN current[c] ELSE g_ticket
  BY <1>a DEF Fault
<1>c. UNCHANGED <<g_lock_error, g_logger, control, reading, default_borrowed, state, seen, current,
                  expected, replacement, used, release_borrow>>
  BY DEF locals, args
<1>d. g_ticket' \in Tickets /\ g_ticket'.generation = g_ticket.generation
  BY <1>b DEF TicketInv
<1> HIDE DEF Drain
<1>1. TypeOK'
  BY <1>a, <1>b, <1>c, <1>d
<1>2. LocksInv'
  BY <1>a, <1>b, <1>c, <1>d DEF LocksInv
<1>3. TicketInv'
  BY <1>a, <1>b, <1>c, <1>d DEF LocksInv, TicketInv
<1>4. MarkedIsAlive'
  BY <1>a, <1>b, <1>c, <1>d DEF MarkedIsAlive, Alive, Named
<1>5. LoansInv'
  BY <1>a, <1>b, <1>c, <1>d, LoansKept
<1>6. ReadersInv'
  BY <1>a, <1>b, <1>c, <1>d DEF ReadersInv, ReaderKeepsGeneration, LocksInv
<1>7. QED
  BY <1>1, <1>2, <1>3, <1>4, <1>5, <1>6

\* It marks the replacement and puts it into the slot.
LEMMA InstallKeeps ==
  ASSUME BindingInv, NEW c \in Controllers, Install(c)
  PROVE  BindingInv'
<1> USE CallersAssumption, InstancesAssumption, BoundsAssumption
    DEF BindingInv, SlotInv, Rebinding, locks, locals, args, Install, Goto, TypeOK, Callers, Slots, Tickets, Phases
<1>1. TypeOK'
  OBVIOUS
<1>2. LocksInv'
  BY DEF LocksInv
<1>3. TicketInv'
  BY DEF LocksInv, TicketInv
<1>4. MarkedIsAlive'
  BY DEF MarkedIsAlive, Alive, Named
<1>5. LoansInv'
  <2>1. /\ pc[c] = "install" /\ pc' = [pc EXCEPT ![c] = "publish"] /\ g_logger' = replacement[c]
        /\ UNCHANGED <<release_borrow, expected, replacement>>
    OBVIOUS
  <2>2. /\ pc'[c] = "publish" /\ \A d \in Controllers \ {c} : pc'[d] = pc[d]
        /\ \A d \in Controllers \ {c} : ~Rebinding(d)
    BY <2>1 DEF LocksInv
  <2>3. \A i \in Instances : default_borrowed'[i] <=> default_borrowed[i] \/ i = replacement[c]
    OBVIOUS
  <2>4. /\ release_borrow[c] = NULL /\ expected[c] # replacement[c] /\ g_logger = expected[c]
        /\ \A d \in Controllers : release_borrow[d] # NULL =>
             release_borrow[d] # g_logger /\ release_borrow[d] # replacement[c]
    BY <2>1 DEF LoansInv, TicketInv
  <2>5. \A d \in Controllers : release_borrow[d] \in Slots /\ expected[d] \in Slots
    OBVIOUS
  <2> HIDE DEF Install
  <2>6. g_logger' # NULL => default_borrowed'[g_logger']
    BY <2>1, <2>3
  <2>7. ASSUME NEW d \in Controllers, release_borrow[d] # NULL
        PROVE  /\ pc'[d] \in {"finish", "finish_control", "leave", "poison", "poison_ticket", "lost"}
               /\ default_borrowed'[release_borrow[d]] /\ release_borrow[d] # g_logger'
    BY <2>1, <2>2, <2>3, <2>4, <2>5, <2>7 DEF LoansInv
  <2>8. expected[c] # NULL => /\ default_borrowed'[expected[c]]
                              /\ \A d \in Controllers : release_borrow[d] # expected[c]
    BY <2>3, <2>4, <2>5 DEF LoansInv
  <2>9. QED
    BY <2>1, <2>2, <2>6, <2>7, <2>8 DEF LoansInv
<1>6. ReadersInv'
  BY DEF ReadersInv, ReaderKeepsGeneration, LocksInv
<1>7. QED
  BY <1>1, <1>2, <1>3, <1>4, <1>5, <1>6

\* It publishes the next generation, or puts the old instance back.
LEMMA PublishKeeps ==
  ASSUME BindingInv, NEW c \in Controllers, Publish(c)
  PROVE  BindingInv'
<1> USE CallersAssumption, InstancesAssumption, BoundsAssumption
    DEF BindingInv, SlotInv, Rebinding, Publish, Goto, TypeOK, Callers, Slots, Tickets, Phases
<1>a. /\ pc[c] = "publish" /\ pc' = [pc EXCEPT ![c] = "finish"]
      /\ UNCHANGED <<g_lock_error, control, reading, writing, default_borrowed, state, seen,
                     current, expected, replacement, used, faults>>
  BY DEF locks, locals, args
<1>b. \/ /\ g_logger' = replacement[c] /\ g_ticket' \in Tickets
         /\ release_borrow' = [release_borrow EXCEPT ![c] = expected[c]]
      \/ /\ g_logger' = expected[c] /\ g_ticket' = g_ticket
         /\ release_borrow' = [release_borrow EXCEPT ![c] = replacement[c]]
  BY DEF TicketInv
<1>c. /\ writing = c /\ control = c /\ reading = {} /\ \A d \in Controllers \ {c} : ~Rebinding(d)
      /\ \A r \in Readers : pc[r] \notin {"pin", "use"}
  BY <1>a DEF LocksInv
<1> HIDE DEF Publish
<1>1. TypeOK'
  BY <1>a, <1>b, <1>c
<1>2. LocksInv'
  BY <1>a, <1>b, <1>c DEF LocksInv
<1>3. TicketInv'
  BY <1>a, <1>b, <1>c DEF LocksInv, TicketInv
<1>4. MarkedIsAlive'
  BY <1>a, <1>b, <1>c DEF MarkedIsAlive, Alive, Named
<1>5. LoansInv'
  <2>1. /\ expected[c] # replacement[c] /\ g_logger = replacement[c]
        /\ release_borrow[c] = NULL
    BY <1>a DEF TicketInv, LoansInv
  <2>2. /\ pc'[c] = "finish"
        /\ \A d \in Controllers \ {c} : pc'[d] = pc[d] /\ release_borrow'[d] = release_borrow[d]
    BY <1>a, <1>b
  <2>3. \A d \in Controllers \ {c} : ~Rebinding(d)'
    BY <1>c, <2>2
  <2>4. \A d \in Controllers : release_borrow[d] # NULL =>
          release_borrow[d] # replacement[c] /\ release_borrow[d] # expected[c]
    BY <1>a, <2>1 DEF LoansInv
  <2>5. /\ replacement[c] # NULL => default_borrowed[replacement[c]]
        /\ expected[c] # NULL => default_borrowed[expected[c]]
    BY <1>a, <2>1 DEF LoansInv
  <2>6. \/ release_borrow'[c] = expected[c] /\ g_logger' = replacement[c]
        \/ release_borrow'[c] = replacement[c] /\ g_logger' = expected[c]
    BY <1>b
  <2>7. /\ g_logger' # NULL => default_borrowed[g_logger']
        /\ release_borrow'[c] # NULL => /\ default_borrowed[release_borrow'[c]]
                                       /\ release_borrow'[c] # g_logger'
    BY <2>1, <2>5, <2>6
  <2>8. ASSUME NEW d \in Controllers, release_borrow'[d] # NULL
        PROVE  /\ pc'[d] \in {"finish", "finish_control", "leave", "poison", "poison_ticket", "lost"}
               /\ default_borrowed[release_borrow'[d]] /\ release_borrow'[d] # g_logger'
    <3>1. CASE d = c
      BY <2>2, <2>7, <2>8, <3>1
    <3>2. CASE d # c
      BY <2>2, <2>4, <2>6, <2>8, <3>2 DEF LoansInv
    <3>3. QED
      BY <3>1, <3>2
  <2>9. ASSUME NEW d \in Controllers, NEW e \in Controllers, release_borrow'[d] # NULL,
               release_borrow'[d] = release_borrow'[e]
        PROVE  d = e
    <3>1. CASE d # c /\ e # c
      BY <2>2, <2>9, <3>1 DEF LoansInv
    <3>2. CASE d = c \/ e = c
      BY <2>2, <2>4, <2>6, <2>9, <3>2
    <3>3. QED
      BY <3>1, <3>2
  <2>10. QED
    BY <1>a, <2>2, <2>3, <2>7, <2>8, <2>9 DEF LoansInv
<1>6. ReadersInv'
  BY <1>a, <1>b, <1>c DEF ReadersInv, ReaderKeepsGeneration, LocksInv
<1>7. QED
  BY <1>1, <1>2, <1>3, <1>4, <1>5, <1>6

\* logger_destroy consumes an instance that nobody has.
LEMMA DestroyCheckKeeps ==
  ASSUME BindingInv, NEW i \in Instances, DestroyCheck(i)
  PROVE  BindingInv'
<1> USE CallersAssumption, InstancesAssumption, BoundsAssumption
    DEF BindingInv, SlotInv, Rebinding, locks, locals, args, DestroyCheck, Goto, TypeOK, Callers, Slots, Tickets, Phases
<1>1. TypeOK'
  OBVIOUS
<1>2. LocksInv'
  BY DEF LocksInv
<1>3. TicketInv'
  BY DEF LocksInv, TicketInv
<1>4. MarkedIsAlive'
  BY DEF MarkedIsAlive, Alive, Named
<1>5. LoansInv'
  BY DEF LoansInv
<1>6. ReadersInv'
  BY DEF ReadersInv, ReaderKeepsGeneration, LocksInv
<1>7. QED
  BY <1>1, <1>2, <1>3, <1>4, <1>5, <1>6

\* It frees the instance.
LEMMA DestroyFreeKeeps ==
  ASSUME BindingInv, NEW i \in Instances, DestroyFree(i)
  PROVE  BindingInv'
<1> USE CallersAssumption, InstancesAssumption, BoundsAssumption
    DEF BindingInv, SlotInv, Rebinding, locks, locals, args, DestroyFree, Goto, TypeOK, Callers, Slots, Tickets, Phases
<1>1. TypeOK'
  OBVIOUS
<1>2. LocksInv'
  BY DEF LocksInv
<1>3. TicketInv'
  BY DEF LocksInv, TicketInv
<1>4. MarkedIsAlive'
  BY DEF MarkedIsAlive, Alive, Named
<1>5. LoansInv'
  BY DEF LoansInv
<1>6. ReadersInv'
  BY DEF ReadersInv, ReaderKeepsGeneration, LocksInv
<1>7. QED
  BY <1>1, <1>2, <1>3, <1>4, <1>5, <1>6

\* An instance stops.
LEMMA FailKeeps ==
  ASSUME BindingInv, NEW i \in Instances, Fail(i)
  PROVE  BindingInv'
<1> USE CallersAssumption, InstancesAssumption, BoundsAssumption
    DEF BindingInv, SlotInv, Rebinding, locks, locals, args, Fail, Goto, TypeOK, Callers, Slots, Tickets, Phases
<1>1. TypeOK'
  OBVIOUS
<1>2. LocksInv'
  BY DEF LocksInv
<1>3. TicketInv'
  BY DEF LocksInv, TicketInv
<1>4. MarkedIsAlive'
  BY DEF MarkedIsAlive, Alive, Named
<1>5. LoansInv'
  BY DEF LoansInv
<1>6. ReadersInv'
  BY DEF ReadersInv, ReaderKeepsGeneration, LocksInv
<1>7. QED
  BY <1>1, <1>2, <1>3, <1>4, <1>5, <1>6

\* A new instance comes to the address of a freed one, without a mark.
LEMMA CreateAgainKeeps ==
  ASSUME BindingInv, NEW i \in Instances, CreateAgain(i)
  PROVE  BindingInv'
<1> USE CallersAssumption, InstancesAssumption, BoundsAssumption
    DEF BindingInv, SlotInv, Rebinding, locks, locals, args, CreateAgain, Goto, TypeOK, Callers, Slots, Tickets, Phases
<1>1. TypeOK'
  OBVIOUS
<1>2. LocksInv'
  BY DEF LocksInv
<1>3. TicketInv'
  BY DEF LocksInv, TicketInv
<1>4. MarkedIsAlive'
  BY DEF MarkedIsAlive, Alive, Named
<1>5. LoansInv'
  <2>1. ~default_borrowed[i]
    BY DEF MarkedIsAlive, Alive
  <2>2. default_borrowed' = default_borrowed
    BY <2>1
  <2>3. QED
    BY <2>2 DEF LoansInv
<1>6. ReadersInv'
  BY DEF ReadersInv, ReaderKeepsGeneration, LocksInv
<1>7. QED
  BY <1>1, <1>2, <1>3, <1>4, <1>5, <1>6

-----------------------------------------------------------------------------
(* The theorems                                                            *)

\* The zeroed domain has no binding and no loan.
LEMMA BindingInit ==
  ASSUME Init
  PROVE  BindingInv
<1> USE CallersAssumption, InstancesAssumption, BoundsAssumption DEF Init
<1>1. TypeOK
  <2>1. Unset \in Tickets /\ NULL \in Slots
    BY DEF Unset, Tickets, Phases, Slots
  <2>2. default_borrowed \in [Instances -> BOOLEAN] /\ g_lock_error \in BOOLEAN
    OBVIOUS
  <2>3. /\ state \in [Instances -> {"RUNNING", "STOPPING", "DYING", "FREED"}]
        /\ pc \in [Callers -> {"idle"}]
    OBVIOUS
  <2>4. /\ seen \in [Callers -> Tickets] /\ current \in [Controllers -> Tickets]
        /\ expected \in [Controllers -> Slots] /\ replacement \in [Controllers -> Slots]
        /\ used \in [Readers -> Slots] /\ release_borrow \in [Controllers -> Slots]
    BY <2>1
  <2>5. QED
    BY <2>1, <2>2, <2>3, <2>4 DEF TypeOK
<1>2. LocksInv /\ TicketInv
  BY DEF LocksInv, TicketInv, Rebinding, Callers
<1>3. MarkedIsAlive
  BY DEF MarkedIsAlive, Alive, Named, Callers
<1>4. LoansInv
  BY DEF LoansInv, Rebinding, Callers
<1>5. ReadersInv
  BY DEF ReadersInv, ReaderKeepsGeneration, Callers
<1>6. QED
  BY <1>1, <1>2, <1>3, <1>4, <1>5 DEF BindingInv, SlotInv

\* Every step keeps the invariant.
LEMMA BindingStep == BindingInv /\ [Next]_vars => BindingInv'
<1>1. SUFFICES ASSUME BindingInv, [Next]_vars PROVE BindingInv'
  OBVIOUS
<1>2. ASSUME NEW t \in Callers, Finish(t) PROVE BindingInv'
  BY <1>1, <1>2, UnlockLifetimeKeeps, UnlockControlKeeps, PoisonErrorKeeps, PoisonTicketKeeps,
     LeaveKeeps DEF Finish
<1>3. ASSUME NEW r \in Readers, PinLoad(r) \/ Reader(r) PROVE BindingInv'
  <2>1. r \in Callers
    BY DEF Callers
  <2>2. QED
    BY <1>1, <1>2, <1>3, <2>1, PinLoadKeeps, PinLockKeeps, PinCheckKeeps, UseEndKeeps DEF Reader
<1>4. ASSUME NEW c \in Controllers, SetBegin(c) \/ Controller(c) PROVE BindingInv'
  <2>1. c \in Callers
    BY DEF Callers
  <2>2. QED
    BY <1>1, <1>2, <1>4, <2>1, SetBeginKeeps, LockControlKeeps, ValidateKeeps, CloseKeeps,
       DrainKeeps, InstallKeeps, PublishKeeps DEF Controller
<1>5. ASSUME NEW i \in Instances, DestroyCheck(i) \/ DestroyFree(i) \/ CreateAgain(i) \/ Fail(i)
      PROVE  BindingInv'
  BY <1>1, <1>5, DestroyCheckKeeps, DestroyFreeKeeps, CreateAgainKeeps, FailKeeps
<1>6. CASE UNCHANGED vars
  <2> USE <1>1, <1>6 DEF vars, locks, locals, args, BindingInv, SlotInv
  <2>1. TypeOK'
    BY DEF TypeOK
  <2>2. LocksInv' /\ TicketInv'
    BY DEF LocksInv, TicketInv, Rebinding
  <2>3. MarkedIsAlive'
    BY DEF MarkedIsAlive, Alive, Named
  <2>4. LoansInv'
    BY DEF LoansInv, Rebinding
  <2>5. ReadersInv'
    BY DEF ReadersInv, ReaderKeepsGeneration
  <2>6. QED
    BY <2>1, <2>2, <2>3, <2>4, <2>5
<1>7. QED
  BY <1>1, <1>3, <1>4, <1>5, <1>6 DEF Next

\* The invariant of locks, ticket, marks and loans holds in every state.
THEOREM BindingInvariant == Spec => []BindingInv
<1>1. Init => BindingInv
  BY BindingInit
<1>2. QED
  BY <1>1, BindingStep, PTL DEF Spec

\* Every variable keeps to its type: the generation never passes the last one
\* the ticket has bits for.
THEOREM BindingTypes == Spec => []TypeOK
<1>1. BindingInv => TypeOK
  BY DEF BindingInv
<1>2. QED
  BY <1>1, BindingInvariant, PTL

\* Whatever the slot holds, a reader works with or a rebinding has still to
\* give back is marked and neither destroyed nor freed.
THEOREM BorrowsAreAlive == Spec => []BorrowedIsAlive
<1>1. BindingInv => BorrowedIsAlive
  <2>1. SUFFICES ASSUME BindingInv, NEW i \in Instances,
                        \/ g_logger = i \/ \E r \in Readers : used[r] = i
                        \/ \E c \in Controllers : release_borrow[c] = i
                 PROVE  default_borrowed[i] /\ state[i] \in {"RUNNING", "STOPPING"}
    BY DEF BorrowedIsAlive
  <2>2. i # NULL
    BY InstancesAssumption
  <2>3. ASSUME NEW r \in Readers, used[r] = i PROVE g_logger = i
    BY <2>1, <2>2, <2>3 DEF BindingInv, SlotInv, ReadersInv, ReaderKeepsGeneration
  <2>4. default_borrowed[i]
    BY <2>1, <2>2, <2>3 DEF BindingInv, SlotInv, LoansInv
  <2>5. QED
    BY <2>1, <2>4 DEF BindingInv, SlotInv, MarkedIsAlive, Alive
<1>2. QED
  BY <1>1, BindingInvariant, PTL

\* A delayed default call is refused, never redirected to a later instance.
THEOREM ReadersKeepGeneration == Spec => []ReaderKeepsGeneration
<1>1. BindingInv => ReaderKeepsGeneration
  BY DEF BindingInv, SlotInv, ReadersInv
<1>2. QED
  BY <1>1, BindingInvariant, PTL

\* logger_default_set replaces the very binding its caller observed.
THEOREM RebindsAreFresh == Spec => []RebindIsFresh
<1>1. BindingInv => RebindIsFresh
  BY DEF BindingInv, SlotInv, TicketInv, Rebinding, RebindIsFresh
<1>2. QED
  BY <1>1, BindingInvariant, PTL
==============================================================================
