----------------------------- MODULE BoundedFifo -----------------------------
(***************************************************************************)
(* What logger_queue promises its callers, without slots, sequence numbers *)
(* or spill blocks: at most Cap messages wait, each message enters once,   *)
(* and the consumer receives them whole and in the order of reservation.   *)
(***************************************************************************)
EXTENDS Integers

CONSTANTS Messages, Cap, Start, MaxPos, None

VARIABLES
    log,        \* log[x]: the message that entered at position x
    tail,       \* the next position to enter at
    head,       \* the next position to deliver
    delivered   \* header and text of the message delivered last

vars == <<log, tail, head, delivered>>

Init ==
    /\ log = [x \in Start..(MaxPos - 1) |-> None]
    /\ tail = Start
    /\ head = Start
    /\ delivered = <<None, None>>

Enqueue(m) ==
    /\ tail - head < Cap
    /\ \A x \in Start..(tail - 1) : log[x] # m
    /\ log' = [log EXCEPT ![tail] = m]
    /\ tail' = tail + 1
    /\ UNCHANGED <<head, delivered>>

Dequeue ==
    /\ head < tail
    /\ delivered' = <<log[head], log[head]>>
    /\ head' = head + 1
    /\ UNCHANGED <<log, tail>>

Next == Dequeue \/ \E m \in Messages : Enqueue(m)

Spec == Init /\ [][Next]_vars
==============================================================================
