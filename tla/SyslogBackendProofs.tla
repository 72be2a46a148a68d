------------------------- MODULE SyslogBackendProofs -------------------------
(***************************************************************************)
(* Proofs about SyslogBackend: a record is at most one datagram and is     *)
(* counted once, and connections are not attempted more often than         *)
(* reconnect_interval_ms allows, for every interval, number of send        *)
(* attempts, number of faults and window of clock readings.                *)
(***************************************************************************)
EXTENDS SyslogBackend, TLAPS

Errors ==
    {"none", "ENOENT", "ECONNREFUSED", "ECONNRESET", "ENOTCONN", "EPIPE", "EDESTADDRREQ", "EIO",
     "EINTR", "EAGAIN", "EMFILE", "EACCES", "EPERM", "EMSGSIZE", "ENOBUFS", "ENOMEM"}

\* What a call adds to struct logger_syslog_metrics.
Metrics ==
    [submitted : Nat, sent : Nat, failed : Nat, cooldown : Nat, backpressure : Nat,
     connect_attempts : Nat, send_attempts : Nat]

\* The fields of struct logger_syslog.
Outputs ==
    [fd : {"invalid", "live", "stale"}, startup : Startups, connection_error : Errors,
     retry_from_ms : 0..MaxClock, retry_clock_pending : BOOLEAN, connected : BOOLEAN]

\* The instance, the writer's locals and its surroundings.
SyslogTypes ==
    /\ s \in Outputs
    /\ pc \in {"init", "init_connect", "idle", "clock", "connect", "send", "broken",
               "refused", "closed"}
    /\ m \in Metrics
    /\ error \in Errors
    /\ got \in [whole : Nat, partial : Nat]
    /\ listening \in BOOLEAN /\ clock \in 0..MaxClock /\ faults \in Nat
    /\ since_attempt \in 0..Interval /\ since_loss \in 0..Interval

\* A socket is kept while the writer sends, and closed before it connects.
SocketInv ==
    /\ s.connected <=> s.fd # "invalid"
    /\ pc \in {"init", "init_connect", "clock", "connect"} => s.fd = "invalid"
    /\ pc \in {"send", "broken"} => s.fd # "invalid"

\* The record under way has not been counted, and nothing of it was sent
\* before the send that ends the loop.
Pending ==
    /\ m.submitted = 1 /\ m.sent = 0 /\ m.failed = 0 /\ m.cooldown = 0
    /\ got.whole = 0

\* Where the call stands decides what it has added to the metrics.
CallInv ==
    /\ pc \in {"clock", "connect", "send", "broken"} => Pending
    /\ pc \in {"clock", "connect"} =>
          m.connect_attempts = 0 /\ m.send_attempts = 0 /\ got.partial = 0
    /\ pc = "send" => m.send_attempts < SendAttempts /\ got.partial = 0
    /\ pc \in {"init", "init_connect"} => m = NoIncrement /\ got = Nothing

\* A true age covers what the clock says has passed since retry_from_ms.
Covers(age) == age = Interval \/ clock - s.retry_from_ms <= age

\* The cool-down the clock shows is never longer than the true one, unless
\* the next look at the clock starts it anew.
CooldownInv ==
    \/ s.retry_clock_pending
    \/ clock < s.retry_from_ms
    \/ Covers(since_attempt) /\ Covers(since_loss)

SyslogInv == SyslogTypes /\ SocketInv /\ CallInv /\ OneDatagramPerRecord /\ CooldownInv

-----------------------------------------------------------------------------
(* The operators                                                           *)

\* record_failure counts the record as failed and leaves the rest of the
\* metrics alone, but for the share of failures that is back-pressure.
LEMMA RecordFailureIs ==
    ASSUME NEW add \in Metrics, NEW e
    PROVE  LET r == record_failure(add, e)
           IN  /\ r \in Metrics
               /\ r.failed = add.failed + 1
               /\ r.submitted = add.submitted /\ r.sent = add.sent
               /\ r.cooldown = add.cooldown
               /\ r.connect_attempts = add.connect_attempts
               /\ r.send_attempts = add.send_attempts
  <1>1. (IF backpressure(e) THEN 1 ELSE 0) \in Nat
    OBVIOUS
  <1> DEFINE b == IF backpressure(e) THEN 1 ELSE 0
  <1>2. record_failure(add, e) = [add EXCEPT !.failed = @ + 1, !.backpressure = @ + b]
    BY DEF record_failure
  <1>3. b \in Nat
    BY <1>1
  <1> HIDE DEF b
  <1>4. record_failure(add, e) =
           [submitted |-> add.submitted, sent |-> add.sent, failed |-> add.failed + 1,
            cooldown |-> add.cooldown, backpressure |-> add.backpressure + b,
            connect_attempts |-> add.connect_attempts, send_attempts |-> add.send_attempts]
    BY <1>2 DEF Metrics
  <1>5. /\ add.failed + 1 \in Nat /\ add.backpressure + b \in Nat
        /\ add.submitted \in Nat /\ add.sent \in Nat /\ add.cooldown \in Nat
        /\ add.connect_attempts \in Nat /\ add.send_attempts \in Nat
    BY <1>3 DEF Metrics
  <1> QED
    BY <1>4, <1>5 DEF Metrics

\* connect_once keeps a socket exactly when the connection was made, and never
\* touches the cool-down.
LEMMA ConnectOnceIs ==
    ASSUME SyslogTypes, NEW e \in ConnectResults
    PROVE  LET r == connect_once(e)
           IN  /\ r \in Outputs
               /\ r.retry_from_ms = s.retry_from_ms
               /\ r.retry_clock_pending = s.retry_clock_pending
               /\ e = "ok" => r.fd = "live" /\ r.connected
               /\ e # "ok" => r.fd = s.fd /\ r.connected = s.connected
  <1>1. CASE e = "ok"
    BY <1>1 DEF connect_once, SyslogTypes, Outputs, Errors
  <1>2. CASE e # "ok"
    BY <1>2 DEF connect_once, SyslogTypes, Outputs, Errors, ConnectResults
  <1> QED
    BY <1>1, <1>2

-----------------------------------------------------------------------------
(* One lemma per action                                                    *)

\* The clock is read before the first connection, or the start fails.
LEMMA InitClockKeeps == SyslogInv /\ InitClock => SyslogInv'
  <1> SUFFICES ASSUME SyslogInv, InitClock PROVE SyslogInv'
    OBVIOUS
  <1> USE StartupsAssumption, BoundsAssumption DEF env, aux, InitClock, Fault
  <1>1. SyslogTypes'
    BY DEF SyslogInv, SyslogTypes, Outputs, Metrics, Errors, NoIncrement, Nothing, SocketInv
  <1>2. SocketInv'
    BY DEF SyslogInv, SyslogTypes, Outputs, Metrics, SocketInv
  <1>3. CallInv'
    BY
    DEF SyslogInv, SyslogTypes, Outputs, Metrics, SocketInv, CallInv, Pending, NoIncrement,
        Nothing
  <1>4. OneDatagramPerRecord'
    BY <1>2
    DEF SyslogInv, SyslogTypes, Outputs, Metrics, SocketInv, CallInv, Pending, NoIncrement,
        Nothing, OneDatagramPerRecord
  <1>5. CooldownInv'
    BY DEF SyslogInv, SyslogTypes, Outputs, Metrics, SocketInv, CooldownInv, Covers
  <1> QED
    BY <1>1, <1>2, <1>3, <1>4, <1>5 DEF SyslogInv

\* The first connection is made, deferred or refused.
LEMMA InitConnectKeeps == SyslogInv /\ InitConnect => SyslogInv'
  <1> SUFFICES ASSUME SyslogInv, InitConnect PROVE SyslogInv'
    OBVIOUS
  <1> USE StartupsAssumption, BoundsAssumption DEF env, aux
  <1>a. PICK e \in ConnectResults, deferable \in BOOLEAN :
           /\ ConnectOutcome(e, deferable)
           /\ s' = connect_once(e)
           /\ pc' = IF e = "ok" \/ (s.startup = "DEFERRED" /\ deferable)
                    THEN "idle" ELSE "refused"
    BY DEF InitConnect
  <1>b. faults' \in Nat
    BY <1>a DEF SyslogInv, SyslogTypes, ConnectOutcome, Fault
  <1>c. /\ pc = "init_connect" /\ pc' \in {"idle", "refused"}
        /\ UNCHANGED <<m, error, listening, clock, got, since_attempt, since_loss>>
    BY <1>a DEF InitConnect
  <1>d. SyslogTypes
    BY DEF SyslogInv
  <1>1. SyslogTypes'
    BY <1>a, <1>b, <1>c, <1>d, ConnectOnceIs
    DEF SyslogInv, SyslogTypes, Outputs, Metrics, Errors, NoIncrement, Nothing, SocketInv
  <1>2. SocketInv'
    BY <1>a, <1>b, <1>c, <1>d, ConnectOnceIs
    DEF SyslogInv, SyslogTypes, Outputs, Metrics, SocketInv
  <1>3. CallInv'
    BY <1>a, <1>b, <1>c, <1>d, ConnectOnceIs
    DEF SyslogInv, SyslogTypes, Outputs, Metrics, SocketInv, CallInv, Pending, NoIncrement,
        Nothing
  <1>4. OneDatagramPerRecord'
    BY <1>a, <1>b, <1>c, <1>d, ConnectOnceIs, <1>2
    DEF SyslogInv, SyslogTypes, Outputs, Metrics, SocketInv, CallInv, Pending, NoIncrement,
        Nothing, OneDatagramPerRecord
  <1>5. CooldownInv'
    BY <1>a, <1>b, <1>c, <1>d, ConnectOnceIs
    DEF SyslogInv, SyslogTypes, Outputs, Metrics, SocketInv, CooldownInv, Covers
  <1> QED
    BY <1>1, <1>2, <1>3, <1>4, <1>5 DEF SyslogInv

\* A refused record fails without a call.
LEMMA WriteRefusedKeeps == SyslogInv /\ WriteRefused => SyslogInv'
  <1> SUFFICES ASSUME SyslogInv, WriteRefused PROVE SyslogInv'
    OBVIOUS
  <1> USE StartupsAssumption, BoundsAssumption DEF env, aux
  <1> DEFINE add == [NoIncrement EXCEPT !.submitted = 1]
  <1>a. /\ pc = "idle" /\ m' = record_failure(add, "EMSGSIZE") /\ got' = Nothing
        /\ UNCHANGED <<s, pc, error, listening, clock, faults, since_attempt, since_loss>>
    BY DEF WriteRefused
  <1>b. /\ add \in Metrics /\ add.submitted = 1 /\ add.sent = 0 /\ add.failed = 0
        /\ add.cooldown = 0 /\ add.connect_attempts = 0 /\ add.send_attempts = 0
    BY DEF NoIncrement, Metrics
  <1> HIDE DEF add
  <1>1. SyslogTypes'
    BY <1>a, <1>b, RecordFailureIs
    DEF SyslogInv, SyslogTypes, Outputs, Metrics, Errors, NoIncrement, Nothing, SocketInv
  <1>2. SocketInv'
    BY <1>a, <1>b, RecordFailureIs DEF SyslogInv, SyslogTypes, Outputs, Metrics, SocketInv
  <1>3. CallInv'
    BY <1>a, <1>b, RecordFailureIs
    DEF SyslogInv, SyslogTypes, Outputs, Metrics, SocketInv, CallInv, Pending, NoIncrement,
        Nothing
  <1>4. OneDatagramPerRecord'
    BY <1>a, <1>b, RecordFailureIs, <1>2
    DEF SyslogInv, SyslogTypes, Outputs, Metrics, SocketInv, CallInv, Pending, NoIncrement,
        Nothing, OneDatagramPerRecord
  <1>5. CooldownInv'
    BY <1>a, <1>b, RecordFailureIs
    DEF SyslogInv, SyslogTypes, Outputs, Metrics, SocketInv, CooldownInv, Covers
  <1> QED
    BY <1>1, <1>2, <1>3, <1>4, <1>5 DEF SyslogInv

\* A record begins with the socket, or with the clock.
LEMMA WriteBeginKeeps == SyslogInv /\ WriteBegin => SyslogInv'
  <1> SUFFICES ASSUME SyslogInv, WriteBegin PROVE SyslogInv'
    OBVIOUS
  <1> USE StartupsAssumption, BoundsAssumption DEF env, aux, WriteBegin
  <1>1. SyslogTypes'
    BY DEF SyslogInv, SyslogTypes, Outputs, Metrics, Errors, NoIncrement, Nothing, SocketInv
  <1>2. SocketInv'
    BY DEF SyslogInv, SyslogTypes, Outputs, Metrics, SocketInv
  <1>3. CallInv'
    BY
    DEF SyslogInv, SyslogTypes, Outputs, Metrics, SocketInv, CallInv, Pending, NoIncrement,
        Nothing
  <1>4. OneDatagramPerRecord'
    BY <1>2
    DEF SyslogInv, SyslogTypes, Outputs, Metrics, SocketInv, CallInv, Pending, NoIncrement,
        Nothing, OneDatagramPerRecord
  <1>5. CooldownInv'
    BY DEF SyslogInv, SyslogTypes, Outputs, Metrics, SocketInv, CooldownInv, Covers
  <1> QED
    BY <1>1, <1>2, <1>3, <1>4, <1>5 DEF SyslogInv

\* Examining the cool-down changes nothing but where it starts.
LEMMA ColdIs ==
    ASSUME SyslogTypes
    PROVE  LET c == Cold(clock)
           IN  /\ c \in Outputs
               /\ c.fd = s.fd /\ c.connected = s.connected
               /\ c.retry_from_ms = RetryFrom(clock) /\ ~c.retry_clock_pending
               /\ [c EXCEPT !.retry_from_ms = clock] \in Outputs
               /\ [c EXCEPT !.retry_from_ms = clock].fd = s.fd
               /\ [c EXCEPT !.retry_from_ms = clock].connected = s.connected
               /\ [c EXCEPT !.retry_from_ms = clock].retry_from_ms = clock
  <1>1. RetryFrom(clock) \in 0..MaxClock
    BY DEF RetryFrom, SyslogTypes, Outputs
  <1> DEFINE r == RetryFrom(clock)
             c == [s EXCEPT !.retry_from_ms = r, !.retry_clock_pending = FALSE]
             d == [c EXCEPT !.retry_from_ms = clock]
  <1>2. Cold(clock) = c /\ r \in 0..MaxClock
    BY <1>1 DEF Cold
  <1> HIDE DEF r
  <1>3. c \in Outputs /\ c.retry_from_ms = r /\ c.retry_clock_pending = FALSE
        /\ c.fd = s.fd /\ c.connected = s.connected
    BY <1>2 DEF SyslogTypes, Outputs
  <1> HIDE DEF c
  <1>4. d \in Outputs /\ d.retry_from_ms = clock /\ d.fd = c.fd /\ d.connected = c.connected
    BY <1>3 DEF SyslogTypes, Outputs
  <1> QED
    BY <1>2, <1>3, <1>4 DEF r

\* With a pending mark or a clock run back the interval starts anew; otherwise
\* it is over only when it truly is.
LEMMA RetryKeeps == SyslogInv /\ Retry => SyslogInv'
  <1> SUFFICES ASSUME SyslogInv, Retry PROVE SyslogInv'
    OBVIOUS
  <1> USE StartupsAssumption, BoundsAssumption DEF env, aux
  <1>d. SyslogTypes /\ SocketInv /\ CallInv /\ OneDatagramPerRecord /\ CooldownInv
    BY DEF SyslogInv
  <1>u. /\ pc = "clock"
        /\ UNCHANGED <<error, listening, clock, got, since_loss>>
    BY DEF Retry
  <1>6. CASE Fault /\ pc' = "idle" /\ m' = record_failure(m, "EIO") /\ UNCHANGED <<s, since_attempt>>
    <2>1. SyslogTypes'
      BY <1>6, <1>u, <1>d, RecordFailureIs DEF Fault, SyslogTypes
    <2>2. SocketInv' /\ CallInv' /\ OneDatagramPerRecord'
      BY <1>6, <1>u, <1>d, RecordFailureIs
      DEF SyslogTypes, Metrics, SocketInv, CallInv, Pending, OneDatagramPerRecord
    <2>3. CooldownInv'
      BY <1>6, <1>u, <1>d DEF CooldownInv, Covers
    <2> QED
      BY <2>1, <2>2, <2>3 DEF SyslogInv
  <1>7. CASE /\ s' = [Cold(clock) EXCEPT !.retry_from_ms = clock]
             /\ pc' = "connect" /\ since_attempt' = 0 /\ UNCHANGED <<m, faults>>
    <2>1. SyslogTypes'
      BY <1>7, <1>u, <1>d, ColdIs DEF SyslogTypes
    <2>2. SocketInv' /\ CallInv' /\ OneDatagramPerRecord'
      BY <1>7, <1>u, <1>d, ColdIs
      DEF SyslogTypes, Outputs, Metrics, SocketInv, CallInv, Pending, OneDatagramPerRecord
    <2>3. CooldownInv'
      BY <1>7, <1>u, <1>d, ColdIs DEF SyslogTypes, CooldownInv, Covers
    <2> QED
      BY <2>1, <2>2, <2>3 DEF SyslogInv
  <1>8. CASE /\ s' = Cold(clock) /\ pc' = "idle"
             /\ m' = record_failure([m EXCEPT !.cooldown = 1], s.connection_error)
             /\ UNCHANGED <<faults, since_attempt>>
    <2> DEFINE add == [m EXCEPT !.cooldown = 1]
    <2>a. /\ add \in Metrics /\ add.cooldown = 1
          /\ add.submitted = m.submitted /\ add.sent = m.sent /\ add.failed = m.failed
          /\ add.connect_attempts = m.connect_attempts /\ add.send_attempts = m.send_attempts
      BY <1>d DEF SyslogTypes, Metrics
    <2>b. m' = record_failure(add, s.connection_error)
      BY <1>8
    <2> HIDE DEF add
    <2>1. SyslogTypes'
      BY <1>8, <1>u, <1>d, <2>a, <2>b, ColdIs, RecordFailureIs DEF SyslogTypes
    <2>2. SocketInv' /\ CallInv' /\ OneDatagramPerRecord'
      BY <1>8, <1>u, <1>d, <2>a, <2>b, ColdIs, RecordFailureIs
      DEF SyslogTypes, Outputs, Metrics, SocketInv, CallInv, Pending, OneDatagramPerRecord
    <2>3. CooldownInv'
      BY <1>8, <1>u, <1>d, ColdIs
      DEF SyslogTypes, Outputs, CooldownInv, Covers, RetryFrom, before
    <2> QED
      BY <2>1, <2>2, <2>3 DEF SyslogInv
  <1> QED
    BY <1>6, <1>7, <1>8 DEF Retry

\* The one connection of a record.
LEMMA ConnectKeeps == SyslogInv /\ Connect => SyslogInv'
  <1> SUFFICES ASSUME SyslogInv, Connect PROVE SyslogInv'
    OBVIOUS
  <1> USE StartupsAssumption, BoundsAssumption DEF env, aux
  <1> DEFINE add == [m EXCEPT !.connect_attempts = @ + 1]
  <1>a. PICK e \in ConnectResults, deferable \in BOOLEAN :
           /\ ConnectOutcome(e, deferable)
           /\ s' = connect_once(e)
           /\ pc' = IF e = "ok" THEN "send" ELSE "idle"
           /\ m' = IF e = "ok" THEN add ELSE record_failure(add, e)
    BY DEF Connect
  <1>b. faults' \in Nat
    BY <1>a DEF SyslogInv, SyslogTypes, ConnectOutcome, Fault
  <1>c. /\ pc = "connect"
        /\ UNCHANGED <<error, listening, clock, got, since_attempt, since_loss>>
    BY <1>a DEF Connect
  <1>d. SyslogTypes
    BY DEF SyslogInv
  <1>e. /\ add \in Metrics /\ add.connect_attempts = m.connect_attempts + 1
        /\ add.submitted = m.submitted /\ add.sent = m.sent /\ add.failed = m.failed
        /\ add.cooldown = m.cooldown /\ add.send_attempts = m.send_attempts
    BY DEF SyslogInv, SyslogTypes, Outputs, Metrics
  <1> HIDE DEF add
  <1>1. SyslogTypes'
    BY <1>a, <1>b, <1>c, <1>d, <1>e, ConnectOnceIs, RecordFailureIs
    DEF SyslogInv, SyslogTypes, Outputs, Metrics, Errors, NoIncrement, Nothing, SocketInv
  <1>2. SocketInv'
    BY <1>a, <1>b, <1>c, <1>d, <1>e, ConnectOnceIs, RecordFailureIs
    DEF SyslogInv, SyslogTypes, Outputs, Metrics, SocketInv
  <1>3. CallInv'
    BY <1>a, <1>b, <1>c, <1>d, <1>e, ConnectOnceIs, RecordFailureIs
    DEF SyslogInv, SyslogTypes, Outputs, Metrics, SocketInv, CallInv, Pending, NoIncrement,
        Nothing
  <1>4. OneDatagramPerRecord'
    BY <1>a, <1>b, <1>c, <1>d, <1>e, ConnectOnceIs, RecordFailureIs, <1>2
    DEF SyslogInv, SyslogTypes, Outputs, Metrics, SocketInv, CallInv, Pending, NoIncrement,
        Nothing, OneDatagramPerRecord
  <1>5. CooldownInv'
    BY <1>a, <1>b, <1>c, <1>d, <1>e, ConnectOnceIs, RecordFailureIs
    DEF SyslogInv, SyslogTypes, Outputs, Metrics, SocketInv, CooldownInv, Covers
  <1> QED
    BY <1>1, <1>2, <1>3, <1>4, <1>5 DEF SyslogInv

\* The record arrives whole: sent and got agree.
LEMMA SendWholeKeeps == SyslogInv /\ SendWhole => SyslogInv'
  <1> SUFFICES ASSUME SyslogInv, SendWhole PROVE SyslogInv'
    OBVIOUS
  <1> USE StartupsAssumption, BoundsAssumption DEF env, aux
  <1>a. /\ pc = "send" /\ s.fd = "live" /\ pc' = "idle"
        /\ m' = [m EXCEPT !.send_attempts = @ + 1, !.sent = 1]
        /\ got' = [got EXCEPT !.whole = @ + 1]
        /\ UNCHANGED <<s, error, listening, clock, faults, since_attempt, since_loss>>
    BY DEF SendWhole
  <1>b. /\ m'.submitted = m.submitted /\ m'.sent = 1 /\ m'.failed = m.failed
        /\ m'.cooldown = m.cooldown /\ m'.connect_attempts = m.connect_attempts
        /\ m'.send_attempts = m.send_attempts + 1
    BY <1>a DEF SyslogInv, SyslogTypes, Outputs, Metrics
  <1>c. m' \in Metrics
    <2>1. m' = [submitted |-> m.submitted, sent |-> 1, failed |-> m.failed,
                cooldown |-> m.cooldown, backpressure |-> m.backpressure,
                connect_attempts |-> m.connect_attempts,
                send_attempts |-> m.send_attempts + 1]
      BY <1>a DEF SyslogInv, SyslogTypes, Outputs, Metrics
    <2> QED
      BY <2>1 DEF SyslogInv, SyslogTypes, Outputs, Metrics
  <1>d. got' \in [whole : Nat, partial : Nat]
        /\ got'.whole = got.whole + 1 /\ got'.partial = got.partial
    BY <1>a DEF SyslogInv, SyslogTypes
  <1>1. SyslogTypes'
    BY <1>a, <1>c, <1>d DEF SyslogInv, SyslogTypes
  <1>2. SocketInv'
    BY <1>a DEF SyslogInv, SocketInv
  <1>3. CallInv'
    BY <1>a DEF CallInv
  <1>4. OneDatagramPerRecord'
    BY <1>a, <1>b, <1>d, <1>2
    DEF SyslogInv, SyslogTypes, Outputs, Metrics, SocketInv, CallInv, Pending,
        OneDatagramPerRecord
  <1>5. CooldownInv'
    BY <1>a DEF SyslogInv, CooldownInv, Covers
  <1> QED
    BY <1>1, <1>2, <1>3, <1>4, <1>5 DEF SyslogInv

\* A short send ends the loop; the association is given up.
LEMMA SendShortKeeps == SyslogInv /\ SendShort => SyslogInv'
  <1> SUFFICES ASSUME SyslogInv, SendShort PROVE SyslogInv'
    OBVIOUS
  <1> USE StartupsAssumption, BoundsAssumption
    DEF env, aux, SendShort, SendEnds, broken_association, record_failure, backpressure,
        Fault
  <1>1. SyslogTypes'
    BY DEF SyslogInv, SyslogTypes, Outputs, Metrics, Errors, NoIncrement, Nothing, SocketInv
  <1>2. SocketInv'
    BY DEF SyslogInv, SyslogTypes, Outputs, Metrics, SocketInv
  <1>3. CallInv'
    BY
    DEF SyslogInv, SyslogTypes, Outputs, Metrics, SocketInv, CallInv, Pending, NoIncrement,
        Nothing
  <1>4. OneDatagramPerRecord'
    BY <1>2
    DEF SyslogInv, SyslogTypes, Outputs, Metrics, SocketInv, CallInv, Pending, NoIncrement,
        Nothing, OneDatagramPerRecord
  <1>5. CooldownInv'
    BY DEF SyslogInv, SyslogTypes, Outputs, Metrics, SocketInv, CooldownInv, Covers
  <1> QED
    BY <1>1, <1>2, <1>3, <1>4, <1>5 DEF SyslogInv

\* A failed send ends the loop or leaves attempts for another.
LEMMA SendFailsKeeps == SyslogInv /\ SendFails => SyslogInv'
  <1> SUFFICES ASSUME SyslogInv, SendFails PROVE SyslogInv'
    OBVIOUS
  <1> USE StartupsAssumption, BoundsAssumption DEF env, aux
  <1> DEFINE add == [m EXCEPT !.send_attempts = @ + 1]
  <1>d. SyslogTypes /\ SocketInv /\ CallInv /\ OneDatagramPerRecord /\ CooldownInv
    BY DEF SyslogInv
  <1>u. /\ pc = "send"
        /\ UNCHANGED <<s, listening, clock, got, since_attempt, since_loss>>
    BY DEF SendFails
  <1>a. /\ add \in Metrics /\ add.send_attempts = m.send_attempts + 1
        /\ add.submitted = m.submitted /\ add.sent = m.sent /\ add.failed = m.failed
        /\ add.cooldown = m.cooldown /\ add.connect_attempts = m.connect_attempts
    BY <1>d DEF SyslogTypes, Metrics
  <1>f. /\ faults' \in Nat
        /\ \/ \E e \in {"ECONNREFUSED", "EAGAIN", "EPERM", "EINTR"} : SendEnds(add, e)
           \/ add.send_attempts < SendAttempts /\ m' = add /\ UNCHANGED <<pc, error>>
    BY <1>d DEF SendFails, Fault, SyslogTypes
  <1> HIDE DEF add
  <1>6. ASSUME NEW e \in {"ECONNREFUSED", "EAGAIN", "EPERM", "EINTR"}, SendEnds(add, e)
        PROVE  SyslogInv'
    <2>1. /\ pc' \in {"broken", "idle"} /\ error' \in Errors
          /\ pc' = "broken" => m' = add
          /\ pc' = "idle" => m' = record_failure(add, e)
      BY <1>6, <1>d DEF SendEnds, SyslogTypes, Errors
    <2>2. SyslogTypes'
      BY <2>1, <1>d, <1>u, <1>f, <1>a, RecordFailureIs DEF SyslogTypes
    <2>3. SocketInv' /\ CallInv' /\ OneDatagramPerRecord'
      BY <2>1, <1>d, <1>u, <1>a, RecordFailureIs
      DEF SyslogTypes, Metrics, SocketInv, CallInv, Pending, OneDatagramPerRecord
    <2>4. CooldownInv'
      BY <1>d, <1>u DEF CooldownInv, Covers
    <2> QED
      BY <2>2, <2>3, <2>4 DEF SyslogInv
  <1>7. CASE add.send_attempts < SendAttempts /\ m' = add /\ UNCHANGED <<pc, error>>
    <2>2. SyslogTypes'
      BY <1>7, <1>d, <1>u, <1>f, <1>a DEF SyslogTypes
    <2>3. SocketInv' /\ CallInv' /\ OneDatagramPerRecord'
      BY <1>7, <1>d, <1>u, <1>a
      DEF SyslogTypes, Metrics, SocketInv, CallInv, Pending, OneDatagramPerRecord
    <2>4. CooldownInv'
      BY <1>d, <1>u DEF CooldownInv, Covers
    <2> QED
      BY <2>2, <2>3, <2>4 DEF SyslogInv
  <1> QED
    BY <1>f, <1>6, <1>7

\* A lost association starts the cool-down, or leaves its start pending.
LEMMA BrokenKeeps == SyslogInv /\ Broken => SyslogInv'
  <1> SUFFICES ASSUME SyslogInv, Broken PROVE SyslogInv'
    OBVIOUS
  <1> USE StartupsAssumption, BoundsAssumption DEF env, aux
  <1>d. SyslogTypes /\ SocketInv /\ CallInv /\ OneDatagramPerRecord /\ CooldownInv
    BY DEF SyslogInv
  <1>u. /\ pc = "broken" /\ pc' = "idle" /\ m' = record_failure(m, error) /\ since_loss' = 0
        /\ UNCHANGED <<error, listening, clock, got, since_attempt>>
    BY DEF Broken
  <1>a. /\ s' \in Outputs /\ s'.fd = "invalid" /\ ~s'.connected
        /\ s'.retry_clock_pending \/ s'.retry_from_ms = clock
        /\ faults' \in Nat
    <2> DEFINE closed == [s EXCEPT !.fd = "invalid", !.connected = FALSE,
                                   !.connection_error = error]
    <2>1. closed \in Outputs /\ closed.fd = "invalid" /\ closed.connected = FALSE
      BY <1>d DEF SyslogTypes, Outputs
    <2>2. \/ s' = [closed EXCEPT !.retry_from_ms = clock] /\ UNCHANGED faults
          \/ s' = [closed EXCEPT !.retry_clock_pending = TRUE] /\ Fault
      BY DEF Broken
    <2> HIDE DEF closed
    <2>3. CASE s' = [closed EXCEPT !.retry_from_ms = clock] /\ UNCHANGED faults
      BY <2>1, <2>3, <1>d DEF SyslogTypes, Outputs
    <2>4. CASE s' = [closed EXCEPT !.retry_clock_pending = TRUE] /\ Fault
      <3>1. s' \in Outputs /\ s'.fd = "invalid" /\ s'.retry_clock_pending = TRUE
            /\ s'.connected = FALSE
        BY <2>1, <2>4 DEF Outputs
      <3>2. faults' \in Nat
        BY <2>4, <1>d DEF SyslogTypes, Fault
      <3> QED
        BY <3>1, <3>2
    <2> QED
      BY <2>2, <2>3, <2>4
  <1>1. SyslogTypes'
    BY <1>d, <1>u, <1>a, RecordFailureIs DEF SyslogTypes
  <1>2. SocketInv' /\ CallInv' /\ OneDatagramPerRecord'
    BY <1>d, <1>u, <1>a, RecordFailureIs
    DEF SyslogTypes, Metrics, SocketInv, CallInv, Pending, OneDatagramPerRecord
  <1>3. CooldownInv'
    BY <1>d, <1>u, <1>a DEF SyslogTypes, Outputs, CooldownInv, Covers
  <1> QED
    BY <1>1, <1>2, <1>3 DEF SyslogInv

\* The socket is closed and the metric follows it.
LEMMA CloseKeeps == SyslogInv /\ Close => SyslogInv'
  <1> SUFFICES ASSUME SyslogInv, Close PROVE SyslogInv'
    OBVIOUS
  <1> USE StartupsAssumption, BoundsAssumption DEF env, aux, Close
  <1>1. SyslogTypes'
    BY DEF SyslogInv, SyslogTypes, Outputs, Metrics, Errors, NoIncrement, Nothing, SocketInv
  <1>2. SocketInv'
    BY DEF SyslogInv, SyslogTypes, Outputs, Metrics, SocketInv
  <1>3. CallInv'
    BY
    DEF SyslogInv, SyslogTypes, Outputs, Metrics, SocketInv, CallInv, Pending, NoIncrement,
        Nothing
  <1>4. OneDatagramPerRecord'
    BY <1>2
    DEF SyslogInv, SyslogTypes, Outputs, Metrics, SocketInv, CallInv, Pending, NoIncrement,
        Nothing, OneDatagramPerRecord
  <1>5. CooldownInv'
    BY DEF SyslogInv, SyslogTypes, Outputs, Metrics, SocketInv, CooldownInv, Covers
  <1> QED
    BY <1>1, <1>2, <1>3, <1>4, <1>5 DEF SyslogInv

\* The daemon's end makes a live socket stale, not invalid.
LEMMA DaemonStopsKeeps == SyslogInv /\ DaemonStops => SyslogInv'
  <1> SUFFICES ASSUME SyslogInv, DaemonStops PROVE SyslogInv'
    OBVIOUS
  <1> USE StartupsAssumption, BoundsAssumption DEF env, aux, DaemonStops
  <1>1. SyslogTypes'
    BY DEF SyslogInv, SyslogTypes, Outputs, Metrics, Errors, NoIncrement, Nothing, SocketInv
  <1>2. SocketInv'
    BY DEF SyslogInv, SyslogTypes, Outputs, Metrics, SocketInv
  <1>3. CallInv'
    BY
    DEF SyslogInv, SyslogTypes, Outputs, Metrics, SocketInv, CallInv, Pending, NoIncrement,
        Nothing
  <1>4. OneDatagramPerRecord'
    BY <1>2
    DEF SyslogInv, SyslogTypes, Outputs, Metrics, SocketInv, CallInv, Pending, NoIncrement,
        Nothing, OneDatagramPerRecord
  <1>5. CooldownInv'
    BY DEF SyslogInv, SyslogTypes, Outputs, Metrics, SocketInv, CooldownInv, Covers
  <1> QED
    BY <1>1, <1>2, <1>3, <1>4, <1>5 DEF SyslogInv

\* A new daemon does not repair a stale socket.
LEMMA DaemonStartsKeeps == SyslogInv /\ DaemonStarts => SyslogInv'
  <1> SUFFICES ASSUME SyslogInv, DaemonStarts PROVE SyslogInv'
    OBVIOUS
  <1> USE StartupsAssumption, BoundsAssumption DEF env, aux, DaemonStarts
  <1>1. SyslogTypes'
    BY DEF SyslogInv, SyslogTypes, Outputs, Metrics, Errors, NoIncrement, Nothing, SocketInv
  <1>2. SocketInv'
    BY DEF SyslogInv, SyslogTypes, Outputs, Metrics, SocketInv
  <1>3. CallInv'
    BY
    DEF SyslogInv, SyslogTypes, Outputs, Metrics, SocketInv, CallInv, Pending, NoIncrement,
        Nothing
  <1>4. OneDatagramPerRecord'
    BY <1>2
    DEF SyslogInv, SyslogTypes, Outputs, Metrics, SocketInv, CallInv, Pending, NoIncrement,
        Nothing, OneDatagramPerRecord
  <1>5. CooldownInv'
    BY DEF SyslogInv, SyslogTypes, Outputs, Metrics, SocketInv, CooldownInv, Covers
  <1> QED
    BY <1>1, <1>2, <1>3, <1>4, <1>5 DEF SyslogInv

\* True time and the clock go on together; the window moves with them.
LEMMA TickKeeps == SyslogInv /\ Tick => SyslogInv'
  <1> SUFFICES ASSUME SyslogInv, Tick PROVE SyslogInv'
    OBVIOUS
  <1> USE StartupsAssumption, BoundsAssumption DEF env, aux, Tick, Older
  <1>1. SyslogTypes'
    BY DEF SyslogInv, SyslogTypes, Outputs, Metrics, Errors, NoIncrement, Nothing, SocketInv
  <1>2. SocketInv'
    BY DEF SyslogInv, SyslogTypes, Outputs, Metrics, SocketInv
  <1>3. CallInv'
    BY
    DEF SyslogInv, SyslogTypes, Outputs, Metrics, SocketInv, CallInv, Pending, NoIncrement,
        Nothing
  <1>4. OneDatagramPerRecord'
    BY <1>2
    DEF SyslogInv, SyslogTypes, Outputs, Metrics, SocketInv, CallInv, Pending, NoIncrement,
        Nothing, OneDatagramPerRecord
  <1>5. CooldownInv'
    BY DEF SyslogInv, SyslogTypes, Outputs, Metrics, SocketInv, CooldownInv, Covers
  <1> QED
    BY <1>1, <1>2, <1>3, <1>4, <1>5 DEF SyslogInv

\* A clock that runs back only shortens the cool-down it shows.
LEMMA ClockRunsBackKeeps == SyslogInv /\ ClockRunsBack => SyslogInv'
  <1> SUFFICES ASSUME SyslogInv, ClockRunsBack PROVE SyslogInv'
    OBVIOUS
  <1> USE StartupsAssumption, BoundsAssumption DEF env, aux, ClockRunsBack, Fault
  <1>1. SyslogTypes'
    BY DEF SyslogInv, SyslogTypes, Outputs, Metrics, Errors, NoIncrement, Nothing, SocketInv
  <1>2. SocketInv'
    BY DEF SyslogInv, SyslogTypes, Outputs, Metrics, SocketInv
  <1>3. CallInv'
    BY
    DEF SyslogInv, SyslogTypes, Outputs, Metrics, SocketInv, CallInv, Pending, NoIncrement,
        Nothing
  <1>4. OneDatagramPerRecord'
    BY <1>2
    DEF SyslogInv, SyslogTypes, Outputs, Metrics, SocketInv, CallInv, Pending, NoIncrement,
        Nothing, OneDatagramPerRecord
  <1>5. CooldownInv'
    BY DEF SyslogInv, SyslogTypes, Outputs, Metrics, SocketInv, CooldownInv, Covers
  <1> QED
    BY <1>1, <1>2, <1>3, <1>4, <1>5 DEF SyslogInv

-----------------------------------------------------------------------------
(* The invariant and what follows from it                                  *)

\* Before the start nothing has been attempted or lost.
LEMMA SyslogInvInit == Init => SyslogInv
  <1> SUFFICES ASSUME Init PROVE SyslogInv
    OBVIOUS
  <1> USE BoundsAssumption DEF Init, NoIncrement, Nothing
  <1>0. s \in Outputs
    <2>1. s \in [fd : {"invalid"}, startup : Startups, connection_error : {"none"},
                retry_from_ms : {0}, retry_clock_pending : {FALSE}, connected : {FALSE}]
      BY DEF Init
    <2>2. {FALSE} \subseteq BOOLEAN /\ {"invalid"} \subseteq {"invalid", "live", "stale"}
          /\ {"none"} \subseteq Errors /\ {0} \subseteq 0..MaxClock
      BY DEF Errors
    <2> QED
      BY <2>1, <2>2, Zenon DEF Outputs
  <1>9. s.fd = "invalid" /\ s.retry_from_ms = 0 /\ ~s.connected
    BY Zenon
  <1>1. SyslogTypes
    BY <1>0 DEF SyslogTypes, Metrics, Errors
  <1>2. SocketInv /\ CallInv /\ OneDatagramPerRecord
    BY <1>9 DEF SocketInv, CallInv, OneDatagramPerRecord
  <1>3. CooldownInv
    BY DEF CooldownInv, Covers
  <1> QED
    BY <1>1, <1>2, <1>3 DEF SyslogInv

\* Every step keeps the invariant.
LEMMA SyslogInvStep == SyslogInv /\ [Next]_vars => SyslogInv'
  <1> SUFFICES ASSUME SyslogInv, [Next]_vars PROVE SyslogInv'
    OBVIOUS
  <1>1. CASE Next
    BY <1>1, InitClockKeeps, InitConnectKeeps, WriteRefusedKeeps, WriteBeginKeeps, RetryKeeps,
       ConnectKeeps, SendWholeKeeps, SendShortKeeps, SendFailsKeeps, BrokenKeeps, CloseKeeps,
       DaemonStopsKeeps, DaemonStartsKeeps, TickKeeps, ClockRunsBackKeeps
    DEF Next, WriteStep
  <1>2. CASE UNCHANGED vars
    BY <1>2 DEF vars, env, aux, SyslogInv, SyslogTypes, SocketInv, CallInv, Pending,
                OneDatagramPerRecord, CooldownInv, Covers
  <1> QED
    BY <1>1, <1>2

\* logger_syslog_write keeps SyslogInv whatever the daemon, the clock and
\* signals do between its system calls.
THEOREM SyslogInvariant == Spec => []SyslogInv
  <1> QED
    BY SyslogInvInit, SyslogInvStep, PTL DEF Spec

\* A record is at most one datagram, returns 0 exactly when it arrived whole
\* and is counted once, for every number of send attempts and of faults.
THEOREM RecordsAreSentOnce == Spec => []OneDatagramPerRecord
  <1>1. SyslogInv => OneDatagramPerRecord
    BY DEF SyslogInv
  <1> QED
    BY <1>1, SyslogInvariant, PTL

\* logger_syslog_write never connects within reconnect_interval_ms of its last
\* attempt or of a lost association, although its clock fails and runs back.
THEOREM ReconnectsAreSpaced == Spec => NoReconnectStorm
  <1>1. ASSUME SyslogInv, [Next]_vars, pc # "connect", pc' = "connect"
        PROVE  since_attempt = Interval /\ since_loss = Interval
    <2>1. SyslogTypes /\ CooldownInv
      BY <1>1 DEF SyslogInv
    <2>2. Retry /\ elapsed(clock, RetryFrom(clock))
      BY <1>1
      DEF Next, WriteStep, vars, InitClock, InitConnect, WriteRefused, WriteBegin, Retry,
                  Connect, SendWhole, SendShort, SendFails, SendEnds, Broken, Close, DaemonStops,
                  DaemonStarts, Tick, ClockRunsBack
    <2>3. RetryFrom(clock) = s.retry_from_ms /\ ~s.retry_clock_pending
          /\ clock >= s.retry_from_ms /\ clock - s.retry_from_ms >= Interval
      BY <2>1, <2>2, BoundsAssumption DEF elapsed, RetryFrom, before, SyslogTypes, Outputs
    <2> QED
      BY <2>1, <2>3, BoundsAssumption DEF SyslogTypes, Outputs, CooldownInv, Covers
  <1>2. SyslogInv /\ [Next]_vars
          => [pc # "connect" /\ pc' = "connect"
                => since_attempt = Interval /\ since_loss = Interval]_vars
    BY <1>1
  <1> QED
    BY <1>2, SyslogInvariant, PTL DEF Spec, NoReconnectStorm
==============================================================================
