---------------------------- MODULE SyslogBackend ----------------------------
(***************************************************************************)
(* logger_syslog.c: the Syslog output of a logger, a connected local       *)
(* datagram socket.  emit_mu makes the writes of an instance sequential;   *)
(* the daemon stops and starts, time passes, the monotonic clock fails or  *)
(* runs back and signals interrupt calls between any two system calls.     *)
(*                                                                         *)
(* A record is one datagram: its text, priority and prefix are left out.   *)
(* s.metrics is modelled by what the current call adds to it (m).  Times   *)
(* lie in a window 0..MaxClock whose origin moves with the clock, because  *)
(* the code only compares and subtracts them.                              *)
(***************************************************************************)
EXTENDS Integers

CONSTANTS
    Startups,           \* config.startup: subset of {"REQUIRED", "DEFERRED"}
    Interval,           \* reconnect_interval_ms
    SendAttempts,       \* SYSLOG_SEND_ATTEMPTS
    MaxClock,           \* the window of clock readings
    MaxFaults           \* bound: failures other than a daemon that is away

ASSUME StartupsAssumption == Startups \subseteq {"REQUIRED", "DEFERRED"}
ASSUME BoundsAssumption ==
    /\ Interval \in Nat \ {0} /\ SendAttempts \in Nat \ {0}
    /\ MaxClock \in Nat /\ MaxClock > 2 * Interval /\ MaxFaults \in Nat

VARIABLES
    s,              \* struct logger_syslog: fd "invalid", "live" (associated
                    \* with the daemon that listens) or "stale", startup,
                    \* connection_error, retry_from_ms, retry_clock_pending,
                    \* metrics.connected
    pc,             \* the next system call of the writer
    m,              \* what the current call added to s->metrics
    error,          \* the error the send loop ended with
    listening,      \* the daemon's socket is bound
    clock,          \* what CLOCK_MONOTONIC would read
    faults,         \* failures so far
    got,            \* auxiliary: what the daemon received of this record
    since_attempt,  \* auxiliary: true time since a connection was decided on
    since_loss      \* auxiliary: true time since an association was lost

env == <<listening, clock>>
aux == <<got, since_attempt, since_loss>>
vars == <<s, pc, m, error, faults, env, aux>>

-----------------------------------------------------------------------------
backpressure(e) == e \in {"EAGAIN", "ENOBUFS", "ENOMEM"}

endpoint_unavailable(e) ==
    e \in {"ENOENT", "ECONNREFUSED", "ECONNRESET", "ENOTCONN", "EINTR", "EAGAIN"}

broken_association(e) ==
    e \in {"ECONNREFUSED", "ECONNRESET", "ENOTCONN", "EPIPE", "ENOENT", "EDESTADDRREQ", "EIO"}

before(left, right) == left < right

elapsed(now, since) == now >= since /\ now - since >= Interval

NoIncrement ==
    [submitted |-> 0, sent |-> 0, failed |-> 0, cooldown |-> 0, backpressure |-> 0,
     connect_attempts |-> 0, send_attempts |-> 0]
Nothing == [whole |-> 0, partial |-> 0]

Fault == faults < MaxFaults /\ faults' = faults + 1

\* The increments of record_failure.
record_failure(add, e) ==
    [add EXCEPT !.failed = @ + 1, !.backpressure = @ + (IF backpressure(e) THEN 1 ELSE 0)]

Init ==
    /\ s \in [fd : {"invalid"}, startup : Startups, connection_error : {"none"},
              retry_from_ms : {0}, retry_clock_pending : {FALSE}, connected : {FALSE}]
    /\ pc = "init" /\ m = NoIncrement /\ error = "none"
    /\ listening \in BOOLEAN /\ clock \in 0..1 /\ faults = 0
    /\ got = Nothing /\ since_attempt = Interval /\ since_loss = Interval

-----------------------------------------------------------------------------
(* connect_once and logger_syslog_init                                     *)

\* socket fails, which is never deferable, or connect answers: "ok", no
\* daemon, or any other failure.
ConnectOutcome(e, deferable) ==
    \/ e \in {"EMFILE", "EAGAIN"} /\ ~deferable /\ Fault
    \/ /\ deferable = endpoint_unavailable(e)
       /\ \/ e = "ok" /\ listening /\ UNCHANGED faults
          \/ e \in {"ENOENT", "ECONNREFUSED"} /\ ~listening /\ UNCHANGED faults
          \/ e \in {"EACCES", "EINTR", "EAGAIN"} /\ Fault
ConnectResults == {"ok", "ENOENT", "ECONNREFUSED", "EMFILE", "EACCES", "EINTR", "EAGAIN"}

\* A failed candidate socket is closed; only a connected one is kept.
connect_once(e) ==
    IF e = "ok"
    THEN [s EXCEPT !.fd = "live", !.connected = TRUE, !.connection_error = "none"]
    ELSE [s EXCEPT !.connection_error = e]

InitClock ==
    /\ pc = "init"
    /\ \/ /\ s' = [s EXCEPT !.retry_from_ms = clock]
          /\ pc' = "init_connect" /\ since_attempt' = 0
          /\ UNCHANGED faults
       \/ /\ Fault
          /\ pc' = "refused" /\ UNCHANGED <<s, since_attempt>>
    /\ UNCHANGED <<m, error, env, got, since_loss>>

InitConnect ==
    /\ pc = "init_connect"
    /\ \E e \in ConnectResults, deferable \in BOOLEAN :
         /\ ConnectOutcome(e, deferable)
         /\ s' = connect_once(e)
         /\ pc' = IF e = "ok" \/ (s.startup = "DEFERRED" /\ deferable)
                  THEN "idle" ELSE "refused"
    /\ UNCHANGED <<m, error, env, aux>>

-----------------------------------------------------------------------------
(* logger_syslog_write                                                     *)

\* The line, the level, the prefix or the size is refused before any call.
WriteRefused ==
    /\ pc = "idle"
    /\ m' = record_failure([NoIncrement EXCEPT !.submitted = 1], "EMSGSIZE")
    /\ got' = Nothing
    /\ UNCHANGED <<s, pc, error, env, faults, since_attempt, since_loss>>

WriteBegin ==
    /\ pc = "idle"
    /\ m' = [NoIncrement EXCEPT !.submitted = 1]
    /\ pc' = IF s.fd = "invalid" THEN "clock" ELSE "send"
    /\ got' = Nothing
    /\ UNCHANGED <<s, error, env, faults, since_attempt, since_loss>>

\* Mutant: an association lost while the clock failed is not remembered.
RetryFromNoPending(now) ==
    IF before(now, s.retry_from_ms) THEN now ELSE s.retry_from_ms

\* Where the cool-down starts: a clock that failed or ran back starts it anew.
RetryFrom(now) ==
    IF s.retry_clock_pending \/ before(now, s.retry_from_ms) THEN now ELSE s.retry_from_ms

\* Mutant: the pending mark is never cleared.
ColdStillPending(now) == [s EXCEPT !.retry_from_ms = RetryFrom(now)]

\* The fields after the cool-down has been examined.
Cold(now) == [s EXCEPT !.retry_from_ms = RetryFrom(now), !.retry_clock_pending = FALSE]

\* Without a connection: read the clock; connect when the interval is over,
\* fail the record otherwise.
Retry ==
    /\ pc = "clock"
    /\ \/ /\ Fault
          /\ pc' = "idle" /\ m' = record_failure(m, "EIO")
          /\ UNCHANGED <<s, since_attempt>>
       \/ /\ elapsed(clock, RetryFrom(clock))
          /\ s' = [Cold(clock) EXCEPT !.retry_from_ms = clock]
          /\ pc' = "connect" /\ since_attempt' = 0
          /\ UNCHANGED <<m, faults>>
       \/ /\ ~elapsed(clock, RetryFrom(clock))
          /\ s' = Cold(clock)
          /\ pc' = "idle"
          /\ m' = record_failure([m EXCEPT !.cooldown = 1], s.connection_error)
          /\ UNCHANGED <<faults, since_attempt>>
    /\ UNCHANGED <<error, env, got, since_loss>>

Connect ==
    /\ pc = "connect"
    /\ \E e \in ConnectResults, deferable \in BOOLEAN :
         LET add == [m EXCEPT !.connect_attempts = @ + 1]
         IN  /\ ConnectOutcome(e, deferable)
             /\ s' = connect_once(e)
             /\ pc' = IF e = "ok" THEN "send" ELSE "idle"
             /\ m' = IF e = "ok" THEN add ELSE record_failure(add, e)
    /\ UNCHANGED <<error, env, aux>>

\* send hands over the whole datagram.
SendWhole ==
    /\ pc = "send" /\ s.fd = "live"
    /\ pc' = "idle"
    /\ m' = [m EXCEPT !.send_attempts = @ + 1, !.sent = 1]
    /\ got' = [got EXCEPT !.whole = @ + 1]
    /\ UNCHANGED <<s, error, env, faults, since_attempt, since_loss>>

\* The record fails with e; a broken association is given up first.
SendEnds(add, e) ==
    IF broken_association(e)
    THEN pc' = "broken" /\ error' = e /\ m' = add
    ELSE pc' = "idle" /\ m' = record_failure(add, e) /\ UNCHANGED error

\* Mutant: a short send is followed by another.
SendShortAgain ==
    /\ pc = "send" /\ s.fd = "live"
    /\ Fault
    /\ m.send_attempts + 1 < SendAttempts
    /\ m' = [m EXCEPT !.send_attempts = @ + 1]
    /\ got' = [got EXCEPT !.partial = @ + 1]
    /\ UNCHANGED <<s, pc, error, env, since_attempt, since_loss>>

\* send hands over less: what the daemon got is uncertain, the loop ends.
SendShort ==
    /\ pc = "send" /\ s.fd = "live"
    /\ Fault
    /\ SendEnds([m EXCEPT !.send_attempts = @ + 1], "EIO")
    /\ got' = [got EXCEPT !.partial = @ + 1]
    /\ UNCHANGED <<s, env, since_attempt, since_loss>>

\* send fails; only EINTR is tried again, a bounded number of times.
SendFails ==
    /\ pc = "send"
    /\ LET add == [m EXCEPT !.send_attempts = @ + 1]
       IN  \/ /\ s.fd = "stale"
              /\ SendEnds(add, "ECONNREFUSED")
              /\ UNCHANGED faults
           \/ /\ Fault
              /\ \E e \in {"EAGAIN", "EPERM"} : SendEnds(add, e)
           \/ /\ Fault
              /\ IF add.send_attempts < SendAttempts
                 THEN m' = add /\ UNCHANGED <<pc, error>>
                 ELSE SendEnds(add, "EINTR")
    /\ UNCHANGED <<s, env, aux>>

\* logger_syslog_close and the start of the cool-down.  The record is neither
\* repeated nor replayed.
Broken ==
    /\ pc = "broken"
    /\ LET closed == [s EXCEPT !.fd = "invalid", !.connected = FALSE, !.connection_error = error]
       IN  \/ /\ s' = [closed EXCEPT !.retry_from_ms = clock]
              /\ UNCHANGED faults
           \/ /\ Fault
              /\ s' = [closed EXCEPT !.retry_clock_pending = TRUE]
    /\ pc' = "idle" /\ m' = record_failure(m, error)
    /\ since_loss' = 0
    /\ UNCHANGED <<error, env, got, since_attempt>>

\* logger_syslog_close of a logger that is destroyed.
Close ==
    /\ pc = "idle"
    /\ s' = [s EXCEPT !.fd = "invalid", !.connected = FALSE]
    /\ pc' = "closed"
    /\ UNCHANGED <<m, error, env, faults, aux>>

-----------------------------------------------------------------------------
(* The daemon and the clock                                                *)

DaemonStops ==
    /\ listening /\ listening' = FALSE
    /\ s' = [s EXCEPT !.fd = IF @ = "live" THEN "stale" ELSE @]
    /\ UNCHANGED <<pc, m, error, clock, faults, aux>>

DaemonStarts ==
    /\ ~listening /\ listening' = TRUE
    /\ UNCHANGED <<s, pc, m, error, clock, faults, aux>>

Older(age) == IF age < Interval THEN age + 1 ELSE age

\* A tick; at the end of the window its origin moves instead.
Tick ==
    /\ IF clock < MaxClock
       THEN clock' = clock + 1 /\ UNCHANGED s
       ELSE /\ s' = [s EXCEPT !.retry_from_ms = IF @ > 0 THEN @ - 1 ELSE 0]
            /\ UNCHANGED clock
    /\ since_attempt' = Older(since_attempt) /\ since_loss' = Older(since_loss)
    /\ UNCHANGED <<pc, m, error, listening, faults, got>>

ClockRunsBack ==
    /\ Fault
    /\ clock' \in 0..(clock - 1)
    /\ UNCHANGED <<s, pc, m, error, listening, aux>>

-----------------------------------------------------------------------------
WriteStep == Retry \/ Connect \/ SendWhole \/ SendShort \/ SendFails \/ Broken

Next ==
    \/ InitClock \/ InitConnect
    \/ WriteRefused \/ WriteBegin \/ WriteStep \/ Close
    \/ DaemonStops \/ DaemonStarts \/ Tick \/ ClockRunsBack

Spec == Init /\ [][Next]_vars

\* Calls return, time passes and the host goes on logging.  Nothing is assumed
\* of the daemon.
Fairness == WF_vars(InitClock \/ InitConnect \/ WriteStep) /\ WF_vars(WriteBegin) /\ WF_vars(Tick)
FairSpec == Spec /\ Fairness

-----------------------------------------------------------------------------
(* Properties                                                              *)

\* logger_syslog_write decides to connect only when reconnect_interval_ms of
\* true time have passed since it last decided so and since it lost an
\* association, although it only sees a clock that fails and runs back.
NoReconnectStorm ==
    [][pc # "connect" /\ pc' = "connect" => since_attempt = Interval /\ since_loss = Interval]_vars

\* A record reaches the daemon as at most one datagram, whole or short, however
\* often calls are interrupted and connections replaced; the write returns 0
\* exactly when it arrived whole, and counts it once.
OneDatagramPerRecord ==
    /\ got.whole + got.partial <= 1
    /\ m.connect_attempts <= 1 /\ m.send_attempts <= SendAttempts
    /\ pc = "idle" => m.sent + m.failed = m.submitted /\ m.sent = got.whole
    /\ m.cooldown = 1 => m.connect_attempts = 0 /\ m.send_attempts = 0
    /\ s.connected <=> s.fd # "invalid"

\* Once the daemon stays up and failures end, records arrive again and again,
\* whatever happened to the connection and the clock before.
DeliveryResumes ==
    <>[]listening => []<>(m.sent = 1) \/ <>(pc \in {"refused", "closed"})
==============================================================================
