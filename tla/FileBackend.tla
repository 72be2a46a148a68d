----------------------------- MODULE FileBackend -----------------------------
(***************************************************************************)
(* logger_file.c: the file output of a logger.  An instance owns an active *)
(* file through a lock file, appends to it, syncs it, renames it to an     *)
(* archive when it is full or a day old, reopens it and deletes expired    *)
(* archives.  Processes are killed and the machine crashes between any two *)
(* system calls; every call may fail.                                      *)
(*                                                                         *)
(* emit_mu makes the operations of one instance sequential; other          *)
(* instances and an external rotation tool run between their calls.  The   *)
(* target is a regular file in a trusted directory whose lock file nobody  *)
(* removes (FILE_BACKEND.md), so check_owner and the link and type checks  *)
(* succeed.  The clock and the archive stamps count microseconds.          *)
(***************************************************************************)
EXTENDS Integers, Sequences, FiniteSets

CONSTANTS
    Instances,          \* loggers configured with the same file
    None,
    Rotations,          \* the rotation settings a logger may be created with:
                        \* mode, max_file_size, and retention_days in clock
                        \* ticks (0: keep)
    Attempts,           \* LOGGER_ARCHIVE_ATTEMPTS
    Sizes,              \* the sizes of a write
    DayLength,          \* clock ticks of a day
    MaxClock,           \* bound: readings of the clock
    MaxStamp,           \* the last stamp archive_name can format
    MaxInodes,          \* bound: files ever created
    MaxWrites,          \* bound: writes
    MaxControls,        \* bound: flushes, reopens and closes
    MaxFaults,          \* bound: system calls that fail
    MaxCrashes          \* bound: killed processes and machine crashes

Stamps == 1..MaxStamp
Active == 0
Names == {Active} \cup Stamps
Inodes == 1..MaxInodes
Writes == 1..MaxWrites
Modes == {"NONE", "SIZE", "DAILY", "SIZE_DAILY", "EXTERNAL"}

ASSUME RotationsAssumption ==
    Rotations \subseteq [mode : Modes, max_file_size : Nat, retention : Nat]
ASSUME NoneAssumption == None \notin Nat /\ None \notin Instances
ASSUME BoundsAssumption ==
    /\ {MaxInodes, MaxWrites, MaxControls, MaxFaults, MaxCrashes} \subseteq Nat
    /\ {Attempts, DayLength, MaxClock, MaxStamp} \subseteq Nat \ {0} /\ Sizes \subseteq Nat \ {0}
    /\ MaxClock < MaxStamp

VARIABLES
    rotation,   \* f->rotation, the same for all loggers of the file
    fs,         \* the file system: dirs is the directory's history since its
                \* last sync; content, synced, doomed the writes in a file,
                \* those on disk, those a failed sync lost; size, appends,
                \* mtime; count files exist
    lock,       \* who holds the lock file
    f,          \* f[i]: struct logger_file
    pc,         \* pc[i]: the next system call of i
    op,         \* op[i]: the arguments and locals of i's operation
    first_error,\* first_error[i]: l->first_error, latched
    accepted,   \* accepted[i]: writes of i that have returned 0
    confirmed,  \* writes covered by a sync the caller was told succeeded
    expired,    \* writes in files that were not written to for the retention
                \* time when they were deleted
    mine,       \* mine[i]: the stamps i has archived under since it opened
    clock, next, controls, faults, crashes

told == <<first_error, accepted, confirmed, expired>>
world == <<rotation, clock, crashes>>
calls == <<next, controls>>
vars == <<fs, lock, f, pc, op, told, mine, world, calls, faults>>

Empty == [fd |-> None, detached |-> FALSE, dir_dirty |-> FALSE, current_size |-> 0,
          current_day |-> 0, archive_time |-> 0]
Idle == [kind |-> "none", write |-> 0, size |-> 0, sync |-> FALSE, stamp |-> 0, attempt |-> 0,
         candidate |-> None, changed |-> FALSE, failed |-> FALSE]

Init ==
    /\ rotation \in Rotations
    /\ fs = [dirs |-> <<[n \in Names |-> None]>>, count |-> 0,
             content |-> [k \in Inodes |-> {}], synced |-> [k \in Inodes |-> {}],
             doomed |-> [k \in Inodes |-> {}], size |-> [k \in Inodes |-> 0],
             appends |-> [k \in Inodes |-> 0], mtime |-> [k \in Inodes |-> 0]]
    /\ lock = None
    /\ f = [i \in Instances |-> Empty]
    /\ pc = [i \in Instances |-> "closed"]
    /\ op = [i \in Instances |-> Idle]
    /\ first_error = [i \in Instances |-> FALSE]
    /\ accepted = [i \in Instances |-> {}]
    /\ confirmed = {} /\ expired = {}
    /\ mine = [i \in Instances |-> {}]
    /\ clock = 1 /\ next = 1 /\ controls = 0 /\ faults = 0 /\ crashes = 0

-----------------------------------------------------------------------------
(* The file system and the clock (external)                                *)

dir == fs.dirs[Len(fs.dirs)]
DayOf(t) == t \div DayLength
Fault == faults < MaxFaults /\ faults' = faults + 1

\* fsync of file k.  The pages of a failed sync are gone for later syncs.
Synced(k) == [fs EXCEPT !.synced[k] = fs.content[k] \ fs.doomed[k]]
SyncLost(k) == [fs EXCEPT !.doomed[k] = @ \cup (fs.content[k] \ fs.synced[k])]

\* fsync of the directory.
DirSynced == [fs EXCEPT !.dirs = <<dir>>]

\* openat of the active name with O_CREAT: the file, created if need be.
Opened == IF dir[Active] # None THEN dir[Active] ELSE fs.count + 1
AfterOpen ==
    IF dir[Active] # None THEN fs
    ELSE [fs EXCEPT !.dirs = Append(@, [dir EXCEPT ![Active] = fs.count + 1]), !.count = @ + 1]

\* The call, or the look at what it opened, fails: the file may be there.
OpenFails == \/ UNCHANGED fs
             \/ fs.count < MaxInodes /\ fs' = AfterOpen

-----------------------------------------------------------------------------
(* Control flow of one operation                                           *)

At(i, label) == pc[i] = label
Go(i, label) == pc' = [pc EXCEPT ![i] = label]

\* The operation returns an error, which the logger latches.
ReturnError(i) ==
    /\ Go(i, "ready")
    /\ op' = [op EXCEPT ![i] = Idle]
    /\ first_error' = [first_error EXCEPT ![i] = TRUE]
    /\ UNCHANGED <<accepted, confirmed, expired>>

\* It returns 0.  A flush answers with the latched error instead, if any.
ReturnOk(i) ==
    /\ Go(i, "ready")
    /\ op' = [op EXCEPT ![i] = Idle]
    /\ accepted' = IF op[i].kind = "write" THEN [accepted EXCEPT ![i] = @ \cup {op[i].write}]
                                           ELSE accepted
    /\ confirmed' =
         CASE op[i].kind = "write" /\ op[i].sync -> confirmed \cup {op[i].write}
           [] op[i].kind = "flush" /\ ~first_error[i] -> confirmed \cup accepted[i]
           [] OTHER -> confirmed
    /\ UNCHANGED <<first_error, expired>>

-----------------------------------------------------------------------------
(* logger_file_init and logger_file_close_status                           *)

\* logger_file_reserve: flock without waiting; busy leaves nothing behind.
Reserve(i) ==
    /\ At(i, "closed")
    /\ lock = None
    /\ lock' = i
    /\ Go(i, "open")
    /\ UNCHANGED <<fs, f, op, told, mine, world, calls, faults>>

\* open_candidate: the directory is dirty even if the file was there.
Dirtied(i) == [f EXCEPT ![i].dir_dirty = TRUE]

\* install_fd
Installed(g, i, k, day) ==
    [g EXCEPT ![i].fd = k, ![i].current_size = fs.size[k], ![i].current_day = day,
              ![i].detached = FALSE]

\* logger_file_open_reserved; a failure closes what was reserved.
Open(i) ==
    /\ At(i, "open")
    /\ \/ /\ fs.count < MaxInodes \/ dir[Active] # None
          /\ fs' = AfterOpen
          /\ f' = Installed(Dirtied(i), i, Opened, DayOf(clock))
          /\ Go(i, "ready")
          /\ UNCHANGED <<lock, faults>>
       \/ /\ Fault
          /\ OpenFails
          /\ lock' = None
          /\ Go(i, "closed")
          /\ UNCHANGED f
    /\ UNCHANGED <<op, told, mine, world, calls>>

\* Mutant: the lock file is closed first.
CloseLockFirst(i) ==
    /\ At(i, "ready") /\ controls < MaxControls
    /\ controls' = controls + 1
    /\ lock' = None
    /\ Go(i, "close_lock")
    /\ UNCHANGED <<fs, f, op, told, mine, world, next, faults>>

\* The data descriptor goes first, then the lock.
Close(i) ==
    /\ At(i, "ready") /\ controls < MaxControls
    /\ controls' = controls + 1
    /\ f' = [f EXCEPT ![i].fd = None]
    /\ Go(i, "close_lock")
    /\ UNCHANGED <<fs, lock, op, told, mine, world, next, faults>>

CloseLock(i) ==
    /\ At(i, "close_lock")
    /\ lock' = IF lock = i THEN None ELSE lock
    /\ f' = [f EXCEPT ![i] = Empty]
    /\ first_error' = [first_error EXCEPT ![i] = FALSE]
    /\ accepted' = [accepted EXCEPT ![i] = {}]
    /\ mine' = [mine EXCEPT ![i] = {}]
    /\ Go(i, "closed")
    /\ UNCHANGED <<fs, op, confirmed, expired, world, calls, faults>>

-----------------------------------------------------------------------------
(* logger_file_sync: a flush, a confirmed write, and the start of a rotation *)

Flush(i) ==
    /\ At(i, "ready") /\ controls < MaxControls
    /\ controls' = controls + 1
    /\ op' = [op EXCEPT ![i] = [Idle EXCEPT !.kind = "flush"]]
    /\ Go(i, "sync")
    /\ UNCHANGED <<fs, lock, f, told, mine, world, next, faults>>

\* What follows the sync: the rename of a rotation, the switch of a reopen,
\* or the answer, which is an error while the file is detached.
AfterSync(i) ==
    CASE op[i].stamp # 0 -> Go(i, "rename") /\ UNCHANGED <<op, told>>
      [] op[i].kind = "reopen" -> Go(i, "install") /\ UNCHANGED <<op, told>>
      [] OTHER -> IF f[i].detached THEN ReturnError(i) ELSE ReturnOk(i)

\* sync_data
SyncData(i) ==
    /\ At(i, "sync")
    /\ \/ /\ fs' = Synced(f[i].fd)
          /\ IF f[i].dir_dirty THEN Go(i, "sync_dir") /\ UNCHANGED <<op, told>>
                               ELSE AfterSync(i)
          /\ UNCHANGED faults
       \/ /\ Fault
          /\ fs' = SyncLost(f[i].fd)
          /\ ReturnError(i)
    /\ UNCHANGED <<lock, f, mine, world, calls>>

\* sync_directory
SyncDirectory(i) ==
    /\ At(i, "sync_dir")
    /\ \/ /\ fs' = DirSynced
          /\ f' = [f EXCEPT ![i].dir_dirty = FALSE]
          /\ AfterSync(i)
          /\ UNCHANGED faults
       \/ /\ Fault
          /\ ReturnError(i)
          /\ UNCHANGED <<fs, f>>
    /\ UNCHANGED <<lock, mine, world, calls>>

-----------------------------------------------------------------------------
(* logger_file_write and logger_file_writev                                *)

\* prepare_write: the write does not fit, or its day is not the file's.
NeedsRotation(i, n, day) ==
    /\ f[i].current_size # 0
    /\ \/ LET limit == rotation.max_file_size
          IN  /\ rotation.mode \in {"SIZE", "SIZE_DAILY"} /\ limit # 0
              /\ f[i].current_size >= limit \/ n > limit - f[i].current_size
       \/ rotation.mode \in {"DAILY", "SIZE_DAILY"} /\ day # f[i].current_day

\* A write of n bytes with a record time on some day up to now; a detached
\* file refuses it.
Write(i) ==
    /\ At(i, "ready") /\ next <= MaxWrites
    /\ next' = next + 1
    /\ \E n \in Sizes, sync \in BOOLEAN, day \in DayOf(0)..DayOf(clock) :
         IF f[i].detached THEN ReturnError(i)
         ELSE /\ Go(i, IF NeedsRotation(i, n, day) THEN "check" ELSE "append")
              /\ op' = [op EXCEPT ![i] = [Idle EXCEPT !.kind = "write", !.write = next,
                                                      !.size = n, !.sync = sync]]
              /\ UNCHANGED told
    /\ UNCHANGED <<fs, lock, f, mine, world, controls, faults>>

\* n bytes reach file k; all of them make up the write.
Appended(i, k, n) ==
    IF n = 0 THEN fs ELSE
    [fs EXCEPT !.size[k] = @ + n, !.appends[k] = @ + 1, !.mtime[k] = clock,
               !.content[k] = IF n = op[i].size THEN @ \cup {op[i].write} ELSE @]

\* Mutant: the bytes of a write that failed halfway are not counted.
AppendForgetsTorn(i) ==
    /\ At(i, "append")
    /\ \E n \in 0..op[i].size :
         /\ n < op[i].size => Fault
         /\ n = op[i].size => UNCHANGED faults
         /\ fs' = Appended(i, f[i].fd, n)
         /\ f' = [f EXCEPT ![i].current_size = IF n = op[i].size THEN @ + n ELSE @]
         /\ CASE n < op[i].size -> ReturnError(i)
              [] n = op[i].size /\ op[i].sync ->
                   Go(i, "sync") /\ op' = [op EXCEPT ![i].stamp = 0] /\ UNCHANGED told
              [] OTHER -> ReturnOk(i)
    /\ UNCHANGED <<lock, mine, world, calls>>

\* all or vall, and account: a write that fails may have written a part.
AppendWrite(i) ==
    /\ At(i, "append")
    /\ \E n \in 0..op[i].size :
         /\ n < op[i].size => Fault
         /\ n = op[i].size => UNCHANGED faults
         /\ fs' = Appended(i, f[i].fd, n)
         /\ f' = [f EXCEPT ![i].current_size = @ + n]
         /\ CASE n < op[i].size -> ReturnError(i)
              [] n = op[i].size /\ op[i].sync ->
                   Go(i, "sync") /\ op' = [op EXCEPT ![i].stamp = 0] /\ UNCHANGED told
              [] OTHER -> ReturnOk(i)
    /\ UNCHANGED <<lock, mine, world, calls>>

-----------------------------------------------------------------------------
(* rotate_impl                                                             *)

\* Mutant: the clock alone names the archive.
StampClock(i) == clock

\* The stamp of the next archive: after the last one, whatever the clock says.
Stamp(i) == IF f[i].archive_time # 0 /\ clock <= f[i].archive_time
            THEN f[i].archive_time + 1 ELSE clock

\* check_active and the stamp; then logger_file_sync.
CheckActive(i) ==
    /\ At(i, "check")
    /\ IF dir[Active] = f[i].fd /\ Stamp(i) \in Stamps
       THEN Go(i, "sync") /\ op' = [op EXCEPT ![i].stamp = Stamp(i)] /\ UNCHANGED told
       ELSE ReturnError(i)
    /\ UNCHANGED <<fs, lock, f, mine, world, calls, faults>>

\* Mutant: one name too many is tried.
MoreNamesOffByOne(i) == op[i].stamp + 1 \in Stamps /\ op[i].attempt < Attempts

\* A taken name leaves another to try.
MoreNames(i) == op[i].stamp + 1 \in Stamps /\ op[i].attempt + 1 < Attempts

\* Mutant: the archived file is not marked as detached.
RenameStaysAttached(i) ==
    /\ At(i, "rename") /\ dir[op[i].stamp] = None
    /\ fs' = [fs EXCEPT !.dirs = Append(@, [dir EXCEPT ![op[i].stamp] = dir[Active], ![Active] = None])]
    /\ f' = [f EXCEPT ![i].dir_dirty = TRUE, ![i].archive_time = op[i].stamp]
    /\ mine' = [mine EXCEPT ![i] = @ \cup {op[i].stamp}]
    /\ Go(i, "archived")
    /\ UNCHANGED <<lock, op, told, world, calls, faults>>

\* renameat2 with RENAME_NOREPLACE; a taken name is tried one later.
Rename(i) ==
    /\ At(i, "rename")
    /\ \/ /\ dir[op[i].stamp] = None
          /\ fs' = [fs EXCEPT !.dirs =
                      Append(@, [dir EXCEPT ![op[i].stamp] = dir[Active], ![Active] = None])]
          /\ f' = [f EXCEPT ![i].detached = TRUE, ![i].dir_dirty = TRUE,
                            ![i].archive_time = op[i].stamp]
          /\ mine' = [mine EXCEPT ![i] = @ \cup {op[i].stamp}]
          /\ Go(i, "archived")
          /\ UNCHANGED <<op, told, faults>>
       \/ /\ dir[op[i].stamp] # None
          /\ IF MoreNames(i)
             THEN /\ op' = [op EXCEPT ![i].stamp = @ + 1, ![i].attempt = @ + 1]
                  /\ UNCHANGED <<pc, told>>
             ELSE ReturnError(i)
          /\ UNCHANGED <<fs, f, mine, faults>>
       \/ /\ Fault
          /\ ReturnError(i)
          /\ UNCHANGED <<fs, f, mine>>
    /\ UNCHANGED <<lock, world, calls>>

\* sync_directory after the rename, and again after the new file is created.
SyncSwitch(i, from, to) ==
    /\ At(i, from)
    /\ \/ /\ fs' = DirSynced
          /\ f' = [f EXCEPT ![i].dir_dirty = FALSE]
          /\ Go(i, to)
          /\ UNCHANGED <<op, told, faults>>
       \/ /\ Fault
          /\ ReturnError(i)
          /\ UNCHANGED <<fs, f>>
    /\ UNCHANGED <<lock, mine, world, calls>>

\* open_candidate with O_EXCL.
OpenNew(i) ==
    /\ At(i, "open_new")
    /\ \/ /\ dir[Active] = None /\ fs.count < MaxInodes
          /\ fs' = AfterOpen
          /\ f' = Dirtied(i)
          /\ op' = [op EXCEPT ![i].candidate = Opened]
          /\ Go(i, "sync_new")
          /\ UNCHANGED <<told, faults>>
       \/ /\ \/ dir[Active] # None /\ UNCHANGED <<fs, faults>>
             \/ Fault /\ OpenFails
          /\ ReturnError(i)
          /\ UNCHANGED f
    /\ UNCHANGED <<lock, mine, world, calls>>

\* sync_data of the new, empty file.
SyncNew(i) ==
    /\ At(i, "sync_new")
    /\ \/ /\ fs' = Synced(op[i].candidate)
          /\ Go(i, "sync_new_dir")
          /\ UNCHANGED <<op, told, faults>>
       \/ /\ Fault
          /\ ReturnError(i)
          /\ UNCHANGED fs
    /\ UNCHANGED <<lock, f, mine, world, calls>>

\* install_fd, and the close of the old file, which may fail.
Install(i) ==
    /\ At(i, "install")
    /\ f' = Installed(f, i, op[i].candidate,
                      DayOf(IF op[i].kind = "reopen" THEN clock ELSE op[i].stamp))
    /\ \/ /\ op[i].kind = "reopen"
          /\ ReturnOk(i)
          /\ UNCHANGED faults
       \/ /\ op[i].kind = "write"
          /\ Go(i, IF rotation.retention = 0 THEN "append" ELSE "retention")
          /\ UNCHANGED <<op, told, faults>>
       \/ /\ Fault
          /\ ReturnError(i)
    /\ UNCHANGED <<fs, lock, mine, world, calls>>

-----------------------------------------------------------------------------
(* retention                                                               *)

Expires(i, n) == /\ dir[n] \notin {None, f[i].fd}
                 /\ op[i].stamp - fs.mtime[dir[n]] > rotation.retention

\* The writes of file k whose time is up.
Aged(i, k) == {r \in fs.content[k] : op[i].stamp - fs.mtime[k] > rotation.retention}

\* unlinkat of an expired archive.
Unlink(i) ==
    /\ At(i, "retention")
    /\ \E n \in Stamps :
         /\ Expires(i, n)
         /\ fs' = [fs EXCEPT !.dirs = Append(@, [dir EXCEPT ![n] = None])]
         /\ expired' = expired \cup Aged(i, dir[n])
    /\ op' = [op EXCEPT ![i].changed = TRUE]
    /\ UNCHANGED <<lock, f, pc, first_error, accepted, confirmed, mine, world, calls, faults>>

\* No more archives, or a failed call: sync the directory if it changed.
RetentionEnd(i) ==
    /\ At(i, "retention")
    /\ \/ /\ \A n \in Stamps : ~Expires(i, n)
          /\ UNCHANGED faults
          /\ IF op[i].changed THEN Go(i, "retention_dir") /\ UNCHANGED <<op, told>>
                              ELSE Go(i, "append") /\ UNCHANGED <<op, told>>
       \/ /\ Fault
          /\ IF op[i].changed
             THEN Go(i, "retention_dir") /\ op' = [op EXCEPT ![i].failed = TRUE] /\ UNCHANGED told
             ELSE ReturnError(i)
    /\ f' = [f EXCEPT ![i].dir_dirty = @ \/ op[i].changed]
    /\ UNCHANGED <<fs, lock, mine, world, calls>>

\* The failure of an archive's deletion is the answer even if this succeeds.
RetentionSync(i) ==
    /\ At(i, "retention_dir")
    /\ \/ /\ fs' = DirSynced
          /\ f' = [f EXCEPT ![i].dir_dirty = FALSE]
          /\ UNCHANGED faults
          /\ IF op[i].failed THEN ReturnError(i) ELSE Go(i, "append") /\ UNCHANGED <<op, told>>
       \/ /\ Fault
          /\ ReturnError(i)
          /\ UNCHANGED <<fs, f>>
    /\ UNCHANGED <<lock, mine, world, calls>>

Rotate(i) ==
    \/ CheckActive(i) \/ Rename(i) \/ SyncSwitch(i, "archived", "open_new") \/ OpenNew(i)
    \/ SyncNew(i) \/ SyncSwitch(i, "sync_new_dir", "install") \/ Install(i)
    \/ Unlink(i) \/ RetentionEnd(i) \/ RetentionSync(i)

-----------------------------------------------------------------------------
(* logger_file_reopen                                                      *)

\* Mutant: the old file is not synced before it is left.
ReopenNoSync(i) ==
    /\ At(i, "ready") /\ controls < MaxControls
    /\ controls' = controls + 1
    /\ fs.count < MaxInodes \/ dir[Active] # None
    /\ fs' = AfterOpen
    /\ f' = Dirtied(i)
    /\ op' = [op EXCEPT ![i] = [Idle EXCEPT !.kind = "reopen", !.candidate = Opened]]
    /\ Go(i, "sync_dir")
    /\ UNCHANGED <<lock, told, mine, world, next, faults>>

\* Open the candidate; sync the old file and the directory before the switch.
Reopen(i) ==
    /\ At(i, "ready") /\ controls < MaxControls
    /\ controls' = controls + 1
    /\ \/ /\ fs.count < MaxInodes \/ dir[Active] # None
          /\ fs' = AfterOpen
          /\ f' = Dirtied(i)
          /\ op' = [op EXCEPT ![i] = [Idle EXCEPT !.kind = "reopen", !.candidate = Opened]]
          /\ Go(i, "sync")
          /\ UNCHANGED <<told, faults>>
       \/ /\ Fault
          /\ OpenFails
          /\ ReturnError(i)
          /\ UNCHANGED f
    /\ UNCHANGED <<lock, mine, world, next>>

-----------------------------------------------------------------------------
(* The environment                                                         *)

\* The clock is set forward or back.
Tick ==
    /\ \E t \in 1..MaxClock : clock' = t
    /\ clock' # clock
    /\ UNCHANGED <<fs, lock, f, pc, op, told, mine, rotation, crashes, calls, faults>>

\* A rotation tool renames the active file (LOGGER_ROTATE_EXTERNAL).
RenameExternally ==
    /\ rotation.mode = "EXTERNAL" /\ dir[Active] # None
    /\ \E n \in Stamps :
         /\ dir[n] = None /\ \A m \in Stamps : m < n => dir[m] # None
         /\ fs' = [fs EXCEPT !.dirs = Append(@, [dir EXCEPT ![n] = dir[Active], ![Active] = None])]
    /\ UNCHANGED <<lock, f, pc, op, told, mine, world, calls, faults>>

\* The process of i dies: its descriptors close, the page cache lives on.
Kill(i) ==
    /\ pc[i] # "closed" /\ crashes < MaxCrashes
    /\ crashes' = crashes + 1
    /\ lock' = IF lock = i THEN None ELSE lock
    /\ f' = [f EXCEPT ![i] = Empty]
    /\ pc' = [pc EXCEPT ![i] = "closed"]
    /\ op' = [op EXCEPT ![i] = Idle]
    /\ first_error' = [first_error EXCEPT ![i] = FALSE]
    /\ accepted' = [accepted EXCEPT ![i] = {}]
    /\ mine' = [mine EXCEPT ![i] = {}]
    /\ UNCHANGED <<fs, confirmed, expired, rotation, clock, calls, faults>>

Unsynced == UNION {fs.content[k] \ (fs.synced[k] \cup fs.doomed[k]) : k \in Inodes}

\* The machine stops: the directory is as it was at some time since its last
\* sync, and a file has what was synced and any part of the rest.
Crash ==
    /\ crashes < MaxCrashes
    /\ crashes' = crashes + 1
    /\ \E d \in 1..Len(fs.dirs), extra \in SUBSET Unsynced :
         LET kept == [k \in Inodes |-> fs.synced[k] \cup (fs.content[k] \cap extra)]
         IN  fs' = [fs EXCEPT !.dirs = <<fs.dirs[d]>>, !.content = kept, !.synced = kept,
                              !.doomed = [k \in Inodes |-> {}]]
    /\ lock' = None
    /\ f' = [i \in Instances |-> Empty]
    /\ pc' = [i \in Instances |-> "closed"]
    /\ op' = [i \in Instances |-> Idle]
    /\ first_error' = [i \in Instances |-> FALSE]
    /\ accepted' = [i \in Instances |-> {}]
    /\ mine' = [i \in Instances |-> {}]
    /\ UNCHANGED <<confirmed, expired, rotation, clock, calls, faults>>

-----------------------------------------------------------------------------
Step(i) ==
    \/ Reserve(i) \/ Open(i) \/ Close(i) \/ CloseLock(i)
    \/ Flush(i) \/ SyncData(i) \/ SyncDirectory(i)
    \/ Write(i) \/ AppendWrite(i) \/ Rotate(i) \/ Reopen(i)

Next ==
    \/ \E i \in Instances : Step(i) \/ Kill(i)
    \/ Tick \/ RenameExternally \/ Crash

Spec == Init /\ [][Next]_vars

-----------------------------------------------------------------------------
(* Properties                                                              *)

Steps == {"closed", "open", "ready", "close_lock", "sync", "sync_dir", "check", "rename",
          "archived", "open_new", "sync_new", "sync_new_dir", "install", "retention",
          "retention_dir", "append"}

\* The variables keep to their types, and a rotation tries at most Attempts names.
TypeOK ==
    /\ fs.dirs # << >>
    /\ \A d \in 1..Len(fs.dirs) : fs.dirs[d] \in [Names -> (1..fs.count) \cup {None}]
    /\ fs.count \in 0..MaxInodes
    /\ \A field \in {"content", "synced", "doomed"} : fs[field] \in [Inodes -> SUBSET Writes]
    /\ \A field \in {"size", "appends", "mtime"} : fs[field] \in [Inodes -> Nat]
    /\ lock \in Instances \cup {None}
    /\ f \in [Instances -> [fd : Inodes \cup {None}, detached : BOOLEAN, dir_dirty : BOOLEAN,
                            current_size : Nat, current_day : Nat, archive_time : 0..MaxStamp]]
    /\ pc \in [Instances -> Steps]
    /\ op \in [Instances -> [kind : {"none", "write", "flush", "reopen"}, write : 0..MaxWrites,
                             size : Nat, sync : BOOLEAN, stamp : 0..MaxStamp,
                             attempt : 0..(Attempts - 1), candidate : Inodes \cup {None},
                             changed : BOOLEAN, failed : BOOLEAN]]
    /\ first_error \in [Instances -> BOOLEAN] /\ accepted \in [Instances -> SUBSET Writes]
    /\ confirmed \subseteq Writes /\ expired \subseteq Writes
    /\ mine \in [Instances -> SUBSET Stamps]
    /\ clock \in 1..MaxClock /\ next \in 1..(MaxWrites + 1) /\ controls \in 0..MaxControls
    /\ faults \in 0..MaxFaults /\ crashes \in 0..MaxCrashes

\* A write the caller was told is safe, by a confirmed write or by a flush,
\* survives a machine crash at any moment: whichever directory the disk has,
\* some name leads to a file that has the write on disk.  Only retention takes
\* it away, and only when its file was last written long enough ago.
ConfirmedSurvives ==
    \A d \in 1..Len(fs.dirs) : \A r \in confirmed \ expired :
        \E n \in Names : fs.dirs[d][n] # None /\ r \in fs.synced[fs.dirs[d][n]]

\* An archive is never appended to, not even after a rotation that failed
\* halfway.
ArchivesAreSealed ==
    [][ rotation.mode # "EXTERNAL" =>
          \A n \in Stamps : dir[n] # None => fs'.size[dir[n]] = fs.size[dir[n]] ]_vars

\* The archives of one instance in the order of their names, and then the
\* active file, hold the writes in the order they were made, also when the
\* clock is set back.
ArchivesInOrder ==
    \A i \in Instances : \A m \in mine[i], n \in mine[i] \cup {Active} :
        (m < n \/ n = Active) /\ dir[m] # None /\ dir[n] # None =>
            \A r \in fs.content[dir[m]], s \in fs.content[dir[n]] : r < s

\* A file is larger than max_file_size (0: no limit) only if one write made it
\* so, and the cached size of the active file is right, torn writes included.
SizeBounded ==
    /\ rotation.mode \in {"SIZE", "SIZE_DAILY"} /\ rotation.max_file_size # 0 =>
         \A k \in Inodes : fs.size[k] <= rotation.max_file_size \/ fs.appends[k] <= 1
    /\ \A i \in Instances :
         pc[i] = "ready" => f[i].current_size = fs.size[f[i].fd]

\* Two loggers never have the same file open for writing: the lock outlives
\* the descriptor.
OneWriter ==
    \A i, j \in Instances : f[i].fd # None /\ f[j].fd # None => i = j
==============================================================================
