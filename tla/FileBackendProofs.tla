-------------------------- MODULE FileBackendProofs --------------------------
(***************************************************************************)
(* Proofs about FileBackend, for any rotation setting, any number of       *)
(* instances, files, writes, failing calls and crashes: one writer, the    *)
(* size limit, sealed archives in the order of their names, and no         *)
(* confirmed write lost.                                                   *)
(***************************************************************************)
EXTENDS FileBackend, TLAPS

Directories == [Names -> Inodes \cup {None}]
FileSystems ==
    [dirs : Seq(Directories), count : 0..MaxInodes,
     content : [Inodes -> SUBSET Writes], synced : [Inodes -> SUBSET Writes],
     doomed : [Inodes -> SUBSET Writes],
     size : [Inodes -> Nat], appends : [Inodes -> Nat], mtime : [Inodes -> Nat]]
Files ==
    [fd : Inodes \cup {None}, detached : BOOLEAN, dir_dirty : BOOLEAN,
     current_size : Nat, current_day : Nat, archive_time : 0..MaxStamp]
Operations ==
    [kind : {"none", "write", "flush", "reopen"}, write : 0..MaxWrites,
     size : Nat, sync : BOOLEAN, stamp : 0..MaxStamp,
     attempt : 0..(Attempts - 1), candidate : Inodes \cup {None},
     changed : BOOLEAN, failed : BOOLEAN]

FileTypes ==
    /\ fs \in FileSystems /\ fs.dirs # << >>
    /\ lock \in Instances \cup {None}
    /\ f \in [Instances -> Files] /\ pc \in [Instances -> Steps] /\ op \in [Instances -> Operations]
    /\ first_error \in [Instances -> BOOLEAN] /\ accepted \in [Instances -> SUBSET Writes]
    /\ confirmed \subseteq Writes /\ expired \subseteq Writes
    /\ mine \in [Instances -> SUBSET Stamps] /\ rotation \in Rotations
    /\ clock \in 1..MaxClock /\ next \in 1..(MaxWrites + 1) /\ controls \in 0..MaxControls
    /\ faults \in 0..MaxFaults /\ crashes \in 0..MaxCrashes

\* Whoever has the file reserved, from flock to the close of the lock file, has
\* the lock.
LockInv == \A i \in Instances : pc[i] # "closed" => lock = i

\* An instance has the file open between Open and Close, and starts afresh.
Shut == {"closed", "open", "close_lock"}
OpenAt(i) ==
    /\ pc[i] \in {"closed", "open"} => f[i] = Empty /\ mine[i] = {} /\ accepted[i] = {}
    /\ pc[i] \in Shut <=> f[i].fd = None
    /\ f[i].fd # None => f[i].fd <= fs.count

\* i is in a rotation before the new file is installed, or after.
Before(i) ==
    \/ pc[i] \in {"rename", "archived", "open_new", "sync_new", "sync_new_dir"}
    \/ pc[i] \in {"sync", "sync_dir"} /\ op[i].stamp # 0
    \/ pc[i] = "install" /\ op[i].kind = "write"
After(i) == pc[i] \in {"retention", "retention_dir"}

\* i has a candidate for the active file.
Choosing(i) ==
    \/ pc[i] \in {"sync_new", "sync_new_dir", "install"}
    \/ pc[i] \in {"sync", "sync_dir"} /\ op[i].kind = "reopen"

\* What the locals of an operation say of it.
CallAt(i) ==
    /\ pc[i] \in Shut \cup {"ready"} => op[i] = Idle
    /\ pc[i] \in {"check", "append"} \/ Before(i) \/ After(i) => op[i].kind = "write"
    /\ pc[i] = "install" => op[i].kind \in {"write", "reopen"}
    /\ pc[i] = "check" \/ Before(i) \/ After(i) => rotation.mode \notin {"NONE", "EXTERNAL"}
    /\ pc[i] = "rename" \/ (pc[i] \in {"sync", "sync_dir"} /\ op[i].stamp # 0) =>
         op[i].stamp > f[i].archive_time
    /\ op[i].kind = "write" => op[i].write \in Writes /\ op[i].write < next /\ op[i].size > 0
    /\ Choosing(i) => op[i].candidate \in Inodes /\ op[i].candidate <= fs.count
    /\ op[i].kind = "reopen" /\ pc[i] = "sync" => f[i].dir_dirty
    /\ pc[i] \in {"append", "check"} \/ After(i) => ~f[i].detached

\* The cached size is right, what is about to be appended fits, and the file of
\* a rotation starts empty.
Limited == rotation.mode \in {"SIZE", "SIZE_DAILY"} /\ rotation.max_file_size # 0
SizeAt(i) ==
    /\ f[i].fd # None => f[i].current_size = fs.size[f[i].fd]
    /\ pc[i] \in {"sync_new", "sync_new_dir"} \/ (pc[i] = "install" /\ op[i].kind = "write") =>
         fs.size[op[i].candidate] = 0
    /\ After(i) => f[i].current_size = 0
    /\ pc[i] = "append" /\ Limited =>
         f[i].current_size = 0 \/ f[i].current_size + op[i].size <= rotation.max_file_size

\* But for an external tool, the file an instance writes to is the active one.
ActiveAt(i) ==
    rotation.mode # "EXTERNAL" =>
        /\ f[i].fd # None /\ ~f[i].detached => dir[Active] = f[i].fd
        /\ Choosing(i) => dir[Active] = op[i].candidate

\* The write in progress is the newest; archives and the active file are in order.
Precedes(k, j) == \A r \in fs.content[k], s \in fs.content[j] : r < s
OrderAt(i) ==
    /\ pc[i] \in {"check", "append"} \/ Before(i) \/ After(i) =>
         \A k \in Inodes : \A r \in fs.content[k] : r < op[i].write
    /\ rotation.mode = "EXTERNAL" => mine[i] = {}
    /\ \A m \in mine[i] : m <= f[i].archive_time
    /\ \A m, n \in mine[i] : m < n /\ dir[m] # None /\ dir[n] # None => Precedes(dir[m], dir[n])
    /\ \A m \in mine[i] : dir[m] # None /\ dir[Active] # None => Precedes(dir[m], dir[Active])

\* The directories a crash may leave behind.
Dirs == {fs.dirs[d] : d \in 1..Len(fs.dirs)}

\* The open file has a name, and in every directory a crash may leave behind once
\* the directory is not dirty; so does the candidate when it is installed.
Linked(D, k) == \E n \in Names : D[n] = k
LinkedAt(i) ==
    /\ f[i].fd # None =>
         /\ Linked(dir, f[i].fd)
         /\ ~f[i].dir_dirty => \A D \in Dirs : Linked(D, f[i].fd)
    /\ Choosing(i) => Linked(dir, op[i].candidate)
    /\ pc[i] = "install" => \A D \in Dirs : Linked(D, op[i].candidate)

\* Every directory a crash may leave behind leads to a file with r on disk.
Found(D, r) == \E n \in Names : D[n] # None /\ r \in fs.synced[D[n]]
Durable(r) == \A D \in Dirs : Found(D, r)

\* Accepted writes are durable, or wait in the open file for a sync; the renaming
\* of the file, and its exchange, find none waiting.
Waiting(i) == fs.content[f[i].fd] \ fs.doomed[f[i].fd]
Settled == {"rename", "archived", "open_new", "sync_new", "sync_new_dir", "install"}
DurableAt(i) ==
    f[i].fd # None =>
        /\ pc[i] = "sync_dir" => Waiting(i) \subseteq fs.synced[f[i].fd]
        /\ op[i].kind = "write" /\ op[i].stamp = 0 /\ pc[i] \in {"sync", "sync_dir"} =>
             op[i].write \in Waiting(i)
        /\ ~first_error[i] => \A r \in accepted[i] \ expired :
             Durable(r) \/ (pc[i] \notin Settled /\ r \in Waiting(i))

InstanceInv(i) ==
    /\ OpenAt(i) /\ CallAt(i) /\ SizeAt(i) /\ ActiveAt(i) /\ OrderAt(i) /\ LinkedAt(i)
    /\ DurableAt(i)

\* No file has two names in a directory.
DirInv ==
    \A D \in Dirs : \A n \in Names : D[n] # None =>
        /\ D[n] <= fs.count
        /\ \A m \in Names : D[m] = D[n] => m = n

\* A file not yet created is empty, and so is one without an append.
FreshInv ==
    \A k \in Inodes :
        /\ k > fs.count => fs.size[k] = 0 /\ fs.content[k] = {}
        /\ fs.size[k] = 0 => fs.appends[k] = 0

\* What is on disk was written and not lost by a failed sync.
DiskInv ==
    \A k \in Inodes :
        /\ fs.synced[k] \subseteq fs.content[k] \ fs.doomed[k]
        /\ fs.doomed[k] \subseteq fs.content[k]
        /\ \A r \in fs.content[k] : r < next

\* No file outgrows the limit by more than one write.
LimitInv ==
    Limited => \A k \in Inodes : fs.size[k] <= rotation.max_file_size \/ fs.appends[k] <= 1

\* Confirmed writes are durable.
ConfirmedInv == \A r \in confirmed \ expired : Durable(r)

DiskPart == DirInv /\ FreshInv /\ DiskInv /\ LimitInv /\ ConfirmedInv

FileInv ==
    /\ FileTypes /\ LockInv /\ DiskPart
    /\ \A i \in Instances : InstanceInv(i)

-----------------------------------------------------------------------------
(* The file system                                                         *)

\* The directory is kept, on disk, or changed to D.
SameDirs == Dirs' = Dirs /\ dir' = dir
DirsOnDisk == Dirs' = {dir} /\ dir' = dir
Grown(D) == Dirs' = Dirs \cup {D} /\ dir' = D

\* The files are as they were.
SameFiles ==
    /\ fs'.content = fs.content /\ fs'.synced = fs.synced /\ fs'.doomed = fs.doomed
    /\ fs'.size = fs.size /\ fs'.appends = fs.appends

Disk == fs \in FileSystems /\ fs.dirs # << >>

\* The current directory is one a crash may leave behind.
LEMMA DirFacts ==
    ASSUME Disk
    PROVE  dir \in Dirs /\ dir \in Directories /\ \A D \in Dirs : D \in Directories
  <1>1. fs.dirs \in Seq(Directories) /\ Len(fs.dirs) \in Nat \ {0}
    BY DEF Disk, FileSystems
  <1> QED
    BY <1>1 DEF dir, Dirs

\* The fields of the file system.
LEMMA DiskFields ==
    ASSUME Disk
    PROVE  /\ fs.content \in [Inodes -> SUBSET Writes] /\ fs.synced \in [Inodes -> SUBSET Writes]
           /\ fs.doomed \in [Inodes -> SUBSET Writes] /\ fs.size \in [Inodes -> Nat]
           /\ fs.appends \in [Inodes -> Nat] /\ fs.mtime \in [Inodes -> Nat]
           /\ fs.count \in 0..MaxInodes
  BY DEF Disk, FileSystems

\* A sync of the directory leaves one directory.
LEMMA DirSyncedIs ==
    ASSUME Disk, fs' = DirSynced
    PROVE  Disk' /\ DirsOnDisk /\ SameFiles /\ fs'.count = fs.count
  <1>1. dir \in Directories
    BY DirFacts
  <1> DEFINE s == <<dir>>
  <1>a. s \in Seq(Directories) /\ Len(s) = 1 /\ s[1] = dir
    BY <1>1
  <1>b. fs' = [fs EXCEPT !.dirs = s]
    BY DEF DirSynced
  <1> HIDE DEF s
  <1>2. fs'.dirs = s /\ fs' \in FileSystems /\ SameFiles /\ fs'.count = fs.count
    BY <1>a, <1>b DEF Disk, FileSystems, SameFiles
  <1>3. Len(fs'.dirs) = 1 /\ fs'.dirs[1] = dir
    BY <1>a, <1>2
  <1>c. fs'.dirs # << >>
    <2> SUFFICES ASSUME fs'.dirs = << >> PROVE FALSE
      OBVIOUS
    <2> QED
      BY <1>3
  <1>4. Dirs' = {dir}
    BY <1>3 DEF Dirs
  <1>5. dir' = dir
    BY <1>3 DEF dir
  <1> QED
    BY <1>2, <1>c, <1>4, <1>5 DEF Disk, DirsOnDisk

\* A change of the directory adds one.
LEMMA GrownIs ==
    ASSUME Disk, NEW D \in Directories,
           fs'.dirs = Append(fs.dirs, D)
    PROVE  fs'.dirs \in Seq(Directories) /\ fs'.dirs # << >> /\ Grown(D)
  <1>1. fs.dirs \in Seq(Directories)
    BY DEF Disk, FileSystems
  <1>2. /\ fs'.dirs \in Seq(Directories) /\ Len(fs'.dirs) = Len(fs.dirs) + 1
        /\ fs'.dirs[Len(fs.dirs) + 1] = D /\ Len(fs.dirs) \in Nat
        /\ \A d \in 1..Len(fs.dirs) : fs'.dirs[d] = fs.dirs[d]
    BY <1>1
  <1>3. dir' = D
    BY <1>2 DEF dir
  <1>4. Dirs' = Dirs \cup {D}
    BY <1>2 DEF Dirs
  <1>5. fs'.dirs # << >>
    <2> SUFFICES ASSUME fs'.dirs = << >> PROVE FALSE
      OBVIOUS
    <2> QED
      BY <1>2
  <1> QED
    BY <1>2, <1>3, <1>4, <1>5 DEF Grown

\* The directory alone changes.
LEMMA ChangedIs ==
    ASSUME Disk, NEW D \in Directories, fs' = [fs EXCEPT !.dirs = Append(@, D)]
    PROVE  Disk' /\ Grown(D) /\ SameFiles /\ fs'.count = fs.count
  <1>1. fs'.dirs = Append(fs.dirs, D) /\ SameFiles /\ fs'.count = fs.count
    BY DEF Disk, FileSystems, SameFiles
  <1>2. fs'.dirs \in Seq(Directories) /\ fs'.dirs # << >> /\ Grown(D)
    BY <1>1, GrownIs
  <1> QED
    BY <1>1, <1>2 DEF Disk, FileSystems

\* openat finds the active file, or creates the next.
LEMMA OpenedIs ==
    ASSUME Disk, DirInv, fs.count < MaxInodes \/ dir[Active] # None, fs' = AfterOpen
    PROVE  /\ Disk' /\ SameFiles
           /\ Opened \in Inodes /\ dir'[Active] = Opened /\ Opened <= fs'.count
           /\ \/ /\ dir[Active] = Opened /\ SameDirs /\ fs'.count = fs.count
              \/ /\ dir[Active] = None /\ Opened = fs.count + 1 /\ fs'.count = fs.count + 1
                 /\ Grown([dir EXCEPT ![Active] = Opened])
  <1>1. dir \in Directories /\ dir \in Dirs /\ fs.count \in Nat /\ fs.count <= MaxInodes
    BY DirFacts, DiskFields, BoundsAssumption
  <1>2. CASE dir[Active] # None
    <2>1. fs' = fs /\ Opened = dir[Active]
      BY <1>2 DEF AfterOpen, Opened
    <2>2. SameDirs /\ SameFiles /\ Disk'
      BY <2>1 DEF SameDirs, SameFiles, Disk, Dirs, dir
    <2>3. dir[Active] \in Inodes /\ dir[Active] <= fs.count
      BY <1>1, <1>2 DEF Directories, Names, DirInv
    <2> QED
      BY <2>1, <2>2, <2>3 DEF SameDirs
  <1>3. CASE dir[Active] = None
    <2> DEFINE D == [dir EXCEPT ![Active] = fs.count + 1]
    <2>1. Opened = fs.count + 1 /\ Opened \in Inodes
      BY <1>1, <1>3, BoundsAssumption DEF Opened, Inodes
    <2>2. D \in Directories /\ D[Active] = fs.count + 1
      BY <1>1, <2>1 DEF Directories, Names
    <2>3. /\ fs'.dirs = Append(fs.dirs, D) /\ fs'.count = fs.count + 1
          /\ fs'.count \in 0..MaxInodes /\ SameFiles /\ fs'.mtime = fs.mtime
          /\ fs' = [fs EXCEPT !.dirs = fs'.dirs, !.count = fs'.count]
      BY <1>1, <1>3, <2>1, BoundsAssumption DEF AfterOpen, Disk, FileSystems, SameFiles, Inodes
    <2> HIDE DEF D
    <2>4. fs'.dirs \in Seq(Directories) /\ fs'.dirs # << >> /\ Grown(D)
      BY <2>2, <2>3, GrownIs
    <2>5. Disk'
      BY <2>3, <2>4 DEF Disk, FileSystems
    <2> QED
      BY <1>3, <2>1, <2>2, <2>3, <2>4, <2>5 DEF Grown, D
  <1> QED
    BY <1>2, <1>3

\* A sync of file k puts on disk what has not been lost.
LEMMA SyncedIs ==
    ASSUME Disk, NEW k \in Inodes, fs' = Synced(k)
    PROVE  /\ Disk' /\ SameDirs /\ fs'.count = fs.count
           /\ fs'.content = fs.content /\ fs'.doomed = fs.doomed
           /\ fs'.size = fs.size /\ fs'.appends = fs.appends
           /\ fs'.synced = [fs.synced EXCEPT ![k] = fs.content[k] \ fs.doomed[k]]
  <1>1. fs.content[k] \ fs.doomed[k] \subseteq Writes
    BY DiskFields
  <1>2. [fs.synced EXCEPT ![k] = fs.content[k] \ fs.doomed[k]] \in [Inodes -> SUBSET Writes]
    BY <1>1, DiskFields
  <1>3. /\ fs' = [fs EXCEPT !.synced = [fs.synced EXCEPT ![k] = fs.content[k] \ fs.doomed[k]]]
    BY DEF Synced
  <1>4. /\ fs' \in FileSystems /\ fs'.dirs = fs.dirs /\ fs'.count = fs.count
        /\ fs'.content = fs.content /\ fs'.doomed = fs.doomed
        /\ fs'.size = fs.size /\ fs'.appends = fs.appends
        /\ fs'.synced = [fs.synced EXCEPT ![k] = fs.content[k] \ fs.doomed[k]]
    BY <1>2, <1>3 DEF Disk, FileSystems
  <1> QED
    BY <1>4 DEF Disk, SameDirs, Dirs, dir

\* A failed sync of file k loses what was not on disk.
LEMMA SyncLostIs ==
    ASSUME Disk, NEW k \in Inodes, fs' = SyncLost(k)
    PROVE  /\ Disk' /\ SameDirs /\ fs'.count = fs.count
           /\ fs'.content = fs.content /\ fs'.synced = fs.synced
           /\ fs'.size = fs.size /\ fs'.appends = fs.appends
           /\ fs'.doomed = [fs.doomed EXCEPT
                              ![k] = fs.doomed[k] \cup (fs.content[k] \ fs.synced[k])]
  <1> DEFINE d == [fs.doomed EXCEPT ![k] = fs.doomed[k] \cup (fs.content[k] \ fs.synced[k])]
  <1>1. d \in [Inodes -> SUBSET Writes]
    BY DiskFields
  <1>2. fs' = [fs EXCEPT !.doomed = d]
    BY DiskFields DEF SyncLost
  <1> HIDE DEF d
  <1>3. /\ fs' \in FileSystems /\ fs'.dirs = fs.dirs /\ fs'.count = fs.count
        /\ fs'.content = fs.content /\ fs'.synced = fs.synced
        /\ fs'.size = fs.size /\ fs'.appends = fs.appends /\ fs'.doomed = d
    BY <1>1, <1>2 DEF Disk, FileSystems
  <1> QED
    BY <1>3 DEF Disk, SameDirs, Dirs, dir, d

\* An append of n bytes to file k.
LEMMA AppendedIs ==
    ASSUME Disk, NEW i \in Instances, NEW k \in Inodes, NEW n \in Nat, clock \in Nat,
           op[i].write \in Writes, fs' = Appended(i, k, n)
    PROVE  /\ Disk' /\ SameDirs /\ fs'.count = fs.count
           /\ fs'.synced = fs.synced /\ fs'.doomed = fs.doomed
           /\ fs'.size = [fs.size EXCEPT ![k] = @ + n]
           /\ fs'.appends = [fs.appends EXCEPT ![k] = IF n = 0 THEN @ ELSE @ + 1]
           /\ fs'.content = [fs.content EXCEPT ![k] =
                               IF n # 0 /\ n = op[i].size THEN @ \cup {op[i].write} ELSE @]
  <1>0. /\ fs.content \in [Inodes -> SUBSET Writes] /\ fs.size \in [Inodes -> Nat]
        /\ fs.appends \in [Inodes -> Nat] /\ fs.mtime \in [Inodes -> Nat]
    BY DiskFields
  <1>1. CASE n = 0
    <2>1. fs' = fs
      BY <1>1 DEF Appended
    <2>2. fs.size = [fs.size EXCEPT ![k] = @ + n]
      BY <1>0, <1>1
    <2>3. fs.appends = [fs.appends EXCEPT ![k] = IF n = 0 THEN @ ELSE @ + 1]
      BY <1>0, <1>1
    <2>4. fs.content = [fs.content EXCEPT ![k] =
                          IF n # 0 /\ n = op[i].size THEN @ \cup {op[i].write} ELSE @]
      BY <1>0, <1>1
    <2> QED
      BY <2>1, <2>2, <2>3, <2>4 DEF Disk, SameDirs, Dirs, dir
  <1>2. CASE n # 0
    <2> DEFINE s == [fs.size EXCEPT ![k] = @ + n]
               a == [fs.appends EXCEPT ![k] = @ + 1]
               m == [fs.mtime EXCEPT ![k] = clock]
               c == [fs.content EXCEPT ![k] =
                       IF n = op[i].size THEN @ \cup {op[i].write} ELSE @]
    <2>1. s \in [Inodes -> Nat] /\ a \in [Inodes -> Nat] /\ m \in [Inodes -> Nat]
      BY <1>0
    <2>2. c \in [Inodes -> SUBSET Writes]
      BY <1>0
    <2>3. fs' = [fs EXCEPT !.size = s, !.appends = a, !.mtime = m, !.content = c]
      BY <1>2 DEF Appended
    <2>4. /\ a = [fs.appends EXCEPT ![k] = IF n = 0 THEN @ ELSE @ + 1]
          /\ c = [fs.content EXCEPT ![k] =
                    IF n # 0 /\ n = op[i].size THEN @ \cup {op[i].write} ELSE @]
      BY <1>2
    <2> HIDE DEF s, a, m, c
    <2>5. /\ fs' \in FileSystems /\ fs'.dirs = fs.dirs /\ fs'.count = fs.count
          /\ fs'.synced = fs.synced /\ fs'.doomed = fs.doomed
          /\ fs'.size = s /\ fs'.appends = a /\ fs'.content = c
      BY <2>1, <2>2, <2>3 DEF Disk, FileSystems
    <2> QED
      BY <2>4, <2>5 DEF Disk, SameDirs, Dirs, dir, s
  <1> QED
    BY <1>1, <1>2

-----------------------------------------------------------------------------
(* One instance at a time                                                  *)

Closed(j) == pc[j] = "closed" /\ f[j] = Empty /\ op[j] = Idle /\ mine[j] = {} /\ accepted[j] = {}

\* The other instances do nothing.
Others(i) ==
    \A j \in Instances \ {i} :
        /\ pc'[j] = pc[j] /\ f'[j] = f[j] /\ op'[j] = op[j]
        /\ mine'[j] = mine[j] /\ accepted'[j] = accepted[j]

\* A closed instance satisfies its invariant whatever the files are.
LEMMA ClosedHolds ==
    ASSUME NEW j \in Instances, Closed(j)'
    PROVE  InstanceInv(j)'
  <1> USE DEF Closed, Empty, Idle, Shut, Before, After, Choosing
  <1>1. OpenAt(j)'
    BY DEF OpenAt
  <1>2. CallAt(j)'
    BY DEF CallAt
  <1>3. SizeAt(j)'
    BY DEF SizeAt
  <1>4. ActiveAt(j)' /\ LinkedAt(j)'
    BY DEF ActiveAt, LinkedAt
  <1>5. OrderAt(j)'
    BY DEF OrderAt
  <1>6. DurableAt(j)'
    BY DEF DurableAt
  <1> QED
    BY <1>1, <1>2, <1>3, <1>4, <1>5, <1>6 DEF InstanceInv

\* Who has no lock is closed.
LEMMA ClosedIs ==
    ASSUME FileInv, NEW j \in Instances, lock # j
    PROVE  Closed(j)
  <1>1. pc[j] = "closed" /\ OpenAt(j) /\ CallAt(j)
    BY DEF FileInv, LockInv, InstanceInv
  <1> QED
    BY <1>1 DEF Closed, OpenAt, CallAt, Shut

\* While i has the lock it is enough to look at i and at the files.
LEMMA OneMoves ==
    ASSUME FileInv, NEW i \in Instances, lock \in {i, None}, Others(i), FileTypes',
           pc'[i] # "closed" => lock' = i, DiskPart', InstanceInv(i)'
    PROVE  FileInv'
  <1>1. ASSUME NEW j \in Instances \ {i}
        PROVE  Closed(j)'
    <2>1. Closed(j)
      BY <1>1, ClosedIs, NoneAssumption
    <2> QED
      BY <2>1 DEF Closed, Others
  <1>2. ASSUME NEW j \in Instances
        PROVE  InstanceInv(j)'
    BY <1>1, ClosedHolds
  <1>3. LockInv'
    BY <1>1 DEF LockInv, Closed
  <1> QED
    BY <1>2, <1>3 DEF FileInv

-----------------------------------------------------------------------------
(* What lasts                                                              *)

\* What has a name in the directory keeps one.
Renamed(D) == \A n \in Names : dir[n] # None => \E m \in Names : D[m] = dir[n]

\* No file loses its name, or what it has on disk.
Lasting ==
    /\ \A k \in Inodes : fs.synced[k] \subseteq fs'.synced[k]
    /\ \/ SameDirs \/ DirsOnDisk
       \/ \E D \in Directories : Grown(D) /\ Renamed(D)

\* Then a durable write stays durable, and a linked file linked.
LEMMA DurableLasts ==
    ASSUME Disk, Lasting, NEW r, Durable(r)
    PROVE  Durable(r)'
  <1>1. dir \in Dirs /\ \A D \in Dirs : D \in Directories
    BY DirFacts
  <1>2. ASSUME NEW D \in Dirs PROVE Found(D, r)'
    <2>1. PICK n \in Names : D[n] # None /\ r \in fs.synced[D[n]]
      BY DEF Durable, Found
    <2>2. D[n] \in Inodes
      BY <1>1, <2>1 DEF Directories
    <2> QED
      BY <2>1, <2>2 DEF Found, Lasting
  <1>3. CASE SameDirs
    BY <1>2, <1>3 DEF Durable, SameDirs
  <1>4. CASE DirsOnDisk
    BY <1>1, <1>2, <1>4 DEF Durable, DirsOnDisk
  <1>5. ASSUME NEW D \in Directories, Grown(D), Renamed(D)
        PROVE  Durable(r)'
    <2>1. Found(dir, r)'
      <3>1. Found(dir, r)
        BY <1>1 DEF Durable
      <3>2. PICK n \in Names : dir[n] # None /\ r \in fs.synced[dir[n]]
        BY <3>1 DEF Found
      <3>3. dir[n] \in Inodes /\ r \in fs'.synced[dir[n]]
        BY <1>1, <3>2 DEF Directories, Lasting
      <3>4. PICK m \in Names : D[m] = dir[n]
        BY <1>5, <3>2 DEF Renamed
      <3>5. dir' = D
        BY <1>5 DEF Grown
      <3> QED
        BY <3>2, <3>3, <3>4, <3>5 DEF Found
    <2>2. dir' = D /\ Dirs' = Dirs \cup {D}
      BY <1>5 DEF Grown
    <2> QED
      BY <1>2, <2>1, <2>2 DEF Durable
  <1> QED
    BY <1>3, <1>4, <1>5 DEF Lasting

\* A linked file stays linked, and is so everywhere once the directory is on disk.
LEMMA LinkedLasts ==
    ASSUME Disk, Lasting, NEW k, k # None
    PROVE  /\ Linked(dir, k) => Linked(dir', k)
           /\ (\A D \in Dirs : Linked(D, k)) => \A D \in Dirs' : Linked(D, k)
           /\ DirsOnDisk /\ Linked(dir, k) => \A D \in Dirs' : Linked(D, k)
  <1>1. dir \in Dirs
    BY DirFacts
  <1>2. CASE SameDirs \/ DirsOnDisk
    BY <1>1, <1>2 DEF SameDirs, DirsOnDisk, Linked
  <1>3. ASSUME NEW D \in Directories, Grown(D), Renamed(D)
        PROVE  /\ Linked(dir, k) => Linked(dir', k)
               /\ (\A E \in Dirs : Linked(E, k)) => \A E \in Dirs' : Linked(E, k)
               /\ DirsOnDisk /\ Linked(dir, k) => \A E \in Dirs' : Linked(E, k)
    <2>1. Linked(dir, k) => Linked(D, k)
      BY <1>3 DEF Linked, Renamed
    <2>2. dir' = D /\ Dirs' = Dirs \cup {D}
      BY <1>3 DEF Grown
    <2> QED
      BY <1>1, <2>1, <2>2 DEF DirsOnDisk
  <1> QED
    BY <1>2, <1>3 DEF Lasting

\* The files and their names are as they were, or on disk.
Calm ==
    /\ SameFiles /\ fs'.count = fs.count /\ (SameDirs \/ DirsOnDisk)
    /\ rotation' = rotation /\ next <= next'

\* Then the files and the directories are in order, and nothing is lost.
LEMMA CalmParts ==
    ASSUME FileInv, next' \in Int, Calm
    PROVE  DirInv' /\ FreshInv' /\ DiskInv' /\ LimitInv' /\ Lasting
  <1>0. Disk /\ DiskPart /\ next \in Int
    BY DEF FileInv, FileTypes, Disk
  <1> USE DEF Calm, SameFiles
  <1>a. dir \in Dirs
    BY <1>0, DirFacts
  <1>1. DirInv'
    BY <1>0, <1>a DEF DiskPart, DirInv, SameDirs, DirsOnDisk
  <1>2. FreshInv'
    BY <1>0 DEF DiskPart, FreshInv
  <1>3. DiskInv'
    <2>1. ASSUME NEW k \in Inodes, NEW r \in fs.content[k] PROVE r < next'
      <3>1. r \in Int /\ r < next
        BY <1>0, DiskFields DEF DiskPart, DiskInv, Writes
      <3> QED
        BY <1>0, <3>1
    <2> QED
      BY <1>0, <2>1 DEF DiskPart, DiskInv
  <1>4. LimitInv'
    BY <1>0 DEF DiskPart, LimitInv, Limited
  <1>5. Lasting
    BY DEF Lasting
  <1> QED
    BY <1>1, <1>2, <1>3, <1>4, <1>5

\* The disk is in order as long as what is newly confirmed is durable.
LEMMA CalmDisk ==
    ASSUME FileInv, FileTypes', Calm,
           \A r \in confirmed' \ expired' : r \in confirmed \ expired \/ Durable(r)'
    PROVE  DiskPart'
  <1>0. Disk /\ DiskPart /\ next' \in Int
    BY DEF FileInv, FileTypes, Disk
  <1>1. DirInv' /\ FreshInv' /\ DiskInv' /\ LimitInv' /\ Lasting
    BY <1>0, CalmParts
  <1>2. ConfirmedInv'
    BY <1>0, <1>1, DurableLasts DEF DiskPart, ConfirmedInv
  <1> QED
    BY <1>1, <1>2 DEF DiskPart

\* A file is created under the active name.
Created ==
    /\ SameFiles /\ dir[Active] = None /\ fs'.count = fs.count + 1
    /\ Grown([dir EXCEPT ![Active] = fs.count + 1])
    /\ rotation' = rotation /\ next' = next /\ confirmed' = confirmed /\ expired' = expired

\* Then nothing is lost, and the disk is in order.
LEMMA CreatedDisk ==
    ASSUME FileInv, FileTypes', Created
    PROVE  DiskPart' /\ Lasting
  <1>d. Disk /\ DiskPart
    BY DEF FileInv, FileTypes, Disk
  <1>0. Disk /\ DiskPart /\ fs.count \in Nat
    BY <1>d, DiskFields
  <1>a. dir \in Dirs /\ dir \in Directories /\ \A D \in Dirs : D \in Directories
    BY <1>0, DirFacts
  <1> DEFINE D == [dir EXCEPT ![Active] = fs.count + 1]
  <1>b. /\ D[Active] = fs.count + 1 /\ \A n \in Names \ {Active} : D[n] = dir[n]
        /\ dir' = D /\ Dirs' = Dirs \cup {D} /\ fs.count + 1 \in Inodes
        /\ D \in Directories
    <2>1. dir' = D /\ Dirs' = Dirs \cup {D}
      BY DEF Created, Grown
    <2>2. fs'.count \in 0..MaxInodes /\ fs'.count = fs.count + 1
      BY DEF FileTypes, FileSystems, Created
    <2>3. fs.count + 1 \in Inodes
      BY <1>0, <2>2, BoundsAssumption DEF Inodes
    <2> QED
      BY <1>a, <2>1, <2>3 DEF Directories, Names
  <1> HIDE DEF D
  <1>1. DirInv'
    <2>1. ASSUME NEW E \in Dirs, NEW n \in Names, E[n] # None
          PROVE  E[n] <= fs.count + 1 /\ \A m \in Names : E[m] = E[n] => m = n
      <3>1. E[n] \in Nat
        BY <1>a, <2>1 DEF Directories, Inodes
      <3> QED
        BY <1>0, <2>1, <3>1 DEF DiskPart, DirInv
    <2>2. ASSUME NEW n \in Names, D[n] # None
          PROVE  D[n] <= fs.count + 1 /\ \A m \in Names : D[m] = D[n] => m = n
      <3>1. \A m \in Names : dir[m] # None => dir[m] \in Nat /\ dir[m] <= fs.count
        BY <1>0, <1>a DEF Directories, Inodes, DiskPart, DirInv
      <3>2. \A m, p \in Names : dir[m] # None /\ dir[p] = dir[m] => p = m
        BY <1>0, <1>a DEF DiskPart, DirInv
      <3>3. dir[Active] = None /\ None \notin Nat
        BY NoneAssumption DEF Created
      <3> QED
        BY <1>0, <1>b, <2>2, <3>1, <3>2, <3>3 DEF Names
    <2> QED
      BY <1>b, <2>1, <2>2 DEF DirInv, Created
  <1>2. FreshInv'
    BY <1>0 DEF DiskPart, FreshInv, Created, SameFiles, Inodes
  <1>3. DiskInv' /\ LimitInv'
    BY <1>0 DEF DiskPart, DiskInv, LimitInv, Limited, Created, SameFiles
  <1>4. Renamed(D)
    BY <1>b DEF Renamed, Created
  <1>5. Lasting
    BY <1>b, <1>4 DEF Lasting, Created, SameFiles, Grown
  <1>6. ConfirmedInv'
    BY <1>0, <1>5, DurableLasts DEF DiskPart, ConfirmedInv, Created
  <1> QED
    BY <1>1, <1>2, <1>3, <1>5, <1>6 DEF DiskPart

-----------------------------------------------------------------------------
(* How an operation ends                                                   *)

TellTypes ==
    /\ pc \in [Instances -> Steps] /\ op \in [Instances -> Operations]
    /\ first_error \in [Instances -> BOOLEAN] /\ accepted \in [Instances -> SUBSET Writes]
    /\ confirmed \subseteq Writes /\ expired \subseteq Writes
RestTypes ==
    /\ Disk /\ lock \in Instances \cup {None} /\ f \in [Instances -> Files]
    /\ mine \in [Instances -> SUBSET Stamps] /\ rotation \in Rotations
    /\ clock \in 1..MaxClock /\ next \in 1..(MaxWrites + 1) /\ controls \in 0..MaxControls
    /\ faults \in 0..MaxFaults /\ crashes \in 0..MaxCrashes

\* The types, in two parts: what callers are told, and the rest.
LEMMA TypesAre ==
    /\ FileTypes <=> TellTypes /\ RestTypes
    /\ FileTypes' <=> TellTypes' /\ RestTypes'
  BY DEF FileTypes, TellTypes, RestTypes, Disk

\* The records an instance starts from.
LEMMA IdleType == Idle \in Operations /\ Empty \in Files
  BY BoundsAssumption DEF Idle, Operations, Empty, Files

\* A fault is counted, or none happened.
LEMMA FaultType ==
    ASSUME RestTypes, Fault \/ faults' = faults
    PROVE  faults' \in 0..MaxFaults
  BY BoundsAssumption DEF RestTypes, Fault

\* What the caller of i is told concerns i.
Told(i) ==
    \A j \in Instances \ {i} : pc'[j] = pc[j] /\ op'[j] = op[j] /\ accepted'[j] = accepted[j]

Failed(i) ==
    /\ pc'[i] = "ready" /\ op'[i] = Idle /\ first_error'[i]
    /\ UNCHANGED <<accepted, confirmed, expired>>

\* An error leaves i ready, with the error latched.
LEMMA ErrorIs ==
    ASSUME FileTypes, NEW i \in Instances, ReturnError(i)
    PROVE  Failed(i) /\ Told(i) /\ TellTypes'
  <1>1. TellTypes /\ Idle \in Operations
    BY TypesAre, IdleType
  <1> QED
    BY <1>1 DEF TellTypes, ReturnError, Go, Failed, Told, Steps

Succeeded(i) ==
    /\ pc'[i] = "ready" /\ op'[i] = Idle /\ first_error' = first_error /\ expired' = expired
    /\ accepted'[i] = IF op[i].kind = "write" THEN accepted[i] \cup {op[i].write} ELSE accepted[i]
    /\ \A r \in confirmed' \ confirmed :
         \/ op[i].kind = "write" /\ op[i].sync /\ r = op[i].write
         \/ op[i].kind = "flush" /\ ~first_error[i] /\ r \in accepted[i]

\* A success leaves i ready, and confirms what it answers for.
LEMMA OkIs ==
    ASSUME FileTypes, NEW i \in Instances, op[i].kind = "write" => op[i].write \in Writes, ReturnOk(i)
    PROVE  Succeeded(i) /\ Told(i) /\ TellTypes'
  <1>1. TellTypes /\ Idle \in Operations
    BY TypesAre, IdleType
  <1>2. pc' \in [Instances -> Steps] /\ op' \in [Instances -> Operations]
    BY <1>1 DEF TellTypes, ReturnOk, Go, Steps
  <1>3. accepted' \in [Instances -> SUBSET Writes]
    BY <1>1 DEF TellTypes, ReturnOk
  <1>4. confirmed' \subseteq Writes
    BY <1>1 DEF TellTypes, ReturnOk
  <1>5. Told(i)
    BY <1>1 DEF TellTypes, ReturnOk, Go, Told
  <1>6. Succeeded(i)
    BY <1>1 DEF TellTypes, ReturnOk, Go, Succeeded
  <1> QED
    BY <1>1, <1>2, <1>3, <1>4, <1>5, <1>6 DEF TellTypes, ReturnOk

\* The operation goes on, with other locals perhaps.
LEMMA GoIs ==
    ASSUME FileTypes, NEW i \in Instances, NEW s \in Steps, NEW o \in Operations,
           Go(i, s), op' = [op EXCEPT ![i] = o], UNCHANGED told
    PROVE  /\ pc'[i] = s /\ op'[i] = o /\ Told(i) /\ TellTypes'
           /\ UNCHANGED <<first_error, accepted, confirmed, expired>>
  BY TypesAre DEF TellTypes, Go, Told, told

\* A sync of the open file failed.
Lost(i) ==
    /\ SameDirs /\ fs'.count = fs.count /\ fs'.content = fs.content /\ fs'.synced = fs.synced
    /\ fs'.size = fs.size /\ fs'.appends = fs.appends
    /\ fs'.doomed = [fs.doomed EXCEPT ![f[i].fd] = @ \cup (fs.content[f[i].fd] \ fs.synced[f[i].fd])]
    /\ rotation' = rotation /\ next' = next /\ confirmed' = confirmed /\ expired' = expired

\* Then what is on disk is as it was.
LEMMA LostDisk ==
    ASSUME FileInv, NEW i \in Instances, f[i].fd \in Inodes, Lost(i)
    PROVE  DiskPart' /\ Lasting
  <1>0. Disk /\ DiskPart
    BY DEF FileInv, FileTypes, Disk
  <1> USE DEF Lost
  <1>1. DirInv' /\ FreshInv' /\ LimitInv'
    BY <1>0 DEF DiskPart, DirInv, FreshInv, LimitInv, Limited, SameDirs
  <1>2. DiskInv'
    BY <1>0, DiskFields DEF DiskPart, DiskInv
  <1>3. Lasting
    BY DEF Lasting
  <1>4. ConfirmedInv'
    BY <1>0, <1>3, DurableLasts DEF DiskPart, ConfirmedInv
  <1> QED
    BY <1>1, <1>2, <1>3, <1>4 DEF DiskPart

\* What the proofs below need of the types of i.
Typed(i) ==
    /\ f[i].fd \in Inodes \cup {None} /\ f[i].current_size \in Nat /\ f[i].archive_time \in 0..MaxStamp
    /\ op[i].candidate \in Inodes \cup {None} /\ op[i].stamp \in 0..MaxStamp
    /\ op[i].size \in Nat /\ op[i].write \in 0..MaxWrites
    /\ mine[i] \subseteq Stamps /\ accepted[i] \subseteq Writes

\* They follow from the types.
LEMMA TypedIs ==
    ASSUME NEW i \in Instances
    PROVE  (FileTypes => Typed(i)) /\ (FileTypes' => Typed(i)')
  BY DEF FileTypes, Typed, Files, Operations

\* Numbers of files and writes.
LEMMA Numbers ==
    /\ Inodes \subseteq Nat \ {0} /\ None \notin Inodes /\ Writes \subseteq Nat
    /\ Active \in Names /\ Stamps \subseteq Names \ {Active} /\ Stamps \subseteq Nat \ {0}
    /\ None \notin Instances
  BY NoneAssumption DEF Inodes, Writes, Active, Names, Stamps

\* The file of i is as it was, and the directory not cleaner than it is.
SameFile(i) ==
    /\ f'[i].fd = f[i].fd /\ f'[i].current_size = f[i].current_size
    /\ f'[i].detached = f[i].detached /\ f'[i].archive_time = f[i].archive_time
    /\ mine'[i] = mine[i]
    /\ ~f'[i].dir_dirty => ~f[i].dir_dirty \/ DirsOnDisk

\* An error keeps the invariant: the file is open as it was, and no flush will
\* confirm what it holds.
LEMMA FailKeeps ==
    ASSUME FileInv, NEW i \in Instances, pc[i] \notin Shut, FileTypes', Others(i), lock' = lock,
           Failed(i), SameFile(i), Calm \/ Created \/ Lost(i)
    PROVE  FileInv'
  <1>0. FileTypes /\ Disk /\ lock = i /\ InstanceInv(i) /\ DiskPart
    BY DEF FileInv, FileTypes, Disk, LockInv, Shut
  <1>1. /\ Typed(i) /\ Typed(i)' /\ f[i].fd \in Inodes /\ f[i].fd <= fs.count
        /\ fs.count \in Nat /\ dir \in Dirs
    BY <1>0, TypedIs, DiskFields, DirFacts DEF InstanceInv, OpenAt, Typed
  <1>2. DiskPart' /\ Lasting
    <2>1. CASE Calm
      <3>1. confirmed' = confirmed /\ expired' = expired
        BY DEF Failed
      <3> QED
        BY <2>1, <3>1, CalmDisk DEF Lasting, Calm, SameFiles
    <2>2. CASE Created
      BY <2>2, CreatedDisk
    <2>3. CASE Lost(i)
      BY <1>1, <2>3, LostDisk
    <2> QED
      BY <2>1, <2>2, <2>3
  <1>e. pc'[i] = "ready" /\ op'[i] = Idle /\ first_error'[i]
    BY DEF Failed
  <1>f. /\ fs'.size = fs.size /\ fs'.content = fs.content /\ fs.count <= fs'.count
        /\ rotation' = rotation
        /\ \/ dir' = dir
           \/ /\ dir[Active] = None /\ dir'[Active] = fs.count + 1 /\ fs.count + 1 \in Inodes
              /\ \A n \in Stamps : dir'[n] = dir[n]
    <2>1. CASE Calm \/ Lost(i)
      BY <1>1, <2>1 DEF Calm, Lost, SameFiles, SameDirs, DirsOnDisk
    <2>2. CASE Created
      <3>1. dir \in Directories /\ fs'.count \in 0..MaxInodes
        BY <1>0, DirFacts DEF FileTypes, FileSystems
      <3> QED
        BY <1>1, <2>2, <3>1, Numbers, BoundsAssumption
        DEF Created, SameFiles, Grown, Directories, Inodes
    <2> QED
      BY <2>1, <2>2
  <1> USE DEF Shut, Before, After, Choosing, Idle, SameFile
  <1>3. OpenAt(i)'
    <2>1. fs'.count \in Nat
      BY DEF FileTypes, FileSystems
    <2>2. f'[i].fd = f[i].fd /\ f[i].fd \in Nat /\ f[i].fd # None /\ f[i].fd <= fs.count
      BY <1>1, Numbers
    <2>3. f[i].fd <= fs'.count
      BY <1>1, <1>f, <2>1, <2>2
    <2> QED
      BY <1>e, <2>2, <2>3 DEF OpenAt
  <1>4. CallAt(i)'
    BY <1>e DEF CallAt
  <1>5. SizeAt(i)'
    BY <1>0, <1>1, <1>e, <1>f DEF InstanceInv, SizeAt
  <1>6. ActiveAt(i)'
    BY <1>0, <1>1, <1>e, <1>f, Numbers DEF InstanceInv, ActiveAt
  <1>7. OrderAt(i)'
    <2>1. fs.content[fs.count + 1] = {} \/ dir' = dir
      BY <1>0, <1>1, <1>f DEF DiskPart, FreshInv
    <2> QED
      BY <1>0, <1>1, <1>e, <1>f, <2>1 DEF InstanceInv, OrderAt, Precedes, Typed
  <1>8. LinkedAt(i)'
    BY <1>0, <1>1, <1>2, <1>e, LinkedLasts, Numbers DEF InstanceInv, LinkedAt
  <1>9. DurableAt(i)'
    BY <1>e DEF DurableAt
  <1> QED
    BY <1>0, <1>2, <1>3, <1>4, <1>5, <1>6, <1>7, <1>8, <1>9, OneMoves DEF InstanceInv

-----------------------------------------------------------------------------
(* One lemma per action                                                    *)

\* What every proof below starts from.
LEMMA Start ==
    ASSUME FileInv, NEW i \in Instances
    PROVE  /\ FileTypes /\ TellTypes /\ RestTypes /\ Disk /\ DiskPart /\ InstanceInv(i) /\ Typed(i)
           /\ dir \in Dirs /\ dir \in Directories /\ fs.count \in Nat
           /\ pc[i] # "closed" => lock = i
           /\ pc[i] \notin Shut => f[i].fd \in Inodes /\ f[i].fd <= fs.count
           /\ f[i] \in Files /\ op[i] \in Operations /\ next \in Nat
           /\ rotation.mode \in Modes /\ rotation.max_file_size \in Nat
  <1>1. FileTypes /\ TellTypes /\ RestTypes /\ Disk /\ DiskPart /\ InstanceInv(i)
    BY TypesAre DEF FileInv, RestTypes
  <1>2. Typed(i) /\ dir \in Dirs /\ dir \in Directories /\ fs.count \in Nat
    BY <1>1, TypedIs, DirFacts, DiskFields
  <1>3. pc[i] # "closed" => lock = i
    BY DEF FileInv, LockInv
  <1>4. pc[i] \notin Shut => f[i].fd \in Inodes /\ f[i].fd <= fs.count
    BY <1>1, <1>2 DEF InstanceInv, OpenAt, Typed
  <1>5. f[i] \in Files /\ op[i] \in Operations /\ next \in Nat
    BY <1>1 DEF TellTypes, RestTypes
  <1>6. rotation.mode \in Modes /\ rotation.max_file_size \in Nat
    BY <1>1, RotationsAssumption DEF RestTypes
  <1> QED
    BY <1>1, <1>2, <1>3, <1>4, <1>5, <1>6

\* Nothing the invariant speaks of changes.
LEMMA SameKeeps ==
    ASSUME FileInv, FileTypes',
           UNCHANGED <<fs, lock, f, pc, op, first_error, accepted, confirmed, expired, mine,
                       rotation, next>>
    PROVE  FileInv'
  <1>1. LockInv'
    BY DEF FileInv, LockInv
  <1>2. DiskPart'
    BY
    DEF FileInv, DiskPart, DirInv, FreshInv, DiskInv, LimitInv, Limited, ConfirmedInv,
        Durable,
           Found, Dirs
  <1>3. ASSUME NEW i \in Instances PROVE InstanceInv(i)'
    <2> USE DEF FileInv, InstanceInv, Before, After, Choosing
    <2>1. OpenAt(i)' /\ CallAt(i)' /\ SizeAt(i)' /\ ActiveAt(i)'
      BY DEF OpenAt, CallAt, SizeAt, Limited, ActiveAt, dir
    <2>2. OrderAt(i)' /\ LinkedAt(i)' /\ DurableAt(i)'
      BY DEF OrderAt, LinkedAt, Linked, DurableAt, Durable, Found, Waiting, Precedes, Dirs, dir
    <2> QED
      BY <2>1, <2>2
  <1> QED
    BY <1>1, <1>2, <1>3 DEF FileInv

\* The clock is set.
LEMMA TickKeeps ==
    ASSUME FileInv, Tick
    PROVE  FileInv'
  <1>1. FileTypes'
    BY DEF FileInv, FileTypes, Tick, told, calls
  <1> QED
    BY <1>1, SameKeeps DEF Tick, told, calls

\* The lock file is reserved.
LEMMA ReserveKeeps ==
    ASSUME FileInv, NEW i \in Instances, Reserve(i)
    PROVE  FileInv'
  <1>1. FileTypes /\ InstanceInv(i) /\ lock = None /\ pc[i] = "closed" /\ Closed(i)
    BY Start, ClosedIs, NoneAssumption DEF Reserve, At
  <1>2. FileTypes'
    BY <1>1 DEF FileTypes, Reserve, Go, told, world, calls, Steps
  <1>3. /\ pc'[i] = "open" /\ Others(i) /\ lock' = i
        /\ UNCHANGED <<fs, f, op, first_error, accepted, confirmed, expired, mine, rotation, next>>
    BY <1>1 DEF FileTypes, Reserve, Go, told, world, calls, Others
  <1>4. DiskPart'
    BY <1>3
    DEF FileInv, DiskPart, DirInv, FreshInv, DiskInv, LimitInv, Limited, ConfirmedInv,
        Durable,
           Found, Dirs
  <1>5. InstanceInv(i)'
    <2> USE <1>1, <1>3 DEF Closed, Empty, Idle, Shut, Before, After, Choosing
    <2>1. OpenAt(i)' /\ CallAt(i)' /\ SizeAt(i)'
      BY DEF OpenAt, CallAt, SizeAt
    <2>2. ActiveAt(i)' /\ OrderAt(i)' /\ LinkedAt(i)' /\ DurableAt(i)'
      BY DEF ActiveAt, OrderAt, LinkedAt, DurableAt
    <2> QED
      BY <2>1, <2>2 DEF InstanceInv
  <1> QED
    BY <1>1, <1>2, <1>3, <1>4, <1>5, OneMoves

\* The disk is untouched, and so is what was confirmed.
LEMMA CalmIs ==
    ASSUME FileInv, FileTypes', UNCHANGED <<fs, rotation, next, confirmed, expired>>
    PROVE  Calm /\ DiskPart' /\ Lasting /\ SameDirs
  <1>1. next \in Nat
    BY DEF FileInv, FileTypes
  <1>2. Calm /\ Lasting /\ SameDirs
    BY <1>1 DEF Calm, Lasting, SameDirs, SameFiles, Dirs, dir
  <1> QED
    BY <1>2, CalmDisk

\* The lock file is closed, or the process dies: i is closed.
LEMMA CloseLockKeeps ==
    ASSUME FileInv, NEW i \in Instances, CloseLock(i) \/ Kill(i)
    PROVE  FileInv'
  <1>1. FileTypes /\ InstanceInv(i) /\ pc[i] # "closed" /\ lock = i
    BY Start DEF CloseLock, Kill, At
  <1>2. op' \in [Instances -> Operations] /\ f' \in [Instances -> Files]
    BY <1>1, IdleType DEF FileTypes, CloseLock, Kill
  <1>a. /\ accepted' \in [Instances -> SUBSET Writes] /\ mine' \in [Instances -> SUBSET Stamps]
        /\ first_error' \in [Instances -> BOOLEAN] /\ pc' \in [Instances -> Steps]
    BY <1>1 DEF FileTypes, CloseLock, Kill, Go, Steps
  <1>b. crashes' \in 0..MaxCrashes /\ lock' \in Instances \cup {None} /\ fs' = fs
    BY <1>1, BoundsAssumption DEF FileTypes, CloseLock, Kill, world
  <1>3. FileTypes'
    BY <1>1, <1>2, <1>a, <1>b DEF FileTypes, CloseLock, Kill, world, calls
  <1>4. Closed(i)' /\ Others(i)
    BY <1>1
    DEF FileTypes, InstanceInv, CallAt, CloseLock, Kill, At, Go, world, calls, Others, Closed, Shut
  <1>5. DiskPart'
    BY <1>3, CalmIs DEF CloseLock, Kill, world, calls
  <1> QED
    BY <1>1, <1>3, <1>4, <1>5, ClosedHolds, OneMoves DEF Closed

\* The data descriptor is closed.
LEMMA CloseKeeps ==
    ASSUME FileInv, NEW i \in Instances, Close(i)
    PROVE  FileInv'
  <1>1. FileTypes /\ RestTypes /\ InstanceInv(i) /\ pc[i] = "ready" /\ lock = i /\ f[i] \in Files
    BY Start DEF Close, At
  <1>2. f' \in [Instances -> Files]
    BY <1>1 DEF RestTypes, Files, Close
  <1>3. FileTypes'
    BY <1>1, <1>2, BoundsAssumption DEF FileTypes, Close, Go, told, world, Steps
  <1>4. /\ pc'[i] = "close_lock" /\ f'[i].fd = None /\ Others(i) /\ lock' = lock
        /\ f'[i].archive_time = f[i].archive_time
        /\ UNCHANGED <<fs, op, first_error, accepted, confirmed, expired, mine, rotation, next>>
    BY <1>1 DEF FileTypes, Files, Close, Go, told, world, Others
  <1>5. DiskPart' /\ SameDirs
    BY <1>3, <1>4, CalmIs
  <1>6. InstanceInv(i)'
    <2> USE <1>1, <1>4 DEF Shut, Before, After, Choosing, InstanceInv
    <2>1. OpenAt(i)' /\ CallAt(i)'
      BY DEF OpenAt, CallAt, Idle
    <2>2. SizeAt(i)' /\ ActiveAt(i)' /\ LinkedAt(i)' /\ DurableAt(i)'
      BY DEF SizeAt, ActiveAt, LinkedAt, DurableAt
    <2>3. OrderAt(i)'
      BY <1>5 DEF OrderAt, Precedes, SameDirs
    <2> QED
      BY <2>1, <2>2, <2>3
  <1> QED
    BY <1>1, <1>3, <1>4, <1>5, <1>6, OneMoves

\* A flush begins.
LEMMA FlushKeeps ==
    ASSUME FileInv, NEW i \in Instances, Flush(i)
    PROVE  FileInv'
  <1>1. FileTypes /\ RestTypes /\ InstanceInv(i) /\ pc[i] = "ready" /\ lock = i
    BY Start DEF Flush, At
  <1> DEFINE o == [Idle EXCEPT !.kind = "flush"]
  <1>2. o \in Operations /\ o.kind = "flush" /\ o.stamp = 0
    BY IdleType DEF Operations, Idle
  <1>3. Go(i, "sync") /\ op' = [op EXCEPT ![i] = o] /\ UNCHANGED told /\ "sync" \in Steps
    BY DEF Flush, Steps
  <1> HIDE DEF o
  <1>4. /\ pc'[i] = "sync" /\ op'[i].kind = "flush" /\ op'[i].stamp = 0 /\ Told(i) /\ TellTypes'
        /\ UNCHANGED <<first_error, accepted, confirmed, expired, fs, lock, f, mine, rotation, next>>
    BY <1>1, <1>2, <1>3, GoIs DEF Flush, world
  <1>5. FileTypes'
    BY <1>1, <1>4, TypesAre, BoundsAssumption DEF RestTypes, Disk, Flush, world
  <1>6. DiskPart' /\ SameDirs /\ Lasting
    BY <1>4, <1>5, CalmIs
  <1>7. InstanceInv(i)'
    <2> USE <1>1, <1>4, <1>6 DEF Shut, Before, After, Choosing, InstanceInv
    <2>1. OpenAt(i)' /\ CallAt(i)' /\ SizeAt(i)'
      BY DEF OpenAt, CallAt, SizeAt
    <2>2. ActiveAt(i)' /\ OrderAt(i)' /\ LinkedAt(i)'
      BY DEF ActiveAt, OrderAt, LinkedAt, Precedes, SameDirs
    <2>3. DurableAt(i)'
      BY DEF DurableAt, Durable, Found, Waiting, SameDirs, Settled
    <2> QED
      BY <2>1, <2>2, <2>3
  <1> QED
    BY <1>1, <1>4, <1>5, <1>6, <1>7, OneMoves DEF Others, Told

\* A write begins: it fits, or asks for a rotation; a detached file refuses it.
LEMMA WriteKeeps ==
    ASSUME FileInv, NEW i \in Instances, Write(i)
    PROVE  FileInv'
  <1>1. /\ FileTypes /\ RestTypes /\ Disk /\ InstanceInv(i) /\ DiskPart /\ Typed(i) /\ lock = i
        /\ pc[i] = "ready" /\ f[i].fd \in Inodes /\ next \in Nat
        /\ rotation.mode \in Modes /\ rotation.max_file_size \in Nat
    BY Start DEF Write, At, Shut
  <1>2. /\ next' = next + 1 /\ next <= MaxWrites
        /\ UNCHANGED <<fs, lock, f, mine, world, controls, faults>>
    BY DEF Write
  <1>3. RestTypes'
    BY <1>1, <1>2, BoundsAssumption DEF RestTypes, Disk, world
  <1>4. Calm /\ SameDirs /\ Lasting
    BY <1>1, <1>2 DEF Calm, Lasting, SameFiles, SameDirs, Dirs, dir, world
  <1>5. CASE f[i].detached
    <2>1. ReturnError(i)
      BY <1>5 DEF Write
    <2>2. Failed(i) /\ Told(i) /\ TellTypes'
      BY <1>1, <2>1, ErrorIs
    <2>3. FileTypes' /\ Others(i) /\ SameFile(i)
      BY <1>2, <1>3, <2>2, TypesAre DEF Others, Told, SameFile
    <2> QED
      BY <1>1, <1>2, <1>4, <2>2, <2>3, FailKeeps DEF Shut
  <1>6. CASE ~f[i].detached
    <2>1. PICK n \in Sizes, sync \in BOOLEAN, day \in DayOf(0)..DayOf(clock) :
            /\ Go(i, IF NeedsRotation(i, n, day) THEN "check" ELSE "append")
            /\ op' = [op EXCEPT ![i] = [Idle EXCEPT !.kind = "write", !.write = next,
                                                    !.size = n, !.sync = sync]]
            /\ UNCHANGED told
      BY <1>6 DEF Write
    <2> DEFINE o == [Idle EXCEPT !.kind = "write", !.write = next, !.size = n, !.sync = sync]
               s == IF NeedsRotation(i, n, day) THEN "check" ELSE "append"
    <2>2. n \in Nat \ {0} /\ next \in Writes
      BY <1>1, <1>2, <1>3, BoundsAssumption DEF RestTypes, Writes
    <2>3. o \in Operations /\ o.kind = "write" /\ o.write = next /\ o.size = n /\ o.stamp = 0
      <3>1. sync \in BOOLEAN
        OBVIOUS
      <3>2. next \in 0..MaxWrites /\ n \in Nat
        BY <2>2 DEF Writes
      <3>3. o \in Operations
        BY <3>1, <3>2, IdleType DEF Operations
      <3>4. o.kind = "write" /\ o.write = next /\ o.size = n /\ o.stamp = 0
        BY DEF Idle
      <3> QED
        BY <3>3, <3>4
    <2>4. /\ s \in {"check", "append"} /\ s \in Steps
          /\ s = "check" => rotation.mode \notin {"NONE", "EXTERNAL"}
          /\ s = "append" /\ Limited =>
               f[i].current_size = 0 \/ f[i].current_size + n <= rotation.max_file_size
      BY <1>1, <2>2 DEF Steps, NeedsRotation, Limited, Typed
    <2> HIDE DEF o, s
    <2>5. /\ pc'[i] = s /\ op'[i] = o /\ Told(i) /\ TellTypes'
          /\ UNCHANGED <<first_error, accepted, confirmed, expired>>
      BY <1>1, <2>1, <2>3, <2>4, GoIs DEF o, s
    <2>6. FileTypes' /\ Others(i) /\ rotation' = rotation
      BY <1>2, <1>3, <2>5, TypesAre DEF Others, Told, world
    <2>7. DiskPart'
      BY <1>4, <2>5, <2>6, CalmDisk
    <2>8. InstanceInv(i)'
      <3> USE <1>1, <1>2, <2>3, <2>4, <2>5, <2>6 DEF Shut, Before, After, Choosing, InstanceInv
      <3>1. OpenAt(i)'
        BY DEF OpenAt
      <3>2. CallAt(i)'
        BY <1>6, <2>2 DEF CallAt
      <3>3. SizeAt(i)'
        BY DEF SizeAt, Limited
      <3>4. ActiveAt(i)' /\ LinkedAt(i)'
        BY <1>4 DEF ActiveAt, LinkedAt, SameDirs
      <3>5. OrderAt(i)'
        BY <1>4 DEF OrderAt, Precedes, SameDirs, DiskPart, DiskInv
      <3>6. DurableAt(i)'
        BY <1>4 DEF DurableAt, Durable, Found, Waiting, SameDirs, Settled
      <3> QED
        BY <3>1, <3>2, <3>3, <3>4, <3>5, <3>6
    <2> QED
      BY <1>1, <1>2, <2>6, <2>7, <2>8, OneMoves
  <1> QED
    BY <1>5, <1>6

\* A rotation begins: the active file is the open one, and the stamp is new.
LEMMA CheckActiveKeeps ==
    ASSUME FileInv, NEW i \in Instances, CheckActive(i)
    PROVE  FileInv'
  <1>1. /\ FileTypes /\ RestTypes /\ Disk /\ InstanceInv(i) /\ DiskPart /\ Typed(i) /\ lock = i
        /\ pc[i] = "check" /\ f[i].fd \in Inodes /\ next \in Nat /\ op[i] \in Operations
    BY Start DEF CheckActive, At, Shut
  <1>2. UNCHANGED <<fs, lock, f, mine, rotation, clock, crashes, next, controls, faults>>
    BY DEF CheckActive, world, calls
  <1>3. RestTypes'
    BY <1>1, <1>2 DEF RestTypes, Disk
  <1>4. Calm /\ SameDirs /\ Lasting
    BY <1>1, <1>2 DEF Calm, Lasting, SameFiles, SameDirs, Dirs, dir
  <1>5. CASE ReturnError(i)
    <2>2. Failed(i) /\ Told(i) /\ TellTypes'
      BY <1>1, <1>5, ErrorIs
    <2>3. FileTypes' /\ Others(i) /\ SameFile(i)
      BY <1>2, <1>3, <2>2, TypesAre DEF Others, Told, SameFile
    <2> QED
      BY <1>1, <1>2, <1>4, <2>2, <2>3, FailKeeps DEF Shut
  <1>6. CASE /\ Stamp(i) \in Stamps /\ Go(i, "sync")
             /\ op' = [op EXCEPT ![i].stamp = Stamp(i)] /\ UNCHANGED told
    <2> DEFINE o == [op[i] EXCEPT !.stamp = Stamp(i)]
    <2>1. Stamp(i) > f[i].archive_time
      BY <1>1 DEF Stamp, Typed, RestTypes
    <2>2. /\ o \in Operations /\ o.kind = op[i].kind /\ o.write = op[i].write /\ o.size = op[i].size
          /\ o.stamp = Stamp(i) /\ o.candidate = op[i].candidate
      BY <1>1, <1>6 DEF Operations, Stamps
    <2>3. op' = [op EXCEPT ![i] = o] /\ "sync" \in Steps
      BY <1>1, <1>6 DEF FileTypes, Steps
    <2> HIDE DEF o
    <2>5. /\ pc'[i] = "sync" /\ op'[i] = o /\ Told(i) /\ TellTypes'
          /\ UNCHANGED <<first_error, accepted, confirmed, expired>>
      BY <1>1, <1>6, <2>2, <2>3, GoIs
    <2>6. FileTypes' /\ Others(i)
      BY <1>2, <1>3, <2>5, TypesAre DEF Others, Told
    <2>7. DiskPart'
      BY <1>4, <2>5, <2>6, CalmDisk
    <2>8. InstanceInv(i)'
      <3> USE <1>1, <1>2, <2>1, <2>2, <2>5, Numbers
        DEF Shut, Before, After, Choosing, InstanceInv
      <3>1. OpenAt(i)'
        BY DEF OpenAt
      <3>2. CallAt(i)'
        BY <1>6 DEF CallAt
      <3>3. SizeAt(i)'
        BY DEF SizeAt, CallAt
      <3>4. ActiveAt(i)' /\ LinkedAt(i)'
        BY <1>4 DEF ActiveAt, LinkedAt, SameDirs, CallAt
      <3>5. OrderAt(i)'
        BY <1>4 DEF OrderAt, Precedes, SameDirs
      <3>6. DurableAt(i)'
        BY <1>4, <1>6 DEF DurableAt, Durable, Found, Waiting, SameDirs, Settled
      <3> QED
        BY <3>1, <3>2, <3>3, <3>4, <3>5, <3>6
    <2> QED
      BY <1>1, <1>2, <2>6, <2>7, <2>8, OneMoves
  <1> QED
    BY <1>5, <1>6 DEF CheckActive

\* A successful sync of file k loses nothing, and the disk is in order.
LEMMA SyncedDisk ==
    ASSUME FileInv, NEW k \in Inodes, fs' = Synced(k), rotation' = rotation, next' = next
    PROVE  DirInv' /\ FreshInv' /\ DiskInv' /\ LimitInv' /\ Lasting
  <1>0. Disk /\ DiskPart
    BY DEF FileInv, FileTypes, Disk
  <1>1. /\ SameDirs /\ fs'.count = fs.count /\ fs'.content = fs.content /\ fs'.doomed = fs.doomed
        /\ fs'.size = fs.size /\ fs'.appends = fs.appends
        /\ fs'.synced = [fs.synced EXCEPT ![k] = fs.content[k] \ fs.doomed[k]]
    BY <1>0, SyncedIs
  <1>2. DirInv' /\ FreshInv' /\ LimitInv'
    BY <1>0, <1>1 DEF DiskPart, DirInv, FreshInv, LimitInv, Limited, SameDirs
  <1>3. DiskInv' /\ \A j \in Inodes : fs.synced[j] \subseteq fs'.synced[j]
    BY <1>0, <1>1, DiskFields DEF DiskPart, DiskInv
  <1> QED
    BY <1>1, <1>2, <1>3 DEF Lasting

\* What a write of i, now on disk under a name in every directory, shows.
LEMMA WaitingIsDurable ==
    ASSUME Disk', NEW k \in Inodes, \A D \in Dirs' : Linked(D, k), NEW r \in fs'.synced[k]
    PROVE  Durable(r)'
  BY Numbers DEF Durable, Found, Linked

\* i has synced its file and, if it was dirty, the directory: everything that
\* waited is durable.
Clean(i) ==
    /\ pc[i] \in {"sync", "sync_dir"} /\ dir' = dir /\ Lasting
    /\ fs'.content = fs.content /\ fs'.doomed = fs.doomed /\ fs'.size = fs.size
    /\ fs'.appends = fs.appends /\ fs'.count = fs.count
    /\ DirInv' /\ FreshInv' /\ DiskInv' /\ LimitInv'
    /\ \A D \in Dirs' : Linked(D, f[i].fd)
    /\ op[i].kind = "reopen" => \A D \in Dirs' : Linked(D, op[i].candidate)
    /\ Waiting(i) \subseteq fs'.synced[f[i].fd]
    /\ f'[i].fd = f[i].fd /\ f'[i].current_size = f[i].current_size
    /\ f'[i].detached = f[i].detached /\ f'[i].archive_time = f[i].archive_time
    /\ \A j \in Instances \ {i} : f'[j] = f[j]
    /\ UNCHANGED <<lock, mine, rotation, next>>

\* Then whatever follows the sync keeps the invariant: what a flush or a
\* confirmed write answers for is durable, and so is what a rotation archives.
LEMMA AfterSyncKeeps ==
    ASSUME FileInv, NEW i \in Instances, RestTypes', Clean(i), AfterSync(i)
    PROVE  FileInv'
  <1>1. /\ FileTypes /\ RestTypes /\ Disk /\ InstanceInv(i) /\ DiskPart /\ Typed(i) /\ lock = i
        /\ f[i].fd \in Inodes /\ f[i].fd <= fs.count /\ op[i] \in Operations
        /\ pc[i] \in {"sync", "sync_dir"} /\ "rename" \in Steps /\ "install" \in Steps
        /\ op[i].kind = "write" => op[i].write \in Writes
    BY Start DEF Clean, Shut, InstanceInv, CallAt, Steps
  <1>2. Disk'
    BY DEF RestTypes
  <1>3. \A r \in Waiting(i) : Durable(r)'
    BY <1>1, <1>2, WaitingIsDurable DEF Clean
  <1>4. ~first_error[i] => \A r \in accepted[i] \ expired : Durable(r)'
    <2>1. ~first_error[i] =>
            \A r \in accepted[i] \ expired : Durable(r) \/ r \in Waiting(i)
      BY <1>1, Numbers DEF InstanceInv, DurableAt
    <2> QED
      BY <1>1, <1>3, <2>1, DurableLasts DEF Clean
  <1>5. \A r : op[i].kind = "write" /\ op[i].stamp = 0 /\ r = op[i].write => Durable(r)'
    <2>1. op[i].kind = "write" /\ op[i].stamp = 0 => op[i].write \in Waiting(i)
      BY <1>1, Numbers DEF InstanceInv, DurableAt
    <2> QED
      BY <1>3, <2>1
  <1>6. \A r \in confirmed \ expired : Durable(r)'
    BY <1>1, DurableLasts DEF DiskPart, ConfirmedInv, Clean
  <1>7. ASSUME NEW s \in {"rename", "install"}, Go(i, s), UNCHANGED <<op, told>>,
               s = "rename" => op[i].stamp # 0, s = "install" => op[i].stamp = 0 /\ op[i].kind = "reopen"
        PROVE  FileInv'
    <2>1. op' = [op EXCEPT ![i] = op[i]] /\ s \in Steps
      BY <1>1, <1>7 DEF FileTypes
    <2>2. /\ pc'[i] = s /\ op'[i] = op[i] /\ Told(i) /\ TellTypes'
          /\ UNCHANGED <<first_error, accepted, confirmed, expired>>
      BY <1>1, <1>7, <2>1, GoIs
    <2>3. FileTypes' /\ Others(i) /\ lock' = lock
      BY <2>2, TypesAre DEF Others, Told, Clean
    <2>4. DiskPart'
      BY <1>6, <2>2 DEF DiskPart, ConfirmedInv, Clean
    <2>5. InstanceInv(i)'
      <3> USE <1>1, <1>7, <2>2, Numbers DEF Clean, Shut, Before, After, Choosing, InstanceInv
      <3>1. OpenAt(i)'
        BY DEF OpenAt
      <3>2. CallAt(i)'
        BY DEF CallAt
      <3>3. SizeAt(i)'
        BY DEF SizeAt
      <3>4. ActiveAt(i)' /\ LinkedAt(i)'
        BY DEF ActiveAt, LinkedAt
      <3>5. OrderAt(i)'
        BY DEF OrderAt, Precedes
      <3>6. DurableAt(i)'
        BY <1>4 DEF DurableAt
      <3> QED
        BY <3>1, <3>2, <3>3, <3>4, <3>5, <3>6
    <2> QED
      BY <1>1, <2>3, <2>4, <2>5, OneMoves
  <1>8. ASSUME /\ pc'[i] = "ready" /\ op'[i] = Idle /\ Told(i) /\ TellTypes'
               /\ \A r \in confirmed' \ expired' : Durable(r)'
               /\ ~first_error'[i] => \A r \in accepted'[i] \ expired' : Durable(r)'
        PROVE  FileInv'
    <2>1. FileTypes' /\ Others(i) /\ lock' = lock
      BY <1>8, TypesAre DEF Others, Told, Clean
    <2>2. DiskPart'
      BY <1>8 DEF DiskPart, ConfirmedInv, Clean
    <2>3. InstanceInv(i)'
      <3> USE <1>1, <1>8, Numbers DEF Clean, Shut, Before, After, Choosing, Idle, InstanceInv
      <3>1. OpenAt(i)'
        BY DEF OpenAt
      <3>2. CallAt(i)'
        BY DEF CallAt
      <3>3. SizeAt(i)'
        BY DEF SizeAt
      <3>4. ActiveAt(i)' /\ LinkedAt(i)'
        BY DEF ActiveAt, LinkedAt
      <3>5. OrderAt(i)'
        BY DEF OrderAt, Precedes
      <3>6. DurableAt(i)'
        BY DEF DurableAt
      <3> QED
        BY <3>1, <3>2, <3>3, <3>4, <3>5, <3>6
    <2> QED
      BY <1>1, <2>1, <2>2, <2>3, OneMoves
  <1>9. CASE op[i].stamp # 0
    <2>1. Go(i, "rename") /\ UNCHANGED <<op, told>>
      BY <1>1, <1>9 DEF AfterSync, InstanceInv, CallAt, Before
    <2> QED
      BY <1>7, <1>9, <2>1
  <1>10. CASE op[i].stamp = 0 /\ op[i].kind = "reopen"
    <2>1. Go(i, "install") /\ UNCHANGED <<op, told>>
      BY <1>10 DEF AfterSync
    <2> QED
      BY <1>7, <1>10, <2>1
  <1>11. CASE op[i].stamp = 0 /\ op[i].kind # "reopen"
    <2>1. CASE ReturnError(i)
      <3>1. Failed(i) /\ Told(i) /\ TellTypes'
        BY <1>1, <2>1, ErrorIs
      <3>2. confirmed' = confirmed /\ expired' = expired
        BY <3>1 DEF Failed
      <3>3. pc'[i] = "ready" /\ op'[i] = Idle /\ first_error'[i]
        BY <3>1 DEF Failed
      <3> QED
        BY <1>6, <1>8, <3>1, <3>2, <3>3
    <2>2. CASE ReturnOk(i)
      <3>1. Succeeded(i) /\ Told(i) /\ TellTypes'
        BY <1>1, <2>2, OkIs
      <3>2. \A r \in confirmed' \ expired' : Durable(r)'
        BY <1>4, <1>5, <1>6, <1>11, <3>1 DEF Succeeded
      <3>3. ~first_error'[i] => \A r \in accepted'[i] \ expired' : Durable(r)'
        BY <1>4, <1>5, <1>11, <3>1 DEF Succeeded
      <3> QED
        BY <1>8, <3>1, <3>2, <3>3 DEF Succeeded
    <2> QED
      BY <1>11, <2>1, <2>2 DEF AfterSync
  <1> QED
    BY <1>9, <1>10, <1>11

\* The sync of the data.
LEMMA SyncDataKeeps ==
    ASSUME FileInv, NEW i \in Instances, SyncData(i)
    PROVE  FileInv'
  <1>1. /\ FileTypes /\ RestTypes /\ Disk /\ InstanceInv(i) /\ DiskPart /\ Typed(i) /\ lock = i
        /\ pc[i] = "sync" /\ f[i].fd \in Inodes /\ f[i].fd <= fs.count /\ next \in Nat
    BY Start DEF SyncData, At, Shut
  <1>2. UNCHANGED <<lock, f, mine, rotation, clock, crashes, next, controls>>
    BY DEF SyncData, world, calls
  <1>3. Disk' => RestTypes'
    BY <1>1, <1>2, FaultType DEF RestTypes, SyncData
  <1>4. CASE fs' = SyncLost(f[i].fd) /\ ReturnError(i)
    <2>1. Disk' /\ Failed(i) /\ Told(i) /\ TellTypes'
      BY <1>1, <1>4, SyncLostIs, ErrorIs
    <2>2. Lost(i)
      BY <1>1, <1>2, <1>4, <2>1, SyncLostIs DEF Lost, Failed
    <2>3. FileTypes' /\ Others(i) /\ SameFile(i)
      BY <1>2, <1>3, <2>1, TypesAre DEF Others, Told, SameFile
    <2> QED
      BY <1>1, <1>2, <2>1, <2>2, <2>3, FailKeeps DEF Shut
  <1>5. CASE /\ fs' = Synced(f[i].fd)
             /\ IF f[i].dir_dirty THEN Go(i, "sync_dir") /\ UNCHANGED <<op, told>>
                                  ELSE AfterSync(i)
    <2>1. /\ Disk' /\ SameDirs /\ fs'.count = fs.count
          /\ fs'.content = fs.content /\ fs'.doomed = fs.doomed
          /\ fs'.size = fs.size /\ fs'.appends = fs.appends
          /\ fs'.synced = [fs.synced EXCEPT ![f[i].fd] = fs.content[f[i].fd] \ fs.doomed[f[i].fd]]
      BY <1>1, <1>5, SyncedIs
    <2>2. DirInv' /\ FreshInv' /\ DiskInv' /\ LimitInv' /\ Lasting
      BY <1>1, <1>2, <1>5, SyncedDisk
    <2>3. Waiting(i) \subseteq fs'.synced[f[i].fd]
      BY <1>1, <2>1, DiskFields DEF Waiting
    <2>4. CASE ~f[i].dir_dirty /\ AfterSync(i)
      <3>1. Clean(i)
        BY <1>1, <1>2, <2>1, <2>2, <2>3, <2>4, Numbers
        DEF Clean, SameDirs, InstanceInv, LinkedAt, CallAt
      <3> QED
        BY <1>3, <2>1, <2>4, <3>1, AfterSyncKeeps
    <2>5. CASE Go(i, "sync_dir") /\ UNCHANGED <<op, told>>
      <3>1. op' = [op EXCEPT ![i] = op[i]] /\ "sync_dir" \in Steps /\ op[i] \in Operations
        BY <1>1, <2>5 DEF FileTypes, Steps
      <3>2. /\ pc'[i] = "sync_dir" /\ op'[i] = op[i] /\ Told(i) /\ TellTypes'
            /\ UNCHANGED <<first_error, accepted, confirmed, expired>>
        BY <1>1, <2>5, <3>1, GoIs
      <3>3. FileTypes' /\ Others(i) /\ lock' = lock
        BY <1>2, <1>3, <2>1, <3>2, TypesAre DEF Others, Told
      <3>4. DiskPart'
        BY <1>1, <2>2, <3>2, DurableLasts DEF DiskPart, ConfirmedInv
      <3>5. InstanceInv(i)'
        <4> USE <1>1, <1>2, <2>1, <2>2, <3>2, Numbers
          DEF SameDirs, Shut, Before, After, Choosing, InstanceInv
        <4>1. OpenAt(i)'
          BY DEF OpenAt
        <4>2. CallAt(i)'
          BY DEF CallAt
        <4>3. SizeAt(i)'
          BY DEF SizeAt
        <4>4. ActiveAt(i)' /\ LinkedAt(i)'
          BY DEF ActiveAt, LinkedAt
        <4>5. OrderAt(i)'
          BY DEF OrderAt, Precedes
        <4>6. DurableAt(i)'
          BY <2>3, DurableLasts DEF DurableAt, Waiting, Settled
        <4> QED
          BY <4>1, <4>2, <4>3, <4>4, <4>5, <4>6
      <3> QED
        BY <1>1, <3>3, <3>4, <3>5, OneMoves
    <2> QED
      BY <1>5, <2>4, <2>5
  <1> QED
    BY <1>4, <1>5 DEF SyncData

\* The sync of the directory that follows it.
LEMMA SyncDirectoryKeeps ==
    ASSUME FileInv, NEW i \in Instances, SyncDirectory(i)
    PROVE  FileInv'
  <1>1. /\ FileTypes /\ RestTypes /\ Disk /\ InstanceInv(i) /\ DiskPart /\ Typed(i) /\ lock = i
        /\ pc[i] = "sync_dir" /\ f[i].fd \in Inodes /\ f[i].fd <= fs.count /\ next \in Nat
        /\ f[i] \in Files /\ op[i] \in Operations
    BY Start DEF SyncDirectory, At, Shut
  <1>2. UNCHANGED <<lock, mine, rotation, clock, crashes, next, controls>>
    BY DEF SyncDirectory, world, calls
  <1>3. Disk' /\ f' \in [Instances -> Files] => RestTypes'
    BY <1>1, <1>2, FaultType DEF RestTypes, SyncDirectory
  <1>4. CASE ReturnError(i) /\ UNCHANGED <<fs, f>>
    <2>1. Failed(i) /\ Told(i) /\ TellTypes'
      BY <1>1, <1>4, ErrorIs
    <2>2. Calm
      BY <1>1, <1>2, <1>4 DEF Calm, SameFiles, SameDirs, Dirs, dir
    <2>3. FileTypes' /\ Others(i) /\ SameFile(i)
      BY <1>1, <1>2, <1>3, <1>4, <2>1, TypesAre DEF Others, Told, SameFile, RestTypes, Disk
    <2> QED
      BY <1>1, <1>2, <2>1, <2>2, <2>3, FailKeeps DEF Shut
  <1>5. CASE fs' = DirSynced /\ f' = [f EXCEPT ![i].dir_dirty = FALSE] /\ AfterSync(i)
    <2>1. Disk' /\ DirsOnDisk /\ SameFiles /\ fs'.count = fs.count
      BY <1>1, <1>5, DirSyncedIs
    <2>2. /\ f' \in [Instances -> Files] /\ \A j \in Instances \ {i} : f'[j] = f[j]
          /\ f'[i].fd = f[i].fd /\ f'[i].current_size = f[i].current_size
          /\ f'[i].detached = f[i].detached /\ f'[i].archive_time = f[i].archive_time
      BY <1>1, <1>5 DEF RestTypes, Files
    <2>3. Calm
      BY <1>1, <1>2, <2>1 DEF Calm
    <2>4. DirInv' /\ FreshInv' /\ DiskInv' /\ LimitInv' /\ Lasting
      BY <1>1, <1>2, <2>3, CalmParts
    <2>5. Clean(i)
      BY <1>1, <1>2, <2>1, <2>2, <2>4, LinkedLasts, Numbers
      DEF Clean, SameFiles, DirsOnDisk, InstanceInv, LinkedAt, DurableAt, Choosing
    <2> QED
      BY <1>3, <1>5, <2>1, <2>2, <2>5, AfterSyncKeeps
  <1> QED
    BY <1>4, <1>5 DEF SyncDirectory

\* A rotation goes on with the files as they are.
Moves ==
    {<<"archived", "open_new">>, <<"sync_new_dir", "install">>, <<"retention", "retention_dir">>,
     <<"retention", "append">>, <<"retention_dir", "append">>}

\* Such a move, with the file and the disk as they were, keeps the invariant.
LEMMA CalmMoves ==
    ASSUME FileInv, NEW i \in Instances, FileTypes', Others(i), lock' = lock, Calm, SameFile(i),
           <<pc[i], pc'[i]>> \in Moves, pc'[i] = "install" => DirsOnDisk, next' = next,
           op'[i].kind = op[i].kind, op'[i].write = op[i].write, op'[i].size = op[i].size,
           op'[i].stamp = op[i].stamp, op'[i].candidate = op[i].candidate,
           UNCHANGED <<first_error, accepted, confirmed, expired>>
    PROVE  FileInv'
  <1>1. /\ FileTypes /\ Disk /\ InstanceInv(i) /\ DiskPart /\ Typed(i) /\ next \in Nat
    BY Start
  <1>2. \/ pc[i] = "archived" /\ pc'[i] = "open_new"
        \/ pc[i] = "sync_new_dir" /\ pc'[i] = "install"
        \/ pc[i] = "retention" /\ pc'[i] = "retention_dir"
        \/ pc[i] \in {"retention", "retention_dir"} /\ pc'[i] = "append"
    BY DEF Moves
  <1>3. f[i].fd \in Inodes /\ f[i].fd <= fs.count /\ lock = i
    BY <1>2, Start DEF Shut
  <1>4. Lasting /\ DiskPart'
    BY <1>1, CalmParts, CalmDisk
  <1>5. dir' = dir
    BY DEF Calm, SameDirs, DirsOnDisk
  <1>6. InstanceInv(i)'
    <2> USE <1>1, <1>2, <1>3, <1>5, Numbers
        DEF SameFile, Calm, SameFiles, Shut, Before, After, Choosing, InstanceInv
    <2>1. OpenAt(i)'
      BY DEF OpenAt
    <2>2. CallAt(i)'
      BY DEF CallAt
    <2>3. SizeAt(i)'
      BY DEF SizeAt, Limited
    <2>4. ActiveAt(i)'
      BY DEF ActiveAt
    <2>5. OrderAt(i)'
      BY DEF OrderAt, Precedes
    <2>6. LinkedAt(i)'
      BY <1>4, LinkedLasts DEF LinkedAt, CallAt
    <2>7. DurableAt(i)'
      BY <1>4, DurableLasts DEF DurableAt, Settled, Waiting
    <2> QED
      BY <2>1, <2>2, <2>3, <2>4, <2>5, <2>6, <2>7
  <1> QED
    BY <1>3, <1>4, <1>6, OneMoves

\* The directory is synced after the rename, and after the new file is created.
LEMMA SyncSwitchKeeps ==
    ASSUME FileInv, NEW i \in Instances,
           SyncSwitch(i, "archived", "open_new") \/ SyncSwitch(i, "sync_new_dir", "install")
    PROVE  FileInv'
  <1>1. PICK from, to : /\ <<from, to>> \in Moves /\ to \in {"open_new", "install"}
                        /\ from \in {"archived", "sync_new_dir"} /\ SyncSwitch(i, from, to)
    BY DEF Moves
  <1>2. /\ FileTypes /\ RestTypes /\ Disk /\ pc[i] = from /\ next \in Nat /\ f[i] \in Files
        /\ op[i] \in Operations /\ to \in Steps
    BY <1>1, Start DEF SyncSwitch, At, Steps
  <1>3. UNCHANGED <<lock, mine, rotation, clock, crashes, next, controls>>
    BY <1>1 DEF SyncSwitch, world, calls
  <1>4. Disk' /\ f' \in [Instances -> Files] => RestTypes'
    BY <1>1, <1>2, <1>3, FaultType DEF RestTypes, SyncSwitch
  <1>5. CASE ReturnError(i) /\ UNCHANGED <<fs, f>>
    <2>1. Failed(i) /\ Told(i) /\ TellTypes'
      BY <1>2, <1>5, ErrorIs
    <2>2. Calm
      BY <1>2, <1>3, <1>5 DEF Calm, SameFiles, SameDirs, Dirs, dir
    <2>3. FileTypes' /\ Others(i) /\ SameFile(i)
      BY <1>2, <1>3, <1>4, <1>5, <2>1, TypesAre DEF Others, Told, SameFile, RestTypes, Disk
    <2> QED
      BY <1>1, <1>2, <1>3, <2>1, <2>2, <2>3, FailKeeps DEF Shut
  <1>6. CASE /\ fs' = DirSynced /\ f' = [f EXCEPT ![i].dir_dirty = FALSE]
             /\ Go(i, to) /\ UNCHANGED <<op, told>>
    <2>1. Disk' /\ DirsOnDisk /\ SameFiles /\ fs'.count = fs.count
      BY <1>2, <1>6, DirSyncedIs
    <2>2. /\ f' \in [Instances -> Files] /\ \A j \in Instances \ {i} : f'[j] = f[j]
          /\ f'[i].fd = f[i].fd /\ f'[i].current_size = f[i].current_size
          /\ f'[i].detached = f[i].detached /\ f'[i].archive_time = f[i].archive_time
      BY <1>2, <1>6 DEF RestTypes, Files
    <2>3. op' = [op EXCEPT ![i] = op[i]]
      BY <1>2, <1>6 DEF FileTypes
    <2>4. /\ pc'[i] = to /\ op'[i] = op[i] /\ Told(i) /\ TellTypes'
          /\ UNCHANGED <<first_error, accepted, confirmed, expired>>
      BY <1>2, <1>6, <2>3, GoIs
    <2>5. FileTypes' /\ Others(i) /\ SameFile(i) /\ Calm
      BY <1>2, <1>3, <1>4, <2>1, <2>2, <2>4, TypesAre DEF Others, Told, SameFile, Calm
    <2> QED
      BY <1>1, <1>2, <1>3, <2>1, <2>4, <2>5, CalmMoves
  <1> QED
    BY <1>1, <1>5, <1>6 DEF SyncSwitch

\* The directory is synced after the deletion of archives.
LEMMA RetentionSyncKeeps ==
    ASSUME FileInv, NEW i \in Instances, RetentionSync(i)
    PROVE  FileInv'
  <1>2. /\ FileTypes /\ RestTypes /\ Disk /\ pc[i] = "retention_dir" /\ next \in Nat
        /\ f[i] \in Files /\ op[i] \in Operations /\ "append" \in Steps
    BY Start DEF RetentionSync, At, Steps
  <1>3. UNCHANGED <<lock, mine, rotation, clock, crashes, next, controls>>
    BY DEF RetentionSync, world, calls
  <1>4. Disk' /\ f' \in [Instances -> Files] => RestTypes'
    BY <1>2, <1>3, FaultType DEF RestTypes, RetentionSync
  <1>5. CASE ReturnError(i) /\ UNCHANGED <<fs, f>>
    <2>1. Failed(i) /\ Told(i) /\ TellTypes'
      BY <1>2, <1>5, ErrorIs
    <2>2. Calm
      BY <1>2, <1>3, <1>5 DEF Calm, SameFiles, SameDirs, Dirs, dir
    <2>3. FileTypes' /\ Others(i) /\ SameFile(i)
      BY <1>2, <1>3, <1>4, <1>5, <2>1, TypesAre DEF Others, Told, SameFile, RestTypes, Disk
    <2> QED
      BY <1>2, <1>3, <2>1, <2>2, <2>3, FailKeeps DEF Shut
  <1>6. CASE /\ fs' = DirSynced /\ f' = [f EXCEPT ![i].dir_dirty = FALSE]
             /\ ReturnError(i) \/ (Go(i, "append") /\ UNCHANGED <<op, told>>)
    <2>1. Disk' /\ DirsOnDisk /\ SameFiles /\ fs'.count = fs.count
      BY <1>2, <1>6, DirSyncedIs
    <2>2. /\ f' \in [Instances -> Files] /\ \A j \in Instances \ {i} : f'[j] = f[j]
          /\ f'[i].fd = f[i].fd /\ f'[i].current_size = f[i].current_size
          /\ f'[i].detached = f[i].detached /\ f'[i].archive_time = f[i].archive_time
      BY <1>2, <1>6 DEF RestTypes, Files
    <2>3. SameFile(i) /\ Calm /\ RestTypes'
      BY <1>2, <1>3, <1>4, <2>1, <2>2 DEF SameFile, Calm
    <2>4. CASE ReturnError(i)
      <3>1. Failed(i) /\ Told(i) /\ TellTypes'
        BY <1>2, <2>4, ErrorIs
      <3>2. FileTypes' /\ Others(i)
        BY <1>3, <2>2, <2>3, <3>1, TypesAre DEF Others, Told
      <3> QED
        BY <1>2, <1>3, <2>3, <3>1, <3>2, FailKeeps DEF Shut
    <2>5. CASE Go(i, "append") /\ UNCHANGED <<op, told>>
      <3>1. op' = [op EXCEPT ![i] = op[i]]
        BY <1>2, <2>5 DEF FileTypes
      <3>2. /\ pc'[i] = "append" /\ op'[i] = op[i] /\ Told(i) /\ TellTypes'
            /\ UNCHANGED <<first_error, accepted, confirmed, expired>>
        BY <1>2, <2>5, <3>1, GoIs
      <3>3. FileTypes' /\ Others(i) /\ <<pc[i], pc'[i]>> \in Moves
        BY <1>2, <1>3, <2>2, <2>3, <3>2, TypesAre DEF Others, Told, Moves
      <3> QED
        BY <1>3, <2>3, <3>2, <3>3, CalmMoves
    <2> QED
      BY <1>6, <2>4, <2>5
  <1> QED
    BY <1>5, <1>6 DEF RetentionSync

\* The search for expired archives ends.
LEMMA RetentionEndKeeps ==
    ASSUME FileInv, NEW i \in Instances, RetentionEnd(i)
    PROVE  FileInv'
  <1>1. /\ FileTypes /\ RestTypes /\ Disk /\ pc[i] = "retention" /\ next \in Nat
        /\ f[i] \in Files /\ op[i] \in Operations
        /\ "append" \in Steps /\ "retention_dir" \in Steps
    BY Start DEF RetentionEnd, At, Steps
  <1>2. UNCHANGED <<fs, lock, mine, rotation, clock, crashes, next, controls>>
    BY DEF RetentionEnd, world, calls
  <1> DEFINE b == f[i].dir_dirty \/ op[i].changed
  <1>3. b \in BOOLEAN /\ (~b => ~f[i].dir_dirty)
    OBVIOUS
  <1>4. f' = [f EXCEPT ![i].dir_dirty = b]
    BY <1>1 DEF RetentionEnd, RestTypes
  <1> HIDE DEF b
  <1>5. /\ f' \in [Instances -> Files] /\ \A j \in Instances \ {i} : f'[j] = f[j]
        /\ f'[i].fd = f[i].fd /\ f'[i].current_size = f[i].current_size
        /\ f'[i].detached = f[i].detached /\ f'[i].archive_time = f[i].archive_time
        /\ f'[i].dir_dirty = b
    BY <1>1, <1>3, <1>4 DEF RestTypes, Files
  <1>6. Calm /\ SameFile(i)
    BY <1>1, <1>2, <1>3, <1>5 DEF Calm, SameFiles, SameDirs, Dirs, dir, SameFile
  <1>7. RestTypes'
    BY <1>1, <1>2, <1>5, FaultType DEF RestTypes, Disk, RetentionEnd
  <1>8. CASE ReturnError(i)
    <2>1. Failed(i) /\ Told(i) /\ TellTypes'
      BY <1>1, <1>8, ErrorIs
    <2>2. FileTypes' /\ Others(i)
      BY <1>2, <1>5, <1>7, <2>1, TypesAre DEF Others, Told
    <2> QED
      BY <1>1, <1>2, <1>6, <2>1, <2>2, FailKeeps DEF Shut
  <1>9. ASSUME NEW s \in {"append", "retention_dir"}, NEW o \in Operations,
               Go(i, s), op' = [op EXCEPT ![i] = o], UNCHANGED told, o.kind = op[i].kind,
               o.write = op[i].write, o.size = op[i].size, o.stamp = op[i].stamp,
               o.candidate = op[i].candidate
        PROVE  FileInv'
    <2>1. /\ pc'[i] = s /\ op'[i] = o /\ Told(i) /\ TellTypes'
          /\ UNCHANGED <<first_error, accepted, confirmed, expired>>
      BY <1>1, <1>9, GoIs
    <2>2. FileTypes' /\ Others(i) /\ <<pc[i], pc'[i]>> \in Moves
      BY <1>1, <1>2, <1>5, <1>7, <2>1, TypesAre DEF Others, Told, Moves
    <2> QED
      BY <1>2, <1>6, <1>9, <2>1, <2>2, CalmMoves
  <1>10. CASE \E s \in {"append", "retention_dir"} : Go(i, s) /\ UNCHANGED <<op, told>>
    <2>1. op' = [op EXCEPT ![i] = op[i]]
      BY <1>1, <1>10 DEF FileTypes
    <2> QED
      BY <1>1, <1>9, <1>10, <2>1
  <1>11. CASE Go(i, "retention_dir") /\ op' = [op EXCEPT ![i].failed = TRUE] /\ UNCHANGED told
    <2> DEFINE o == [op[i] EXCEPT !.failed = TRUE]
    <2>1. o \in Operations /\ op' = [op EXCEPT ![i] = o]
      BY <1>1, <1>11 DEF FileTypes, Operations
    <2>2. /\ o.kind = op[i].kind /\ o.write = op[i].write /\ o.size = op[i].size
          /\ o.stamp = op[i].stamp /\ o.candidate = op[i].candidate
      BY <1>1 DEF Operations
    <2> QED
      BY <1>9, <1>11, <2>1, <2>2
  <1> QED
    BY <1>8, <1>10, <1>11 DEF RetentionEnd

\* The new file of a rotation is synced.
LEMMA SyncNewKeeps ==
    ASSUME FileInv, NEW i \in Instances, SyncNew(i)
    PROVE  FileInv'
  <1>1. /\ FileTypes /\ RestTypes /\ Disk /\ InstanceInv(i) /\ DiskPart /\ Typed(i) /\ lock = i
        /\ pc[i] = "sync_new" /\ f[i].fd \in Inodes /\ f[i].fd <= fs.count /\ next \in Nat
        /\ op[i] \in Operations /\ "sync_new_dir" \in Steps
    BY Start DEF SyncNew, At, Shut, Steps
  <1>2. UNCHANGED <<lock, f, mine, rotation, clock, crashes, next, controls>>
    BY DEF SyncNew, world, calls
  <1>3. Disk' => RestTypes'
    BY <1>1, <1>2, FaultType DEF RestTypes, SyncNew
  <1>4. CASE ReturnError(i) /\ UNCHANGED fs
    <2>1. Failed(i) /\ Told(i) /\ TellTypes'
      BY <1>1, <1>4, ErrorIs
    <2>2. Calm
      BY <1>1, <1>2, <1>4 DEF Calm, SameFiles, SameDirs, Dirs, dir
    <2>3. FileTypes' /\ Others(i) /\ SameFile(i)
      BY <1>1, <1>2, <1>3, <1>4, <2>1, TypesAre DEF Others, Told, SameFile, Disk
    <2> QED
      BY <1>1, <1>2, <2>1, <2>2, <2>3, FailKeeps DEF Shut
  <1>5. CASE /\ fs' = Synced(op[i].candidate) /\ Go(i, "sync_new_dir")
             /\ UNCHANGED <<op, told>>
    <2>0. op[i].candidate \in Inodes
      BY <1>1 DEF InstanceInv, CallAt, Choosing
    <2>1. /\ Disk' /\ SameDirs /\ fs'.count = fs.count
          /\ fs'.content = fs.content /\ fs'.doomed = fs.doomed
          /\ fs'.size = fs.size /\ fs'.appends = fs.appends
      BY <1>1, <1>5, <2>0, SyncedIs
    <2>2. DirInv' /\ FreshInv' /\ DiskInv' /\ LimitInv' /\ Lasting
      BY <1>1, <1>2, <1>5, <2>0, SyncedDisk
    <2>3. op' = [op EXCEPT ![i] = op[i]]
      BY <1>1, <1>5 DEF FileTypes
    <2>4. /\ pc'[i] = "sync_new_dir" /\ op'[i] = op[i] /\ Told(i) /\ TellTypes'
          /\ UNCHANGED <<first_error, accepted, confirmed, expired>>
      BY <1>1, <1>5, <2>3, GoIs
    <2>5. FileTypes' /\ Others(i)
      BY <1>2, <1>3, <2>1, <2>4, TypesAre DEF Others, Told
    <2>6. DiskPart'
      BY <1>1, <2>2, <2>4, DurableLasts DEF DiskPart, ConfirmedInv
    <2>7. InstanceInv(i)'
      <3> USE <1>1, <1>2, <2>1, <2>4, Numbers
        DEF SameDirs, Shut, Before, After, Choosing, InstanceInv
      <3>1. OpenAt(i)'
        BY DEF OpenAt
      <3>2. CallAt(i)'
        BY DEF CallAt
      <3>3. SizeAt(i)'
        BY DEF SizeAt
      <3>4. ActiveAt(i)' /\ LinkedAt(i)'
        BY DEF ActiveAt, LinkedAt
      <3>5. OrderAt(i)'
        BY DEF OrderAt, Precedes
      <3>6. DurableAt(i)'
        BY <2>2, DurableLasts DEF DurableAt, Waiting, Settled
      <3> QED
        BY <3>1, <3>2, <3>3, <3>4, <3>5, <3>6
    <2> QED
      BY <1>1, <1>2, <2>5, <2>6, <2>7, OneMoves
  <1> QED
    BY <1>4, <1>5 DEF SyncNew

\* Days are counted from 0.
LEMMA DayType ==
    ASSUME NEW t \in Nat
    PROVE  DayOf(t) \in Nat
  <1>1. DayLength \in Nat \ {0}
    BY BoundsAssumption
  <1> QED
    BY <1>1 DEF DayOf

\* The candidate becomes the open file: what the old one held is durable.
LEMMA InstallKeeps ==
    ASSUME FileInv, NEW i \in Instances, Install(i)
    PROVE  FileInv'
  <1>1. /\ FileTypes /\ RestTypes /\ Disk /\ InstanceInv(i) /\ DiskPart /\ Typed(i) /\ lock = i
        /\ pc[i] = "install" /\ f[i].fd \in Inodes /\ next \in Nat
        /\ f[i] \in Files /\ op[i] \in Operations /\ fs.count \in Nat
        /\ "append" \in Steps /\ "retention" \in Steps
    BY Start DEF Install, At, Shut, Steps
  <1>2. UNCHANGED <<fs, lock, mine, rotation, clock, crashes, next, controls>>
    BY DEF Install, world, calls
  <1>3. /\ op[i].candidate \in Inodes /\ op[i].candidate <= fs.count
        /\ op[i].kind \in {"write", "reopen"} /\ fs.size \in [Inodes -> Nat]
    BY <1>1, DiskFields DEF InstanceInv, CallAt, Choosing
  <1> DEFINE day == DayOf(IF op[i].kind = "reopen" THEN clock ELSE op[i].stamp)
  <1>4. day \in Nat
    BY <1>1, DayType DEF Typed, RestTypes
  <1>5. f' = [f EXCEPT ![i] = [f[i] EXCEPT !.fd = op[i].candidate, !.detached = FALSE,
                                 !.current_size = fs.size[op[i].candidate], !.current_day = day]]
    BY <1>1 DEF Install, Installed, RestTypes, Files
  <1> HIDE DEF day
  <1>6. /\ f' \in [Instances -> Files] /\ \A j \in Instances \ {i} : f'[j] = f[j]
        /\ f'[i].fd = op[i].candidate /\ f'[i].current_size = fs.size[op[i].candidate]
        /\ ~f'[i].detached /\ f'[i].archive_time = f[i].archive_time
        /\ f'[i].dir_dirty = f[i].dir_dirty
    BY <1>1, <1>3, <1>4, <1>5 DEF RestTypes, Files
  <1>7. RestTypes'
    BY <1>1, <1>2, <1>6, FaultType DEF RestTypes, Disk, Install
  <1>8. Calm /\ SameDirs /\ Lasting
    BY <1>1, <1>2 DEF Calm, Lasting, SameFiles, SameDirs, Dirs, dir
  <1>9. ~first_error[i] => \A r \in accepted[i] \ expired : Durable(r)
    BY <1>1, Numbers DEF InstanceInv, DurableAt, Settled
  <1>10. ASSUME Told(i), TellTypes', confirmed' = confirmed, expired' = expired,
                ~first_error'[i] => ~first_error[i] /\ accepted'[i] = accepted[i],
                \/ pc'[i] = "ready" /\ op'[i] = Idle
                \/ pc'[i] \in {"append", "retention"} /\ op'[i] = op[i] /\ op[i].kind = "write"
         PROVE  FileInv'
    <2>1. FileTypes' /\ Others(i)
      BY <1>2, <1>6, <1>7, <1>10, TypesAre DEF Others, Told
    <2>2. DiskPart'
      BY <1>8, <1>10, <2>1, CalmDisk
    <2>3. InstanceInv(i)'
      <3> USE <1>1, <1>2, <1>3, <1>6, <1>10, Numbers
          DEF Shut, Before, After, Choosing, Idle, InstanceInv
      <3>1. OpenAt(i)'
        BY DEF OpenAt
      <3>2. CallAt(i)'
        BY DEF CallAt
      <3>3. SizeAt(i)'
        BY DEF SizeAt
      <3>4. ActiveAt(i)' /\ LinkedAt(i)'
        BY <1>8 DEF ActiveAt, LinkedAt, SameDirs
      <3>5. OrderAt(i)'
        BY <1>8 DEF OrderAt, Precedes, SameDirs
      <3>6. DurableAt(i)'
        BY <1>8, <1>9, DurableLasts DEF DurableAt
      <3> QED
        BY <3>1, <3>2, <3>3, <3>4, <3>5, <3>6
    <2> QED
      BY <1>1, <1>2, <2>1, <2>2, <2>3, OneMoves
  <1>11. CASE op[i].kind = "reopen" /\ ReturnOk(i)
    <2>1. Succeeded(i) /\ Told(i) /\ TellTypes'
      BY <1>1, <1>11, OkIs
    <2>2. confirmed' = confirmed
      BY <1>11 DEF ReturnOk
    <2> QED
      BY <1>10, <1>11, <2>1, <2>2 DEF Succeeded
  <1>12. CASE ReturnError(i)
    <2>1. Failed(i) /\ Told(i) /\ TellTypes'
      BY <1>1, <1>12, ErrorIs
    <2>2. pc'[i] = "ready" /\ op'[i] = Idle /\ first_error'[i]
      BY <2>1 DEF Failed
    <2>3. confirmed' = confirmed /\ expired' = expired
      BY <2>1 DEF Failed
    <2> QED
      BY <1>10, <2>1, <2>2, <2>3
  <1>13. CASE /\ op[i].kind = "write" /\ UNCHANGED <<op, told>>
              /\ Go(i, IF rotation.retention = 0 THEN "append" ELSE "retention")
    <2>1. op' = [op EXCEPT ![i] = op[i]]
      BY <1>1, <1>13 DEF FileTypes
    <2>2. PICK s \in {"append", "retention"} : Go(i, s)
      BY <1>13
    <2>3. /\ pc'[i] = s /\ op'[i] = op[i] /\ Told(i) /\ TellTypes'
          /\ UNCHANGED <<first_error, accepted, confirmed, expired>>
      BY <1>1, <1>13, <2>1, <2>2, GoIs
    <2> QED
      BY <1>10, <1>13, <2>2, <2>3
  <1> QED
    BY <1>11, <1>12, <1>13 DEF Install

\* The write is appended, whole or torn: it is the newest, its file does not
\* outgrow the limit, and no archive of i is touched.
LEMMA AppendWriteKeeps ==
    ASSUME FileInv, NEW i \in Instances, AppendWrite(i)
    PROVE  FileInv'
  <1>1. /\ FileTypes /\ RestTypes /\ Disk /\ InstanceInv(i) /\ DiskPart /\ Typed(i) /\ lock = i
        /\ pc[i] = "append" /\ f[i].fd \in Inodes /\ f[i].fd <= fs.count /\ next \in Nat
        /\ f[i] \in Files /\ op[i] \in Operations /\ fs.count \in Nat /\ "sync" \in Steps
        /\ rotation.max_file_size \in Nat /\ dir \in Dirs /\ dir \in Directories
    BY Start DEF AppendWrite, At, Shut, Steps
  <1>2. UNCHANGED <<lock, mine, rotation, clock, crashes, next, controls>>
    BY DEF AppendWrite, world, calls
  <1>3. /\ op[i].kind = "write" /\ op[i].write \in Writes /\ op[i].write < next
        /\ op[i].size \in Nat \ {0} /\ ~f[i].detached /\ op[i].write \in Nat
    BY <1>1, Numbers DEF InstanceInv, CallAt, Typed
  <1>4. PICK n \in 0..op[i].size :
          /\ n < op[i].size => Fault
          /\ n = op[i].size => UNCHANGED faults
          /\ fs' = Appended(i, f[i].fd, n)
          /\ f' = [f EXCEPT ![i].current_size = @ + n]
          /\ CASE n < op[i].size -> ReturnError(i)
               [] n = op[i].size /\ op[i].sync ->
                    Go(i, "sync") /\ op' = [op EXCEPT ![i].stamp = 0] /\ UNCHANGED told
               [] OTHER -> ReturnOk(i)
    BY DEF AppendWrite
  <1>n. n \in Nat /\ (n < op[i].size \/ n = op[i].size)
    BY <1>3, <1>4
  <1> DEFINE k == f[i].fd
             whole == n = op[i].size
             w == op[i].write
  <1>5. /\ Disk' /\ SameDirs /\ fs'.count = fs.count
        /\ fs'.synced = fs.synced /\ fs'.doomed = fs.doomed
        /\ fs'.size = [fs.size EXCEPT ![k] = @ + n]
        /\ fs'.appends = [fs.appends EXCEPT ![k] = IF n = 0 THEN @ ELSE @ + 1]
        /\ fs'.content = [fs.content EXCEPT ![k] = IF n # 0 /\ whole THEN @ \cup {w} ELSE @]
    <2>1. clock \in Nat
      BY <1>1 DEF RestTypes
    <2> QED
      BY <1>1, <1>3, <1>4, <1>n, <2>1, AppendedIs
  <1>6. /\ f' \in [Instances -> Files] /\ \A j \in Instances \ {i} : f'[j] = f[j]
        /\ f'[i].fd = k /\ f'[i].current_size = f[i].current_size + n
        /\ ~f'[i].detached /\ f'[i].archive_time = f[i].archive_time
        /\ f'[i].dir_dirty = f[i].dir_dirty
    <2>1. f[i].current_size + n \in Nat
      BY <1>1, <1>n DEF Files
    <2>2. f' = [f EXCEPT ![i] = [f[i] EXCEPT !.current_size = f[i].current_size + n]]
      BY <1>1, <1>4 DEF RestTypes
    <2> QED
      BY <1>1, <1>3, <2>1, <2>2 DEF RestTypes, Files
  <1>7. RestTypes'
    BY <1>1, <1>2, <1>4, <1>5, <1>6, <1>n, FaultType DEF RestTypes
  <1>8. /\ \A j \in Inodes \ {k} : fs'.size[j] = fs.size[j] /\ fs'.appends[j] = fs.appends[j]
                                   /\ fs'.content[j] = fs.content[j]
        /\ fs'.size[k] = fs.size[k] + n /\ fs.size[k] \in Nat /\ fs.appends[k] \in Nat
        /\ fs'.appends[k] = IF n = 0 THEN fs.appends[k] ELSE fs.appends[k] + 1
        /\ fs.content[k] \subseteq fs'.content[k] /\ fs'.content[k] \subseteq fs.content[k] \cup {w}
        /\ whole => w \in fs'.content[k]
    BY <1>1, <1>3, <1>5, DiskFields
  <1>9. /\ \A j \in Inodes : \A r \in fs.content[j] : r < w
        /\ w \notin fs.doomed[k]
    <2>1. \A j \in Inodes : \A r \in fs.content[j] : r < w
      BY <1>1 DEF InstanceInv, OrderAt
    <2>2. fs.doomed[k] \subseteq fs.content[k]
      BY <1>1 DEF DiskPart, DiskInv
    <2> QED
      BY <1>1, <1>3, <2>1, <2>2
  <1> HIDE DEF whole, w, k
  <1>k. k = f[i].fd /\ k \in Inodes /\ k # None /\ k <= fs.count /\ k \in Nat
    BY <1>1, Numbers DEF k
  <1>10. Lasting
    BY <1>5 DEF Lasting
  <1>11. DirInv' /\ DiskInv'
    <2>1. DirInv'
      BY <1>1, <1>5 DEF DiskPart, DirInv, SameDirs
    <2>2. w < next
      BY <1>3 DEF w
    <2>3. ASSUME NEW j \in Inodes
          PROVE  /\ fs'.synced[j] \subseteq fs'.content[j] \ fs'.doomed[j]
                 /\ fs'.doomed[j] \subseteq fs'.content[j]
                 /\ \A r \in fs'.content[j] : r < next'
      <3>1. /\ fs.synced[j] \subseteq fs.content[j] \ fs.doomed[j]
            /\ fs.doomed[j] \subseteq fs.content[j]
            /\ \A r \in fs.content[j] : r < next
        BY <1>1 DEF DiskPart, DiskInv
      <3>2. fs.content[j] \subseteq fs'.content[j] /\ fs'.content[j] \subseteq fs.content[j] \cup {w}
        BY <1>8, <1>k
      <3> QED
        BY <1>2, <1>5, <2>2, <3>1, <3>2
    <2> QED
      BY <2>1, <2>3 DEF DiskInv
  <1>12. FreshInv'
    <2>1. FreshInv
      BY <1>1 DEF DiskPart
    <2>2. ASSUME NEW j \in Inodes
          PROVE  /\ j > fs'.count => fs'.size[j] = 0 /\ fs'.content[j] = {}
                 /\ fs'.size[j] = 0 => fs'.appends[j] = 0
      <3>1. CASE j # k
        BY <1>5, <1>8, <2>1, <3>1 DEF FreshInv
      <3>2. CASE j = k
        BY <1>1, <1>5, <1>8, <1>k, <1>n, <2>1, <3>2 DEF FreshInv
      <3> QED
        BY <3>1, <3>2
    <2> QED
      BY <2>2 DEF FreshInv
  <1>13. LimitInv'
    <2>0. /\ f[i].current_size = fs.size[k]
          /\ Limited => f[i].current_size = 0 \/ f[i].current_size + op[i].size <= rotation.max_file_size
      BY <1>1, <1>k DEF InstanceInv, SizeAt
    <2> SUFFICES ASSUME Limited, NEW j \in Inodes
                 PROVE  fs'.size[j] <= rotation.max_file_size \/ fs'.appends[j] <= 1
      BY <1>2 DEF LimitInv, Limited
    <2>1. fs.size[j] <= rotation.max_file_size \/ fs.appends[j] <= 1
      BY <1>1 DEF DiskPart, LimitInv
    <2>2. CASE j # k
      BY <1>8, <2>1, <2>2
    <2>3. CASE j = k /\ n = 0
      BY <1>8, <2>1, <2>3
    <2>4. CASE j = k /\ n # 0
      <3>1. fs.size[k] = 0 => fs.appends[k] = 0
        BY <1>1, <1>k DEF DiskPart, FreshInv
      <3> QED
        BY <1>1, <1>3, <1>8, <1>n, <2>0, <2>4, <3>1
    <2> QED
      BY <2>2, <2>3, <2>4
  <1>14. /\ \A m \in mine[i] : dir[m] # None => fs'.content[dir[m]] = fs.content[dir[m]]
         /\ \A m \in mine[i] : dir[m] # None => dir[m] \in Inodes
    <2>1. ASSUME NEW m \in mine[i], dir[m] # None
          PROVE  fs'.content[dir[m]] = fs.content[dir[m]] /\ dir[m] \in Inodes
      <3>1. m \in Names /\ m # Active /\ Active \in Names
        BY <1>1, Numbers DEF Typed
      <3>2. rotation.mode # "EXTERNAL"
        BY <1>1, <2>1 DEF InstanceInv, OrderAt
      <3>3. dir[Active] = k
        BY <1>1, <1>3, <1>k, <3>2 DEF InstanceInv, ActiveAt
      <3>4. dir[m] # k
        BY <1>1, <1>k, <3>1, <3>3 DEF DiskPart, DirInv
      <3>5. dir[m] \in Inodes
        BY <1>1, <2>1, <3>1 DEF Directories
      <3> QED
        BY <1>8, <3>4, <3>5
    <2> QED
      BY <2>1
  <1>15. ASSUME Told(i), TellTypes', confirmed' = confirmed, expired' = expired,
                ~first_error'[i] =>
                    /\ ~first_error[i]
                    /\ accepted'[i] = accepted[i] \/ (whole /\ accepted'[i] = accepted[i] \cup {w}),
                \/ pc'[i] = "ready" /\ op'[i] = Idle
                \/ /\ pc'[i] = "sync" /\ op'[i].kind = "write" /\ op'[i].stamp = 0 /\ whole
                   /\ op'[i].write = w /\ op'[i].size = op[i].size
         PROVE  FileInv'
    <2>1. FileTypes' /\ Others(i)
      BY <1>2, <1>6, <1>7, <1>15, TypesAre DEF Others, Told
    <2>2. DiskPart'
      <3>1. ConfirmedInv'
        BY <1>1, <1>10, <1>15, DurableLasts DEF DiskPart, ConfirmedInv
      <3> QED
        BY <1>11, <1>12, <1>13, <3>1 DEF DiskPart
    <2>3. InstanceInv(i)'
      <3> USE <1>1, <1>2, <1>6, <1>15, <1>k
        DEF Shut, Before, After, Choosing, Idle, InstanceInv
      <3>1. OpenAt(i)'
        BY <1>5 DEF OpenAt
      <3>2. CallAt(i)'
        BY <1>3 DEF CallAt, w
      <3>3. SizeAt(i)'
        BY <1>8 DEF SizeAt
      <3>4. ActiveAt(i)' /\ LinkedAt(i)'
        BY <1>3, <1>5 DEF ActiveAt, LinkedAt, SameDirs
      <3>5. OrderAt(i)'
        <4>1. ~(pc'[i] \in {"check", "append"} \/ Before(i)' \/ After(i)')
          OBVIOUS
        <4>2. /\ rotation'.mode = "EXTERNAL" => mine'[i] = {}
              /\ \A m \in mine'[i] : m <= f'[i].archive_time
          BY DEF OrderAt
        <4>3. \A m, p \in mine[i] : m < p /\ dir[m] # None /\ dir[p] # None => Precedes(dir[m], dir[p])'
          <5>1. \A m, p \in mine[i] : m < p /\ dir[m] # None /\ dir[p] # None => Precedes(dir[m], dir[p])
            BY DEF OrderAt
          <5> QED
            BY <1>5, <1>14, <5>1 DEF Precedes, SameDirs
        <4>4. \A m \in mine[i] : dir[m] # None /\ dir[Active] # None => Precedes(dir[m], dir[Active])'
          <5> SUFFICES ASSUME NEW m \in mine[i], dir[m] # None, dir[Active] # None
                       PROVE  \A r \in fs'.content[dir[m]], s \in fs'.content[dir[Active]] : r < s
            BY <1>5 DEF Precedes, SameDirs
          <5>1. \A r \in fs.content[dir[m]], s \in fs.content[dir[Active]] : r < s
            BY DEF OrderAt, Precedes
          <5>2. dir[m] \in Inodes /\ fs'.content[dir[m]] = fs.content[dir[m]]
            BY <1>14
          <5>3. dir[Active] \in Inodes
            BY Numbers DEF Directories
          <5>4. fs'.content[dir[Active]] \subseteq fs.content[dir[Active]] \cup {w}
            BY <1>8, <5>3
          <5> QED
            BY <1>9, <5>1, <5>2, <5>4
        <4> QED
          BY <1>5, <4>1, <4>2, <4>3, <4>4 DEF OrderAt, SameDirs, Precedes
      <3>6. DurableAt(i)'
        <4>1. Waiting(i)' = fs'.content[k] \ fs.doomed[k] /\ Waiting(i) \subseteq Waiting(i)'
          BY <1>5, <1>8 DEF Waiting
        <4>2. whole => w \in Waiting(i)'
          BY <1>8, <1>9, <4>1
        <4>3. ~first_error[i] => \A r \in accepted[i] \ expired : Durable(r) \/ r \in Waiting(i)
          BY DEF DurableAt
        <4>4. ~first_error'[i] => \A r \in accepted'[i] \ expired' : Durable(r)' \/ r \in Waiting(i)'
          BY <1>10, <4>1, <4>2, <4>3, DurableLasts
        <4>5. pc'[i] \notin Settled /\ pc'[i] # "sync_dir"
          BY DEF Settled
        <4> QED
          BY <4>2, <4>4, <4>5 DEF DurableAt
      <3> QED
        BY <3>1, <3>2, <3>3, <3>4, <3>5, <3>6
    <2> QED
      BY <1>1, <1>2, <2>1, <2>2, <2>3, OneMoves
  <1>16. CASE n < op[i].size
    <2>1. ReturnError(i)
      BY <1>4, <1>16
    <2>2. Failed(i) /\ Told(i) /\ TellTypes'
      BY <1>1, <2>1, ErrorIs
    <2>3. pc'[i] = "ready" /\ op'[i] = Idle /\ first_error'[i]
      BY <2>2 DEF Failed
    <2>4. confirmed' = confirmed /\ expired' = expired
      BY <2>2 DEF Failed
    <2> QED
      BY <1>15, <2>2, <2>3, <2>4
  <1>17. CASE n = op[i].size /\ op[i].sync
    <2>1. Go(i, "sync") /\ op' = [op EXCEPT ![i].stamp = 0] /\ UNCHANGED told
      BY <1>3, <1>4, <1>17
    <2> DEFINE o == [op[i] EXCEPT !.stamp = 0]
    <2>2. /\ o \in Operations /\ o.kind = "write" /\ o.write = op[i].write /\ o.size = op[i].size
          /\ o.stamp = 0 /\ op' = [op EXCEPT ![i] = o]
      <3>1. 0 \in 0..MaxStamp
        BY BoundsAssumption
      <3>2. op' = [op EXCEPT ![i] = o]
        BY <1>1, <2>1 DEF FileTypes
      <3> QED
        BY <1>1, <1>3, <3>1, <3>2 DEF Operations
    <2> HIDE DEF o
    <2>3. /\ pc'[i] = "sync" /\ op'[i] = o /\ Told(i) /\ TellTypes'
          /\ UNCHANGED <<first_error, accepted, confirmed, expired>>
      BY <1>1, <2>1, <2>2, GoIs
    <2> QED
      BY <1>15, <1>17, <2>2, <2>3 DEF w, whole
  <1>18. CASE n = op[i].size /\ ~op[i].sync
    <2>1. ReturnOk(i)
      BY <1>3, <1>4, <1>18
    <2>2. Succeeded(i) /\ Told(i) /\ TellTypes'
      BY <1>1, <1>3, <2>1, OkIs
    <2>3. confirmed' = confirmed
      BY <1>3, <1>18, <2>1 DEF ReturnOk
    <2> QED
      BY <1>3, <1>15, <1>18, <2>2, <2>3 DEF Succeeded, w, whole
  <1> QED
    BY <1>n, <1>16, <1>17, <1>18

\* What openat of the active name leaves alone: the files and the archives; a
\* file it creates is empty.
Opens ==
    /\ SameFiles /\ (Calm \/ Created) /\ Lasting
    /\ Opened \in Inodes /\ dir'[Active] = Opened /\ Opened <= fs'.count /\ fs.count <= fs'.count
    /\ fs'.count \in Nat
    /\ \A n \in Stamps : dir'[n] = dir[n]
    /\ dir[Active] # None => dir' = dir /\ Opened = dir[Active]
    /\ dir[Active] = None => fs.content[Opened] = {} /\ fs.size[Opened] = 0

\* That is what a successful openat does.
LEMMA OpensIs ==
    ASSUME FileInv, fs.count < MaxInodes \/ dir[Active] # None, fs' = AfterOpen,
           UNCHANGED <<rotation, next, confirmed, expired>>
    PROVE  Disk' /\ Opens
  <1>1. Disk /\ DirInv /\ FreshInv /\ next \in Nat
    BY DEF FileInv, FileTypes, Disk, DiskPart
  <1>2. fs.count \in Nat /\ dir \in Directories
    BY <1>1, DiskFields, DirFacts
  <1>3. /\ Disk' /\ SameFiles
        /\ Opened \in Inodes /\ dir'[Active] = Opened /\ Opened <= fs'.count
        /\ \/ /\ dir[Active] = Opened /\ SameDirs /\ fs'.count = fs.count
           \/ /\ dir[Active] = None /\ Opened = fs.count + 1 /\ fs'.count = fs.count + 1
              /\ Grown([dir EXCEPT ![Active] = Opened])
    BY <1>1, OpenedIs
  <1>4. CASE dir[Active] = Opened /\ SameDirs /\ fs'.count = fs.count
    <2>1. Calm /\ Lasting
      BY <1>1, <1>3, <1>4 DEF Calm, Lasting, SameFiles
    <2> QED
      BY <1>2, <1>3, <1>4, <2>1, Numbers DEF Opens, SameDirs
  <1>5. CASE /\ dir[Active] = None /\ Opened = fs.count + 1 /\ fs'.count = fs.count + 1
             /\ Grown([dir EXCEPT ![Active] = Opened])
    <2> DEFINE D == [dir EXCEPT ![Active] = Opened]
    <2>1. /\ D \in Directories /\ \A n \in Stamps : D[n] = dir[n]
          /\ \A n \in Names : dir[n] # None => D[n] = dir[n]
      BY <1>2, <1>3, <1>5, Numbers DEF Directories
    <2>2. dir' = D /\ Grown(D)
      BY <1>5 DEF Grown
    <2>3. Created
      BY <1>3, <1>5 DEF Created
    <2>4. fs.content[Opened] = {} /\ fs.size[Opened] = 0
      BY <1>1, <1>2, <1>3, <1>5 DEF FreshInv
    <2>5. Lasting
      <3> HIDE DEF D
      <3>1. Renamed(D)
        BY <2>1 DEF Renamed
      <3> QED
        BY <1>3, <2>1, <2>2, <3>1 DEF Lasting, SameFiles
    <2>6. fs'.count \in Nat /\ fs.count <= fs'.count
      BY <1>2, <1>5
    <2> HIDE DEF D
    <2> QED
      BY <1>3, <1>5, <2>1, <2>2, <2>3, <2>4, <2>5, <2>6 DEF Opens
  <1> QED
    BY <1>3, <1>4, <1>5

\* A failed openat may have created the file.
LEMMA OpenFailsIs ==
    ASSUME FileInv, OpenFails, UNCHANGED <<rotation, next, confirmed, expired>>
    PROVE  Disk' /\ (Calm \/ Created)
  <1>1. CASE UNCHANGED fs
    <2>1. Disk /\ next \in Nat
      BY DEF FileInv, FileTypes, Disk
    <2> QED
      BY <1>1, <2>1 DEF Calm, SameFiles, SameDirs, Dirs, dir, Disk
  <1>2. CASE fs.count < MaxInodes /\ fs' = AfterOpen
    BY <1>2, OpensIs DEF Opens
  <1> QED
    BY <1>1, <1>2 DEF OpenFails

\* The disk is in order after an openat.
LEMMA OpensDisk ==
    ASSUME FileInv, FileTypes', UNCHANGED <<confirmed, expired>>, Calm \/ Created
    PROVE  DiskPart'
  BY CalmDisk, CreatedDisk

\* The logger opens its file, or gives up the lock.
LEMMA OpenKeeps ==
    ASSUME FileInv, NEW i \in Instances, Open(i)
    PROVE  FileInv'
  <1>1. /\ FileTypes /\ RestTypes /\ TellTypes /\ Disk /\ InstanceInv(i) /\ lock = i
        /\ pc[i] = "open" /\ next \in Nat /\ fs.size \in [Inodes -> Nat] /\ f[i] \in Files
    BY Start, DiskFields DEF Open, At
  <1>2. /\ UNCHANGED <<op, first_error, accepted, confirmed, expired, mine, rotation, clock,
                       crashes, next, controls>>
    BY DEF Open, told, world, calls
  <1>3. f[i] = Empty /\ op[i] = Idle /\ mine[i] = {} /\ accepted[i] = {}
    BY <1>1 DEF InstanceInv, OpenAt, CallAt, Shut
  <1>4. CASE /\ Fault /\ OpenFails /\ lock' = None /\ Go(i, "closed") /\ UNCHANGED f
    <2>1. Disk' /\ (Calm \/ Created)
      BY <1>2, <1>4, OpenFailsIs
    <2>2. pc' \in [Instances -> Steps] /\ pc'[i] = "closed" /\ Others(i)
      BY <1>1, <1>2, <1>4 DEF TellTypes, Go, Steps, Others
    <2>3. FileTypes'
      BY <1>1, <1>2, <1>4, <2>1, <2>2, TypesAre, FaultType DEF TellTypes, RestTypes
    <2>4. DiskPart'
      BY <1>2, <2>1, <2>3, OpensDisk
    <2>5. InstanceInv(i)'
      BY <1>2, <1>3, <1>4, <2>2, ClosedHolds DEF Closed
    <2> QED
      BY <1>1, <2>2, <2>3, <2>4, <2>5, OneMoves
  <1>5. CASE /\ fs.count < MaxInodes \/ dir[Active] # None
             /\ fs' = AfterOpen /\ f' = Installed(Dirtied(i), i, Opened, DayOf(clock))
             /\ Go(i, "ready") /\ UNCHANGED <<lock, faults>>
    <2>1. Disk' /\ Opens
      BY <1>2, <1>5, OpensIs
    <2>2. Opened \in Inodes /\ fs.size[Opened] \in Nat /\ DayOf(clock) \in Nat
      BY <1>1, <2>1, DayType DEF Opens, RestTypes
    <2>3. f' = [f EXCEPT ![i] = [f[i] EXCEPT !.dir_dirty = TRUE, !.fd = Opened, !.detached = FALSE,
                                   !.current_size = fs.size[Opened], !.current_day = DayOf(clock)]]
      BY <1>1, <1>5 DEF Installed, Dirtied, RestTypes, Files
    <2>4. /\ f' \in [Instances -> Files] /\ \A j \in Instances \ {i} : f'[j] = f[j]
          /\ f'[i].fd = Opened /\ f'[i].current_size = fs.size[Opened]
          /\ ~f'[i].detached /\ f'[i].dir_dirty
      BY <1>1, <2>2, <2>3 DEF RestTypes, Files
    <2>5. pc' \in [Instances -> Steps] /\ pc'[i] = "ready" /\ Others(i)
      BY <1>1, <1>2, <1>5, <2>4 DEF TellTypes, Go, Steps, Others
    <2>6. FileTypes'
      BY <1>1, <1>2, <1>5, <2>1, <2>4, <2>5, TypesAre DEF TellTypes, RestTypes
    <2>7. DiskPart'
      BY <1>2, <2>1, <2>6, OpensDisk DEF Opens
    <2>8. InstanceInv(i)'
      <3> USE <1>2, <1>3, <2>1, <2>4, <2>5, Numbers
          DEF Opens, SameFiles, Shut, Before, After, Choosing, InstanceInv
      <3>1. OpenAt(i)'
        BY <2>2 DEF OpenAt
      <3>2. CallAt(i)'
        BY DEF CallAt, Idle
      <3>3. SizeAt(i)'
        BY DEF SizeAt
      <3>4. ActiveAt(i)'
        BY DEF ActiveAt
      <3>5. LinkedAt(i)'
        BY DEF LinkedAt, Linked
      <3>6. OrderAt(i)'
        BY DEF OrderAt
      <3>7. DurableAt(i)'
        BY DEF DurableAt, Idle
      <3> QED
        BY <3>1, <3>2, <3>3, <3>4, <3>5, <3>6, <3>7
    <2> QED
      BY <1>1, <1>5, <2>5, <2>6, <2>7, <2>8, OneMoves
  <1> QED
    BY <1>4, <1>5 DEF Open

\* A reopen opens its candidate, or fails.
LEMMA ReopenKeeps ==
    ASSUME FileInv, NEW i \in Instances, Reopen(i)
    PROVE  FileInv'
  <1>1. /\ FileTypes /\ RestTypes /\ TellTypes /\ Disk /\ InstanceInv(i) /\ Typed(i) /\ lock = i
        /\ pc[i] = "ready" /\ next \in Nat /\ f[i] \in Files /\ f[i].fd \in Inodes
        /\ f[i].fd <= fs.count /\ fs.count \in Nat /\ dir \in Directories
    BY Start DEF Reopen, At, Shut
  <1>2. /\ UNCHANGED <<lock, mine, rotation, clock, crashes, next>> /\ controls' \in 0..MaxControls
    BY <1>1, BoundsAssumption DEF Reopen, world, RestTypes
  <1>3. Disk' /\ f' \in [Instances -> Files] => RestTypes'
    BY <1>1, <1>2, FaultType DEF RestTypes, Reopen
  <1>4. CASE Fault /\ OpenFails /\ ReturnError(i) /\ UNCHANGED f
    <2>1. Failed(i) /\ Told(i) /\ TellTypes'
      BY <1>1, <1>4, ErrorIs
    <2>2. Disk' /\ (Calm \/ Created)
      BY <1>2, <1>4, <2>1, OpenFailsIs DEF Failed
    <2>3. FileTypes' /\ Others(i) /\ SameFile(i)
      BY <1>1, <1>2, <1>3, <1>4, <2>1, <2>2, TypesAre DEF Others, Told, SameFile, RestTypes
    <2> QED
      BY <1>1, <1>2, <2>1, <2>2, <2>3, FailKeeps DEF Shut
  <1>5. CASE /\ fs.count < MaxInodes \/ dir[Active] # None
             /\ fs' = AfterOpen /\ f' = Dirtied(i) /\ Go(i, "sync") /\ UNCHANGED told
             /\ op' = [op EXCEPT ![i] = [Idle EXCEPT !.kind = "reopen", !.candidate = Opened]]
    <2>1. Disk' /\ Opens
      BY <1>2, <1>5, OpensIs DEF told
    <2> DEFINE o == [Idle EXCEPT !.kind = "reopen", !.candidate = Opened]
    <2>2. o \in Operations /\ o.kind = "reopen" /\ o.candidate = Opened /\ o.stamp = 0
      BY <2>1, IdleType DEF Operations, Idle, Opens
    <2> HIDE DEF o
    <2>3. /\ pc'[i] = "sync" /\ op'[i] = o /\ Told(i) /\ TellTypes'
          /\ UNCHANGED <<first_error, accepted, confirmed, expired>>
      <3>1. "sync" \in Steps /\ op' = [op EXCEPT ![i] = o]
        BY <1>5 DEF Steps, o
      <3> QED
        BY <1>1, <1>5, <2>2, <3>1, GoIs
    <2>4. /\ f' \in [Instances -> Files] /\ \A j \in Instances \ {i} : f'[j] = f[j]
          /\ f'[i].fd = f[i].fd /\ f'[i].current_size = f[i].current_size
          /\ f'[i].detached = f[i].detached /\ f'[i].archive_time = f[i].archive_time
          /\ f'[i].dir_dirty
      BY <1>1, <1>5 DEF RestTypes, Files, Dirtied
    <2>5. FileTypes' /\ Others(i)
      BY <1>2, <1>3, <2>1, <2>3, <2>4, TypesAre DEF Others, Told
    <2>6. DiskPart'
      BY <2>1, <2>3, <2>5, OpensDisk DEF Opens
    <2>7. InstanceInv(i)'
      <3> USE <1>1, <1>2, <2>1, <2>2, <2>3, <2>4, Numbers
          DEF Opens, SameFiles, Shut, Before, After, Choosing, InstanceInv
      <3>1. OpenAt(i)'
        BY DEF OpenAt
      <3>2. CallAt(i)'
        BY DEF CallAt
      <3>3. SizeAt(i)'
        BY DEF SizeAt
      <3>4. ActiveAt(i)'
        BY DEF ActiveAt
      <3>5. LinkedAt(i)'
        <4>1. Linked(dir', f[i].fd)
          BY LinkedLasts DEF LinkedAt
        <4>2. Linked(dir', Opened)
          BY DEF Linked
        <4> QED
          BY <4>1, <4>2 DEF LinkedAt
      <3>6. OrderAt(i)'
        <4>1. \A m \in mine[i] : m \in Stamps /\ dir'[m] = dir[m]
          BY DEF Typed
        <4>a. \A m, p \in mine[i] : m < p /\ dir[m] # None /\ dir[p] # None =>
                \A r \in fs.content[dir[m]], s \in fs.content[dir[p]] : r < s
          BY DEF OrderAt, Precedes
        <4>2. \A m, p \in mine'[i] : m < p /\ dir'[m] # None /\ dir'[p] # None =>
                Precedes(dir[m], dir[p])'
          BY <4>1, <4>a DEF Precedes
        <4>3. \A m \in mine'[i] : dir'[m] # None => Precedes(dir[m], dir[Active])'
          BY <4>1 DEF OrderAt, Precedes
        <4> QED
          BY <4>2, <4>3 DEF OrderAt, Precedes
      <3>7. DurableAt(i)'
        BY DurableLasts DEF DurableAt, Waiting, Settled
      <3> QED
        BY <3>1, <3>2, <3>3, <3>4, <3>5, <3>6, <3>7
    <2> QED
      BY <1>1, <1>2, <2>5, <2>6, <2>7, OneMoves
  <1> QED
    BY <1>4, <1>5 DEF Reopen

\* A rotation creates the new active file, or fails.
LEMMA OpenNewKeeps ==
    ASSUME FileInv, NEW i \in Instances, OpenNew(i)
    PROVE  FileInv'
  <1>1. /\ FileTypes /\ RestTypes /\ TellTypes /\ Disk /\ InstanceInv(i) /\ Typed(i) /\ lock = i
        /\ pc[i] = "open_new" /\ next \in Nat /\ f[i] \in Files /\ f[i].fd \in Inodes
        /\ f[i].fd <= fs.count /\ fs.count \in Nat /\ dir \in Directories /\ op[i] \in Operations
    BY Start DEF OpenNew, At, Shut
  <1>2. UNCHANGED <<lock, mine, rotation, clock, crashes, next, controls>>
    BY DEF OpenNew, world, calls
  <1>3. Disk' /\ f' \in [Instances -> Files] => RestTypes'
    BY <1>1, <1>2, FaultType DEF RestTypes, OpenNew
  <1>4. CASE /\ UNCHANGED fs \/ OpenFails
             /\ ReturnError(i) /\ UNCHANGED f
    <2>1. Failed(i) /\ Told(i) /\ TellTypes'
      BY <1>1, <1>4, ErrorIs
    <2>2. Disk' /\ (Calm \/ Created)
      BY <1>2, <1>4, <2>1, OpenFailsIs DEF Failed, OpenFails
    <2>3. FileTypes' /\ Others(i) /\ SameFile(i)
      BY <1>1, <1>2, <1>3, <1>4, <2>1, <2>2, TypesAre DEF Others, Told, SameFile, RestTypes
    <2> QED
      BY <1>1, <1>2, <2>1, <2>2, <2>3, FailKeeps DEF Shut
  <1>5. CASE /\ dir[Active] = None /\ fs.count < MaxInodes
             /\ fs' = AfterOpen /\ f' = Dirtied(i) /\ Go(i, "sync_new") /\ UNCHANGED told
             /\ op' = [op EXCEPT ![i].candidate = Opened]
    <2>1. Disk' /\ Opens
      BY <1>2, <1>5, OpensIs DEF told
    <2> DEFINE o == [op[i] EXCEPT !.candidate = Opened]
    <2>2. /\ o \in Operations /\ o.kind = op[i].kind /\ o.candidate = Opened /\ o.stamp = op[i].stamp
          /\ o.write = op[i].write /\ o.size = op[i].size /\ op' = [op EXCEPT ![i] = o]
      BY <1>1, <1>5, <2>1 DEF Operations, Opens, FileTypes
    <2> HIDE DEF o
    <2>3. /\ pc'[i] = "sync_new" /\ op'[i] = o /\ Told(i) /\ TellTypes'
          /\ UNCHANGED <<first_error, accepted, confirmed, expired>>
      <3>1. "sync_new" \in Steps
        BY DEF Steps
      <3> QED
        BY <1>1, <1>5, <2>2, <3>1, GoIs
    <2>4. /\ f' \in [Instances -> Files] /\ \A j \in Instances \ {i} : f'[j] = f[j]
          /\ f'[i].fd = f[i].fd /\ f'[i].current_size = f[i].current_size
          /\ f'[i].detached = f[i].detached /\ f'[i].archive_time = f[i].archive_time
          /\ f'[i].dir_dirty
      BY <1>1, <1>5 DEF RestTypes, Files, Dirtied
    <2>5. FileTypes' /\ Others(i)
      BY <1>2, <1>3, <2>1, <2>3, <2>4, TypesAre DEF Others, Told
    <2>6. DiskPart'
      BY <2>1, <2>3, <2>5, OpensDisk DEF Opens
    <2>7. InstanceInv(i)'
      <3> USE <1>1, <1>2, <1>5, <2>1, <2>2, <2>3, <2>4, Numbers
          DEF Opens, SameFiles, Shut, Before, After, Choosing, InstanceInv
      <3>1. OpenAt(i)'
        BY DEF OpenAt
      <3>2. CallAt(i)'
        BY DEF CallAt
      <3>3. SizeAt(i)'
        BY DEF SizeAt
      <3>4. ActiveAt(i)'
        BY DEF ActiveAt
      <3>5. LinkedAt(i)'
        <4>1. Linked(dir', f[i].fd)
          BY LinkedLasts DEF LinkedAt
        <4>2. Linked(dir', Opened)
          BY DEF Linked
        <4> QED
          BY <4>1, <4>2 DEF LinkedAt
      <3>6. OrderAt(i)'
        <4>1. \A m \in mine[i] : m \in Stamps /\ dir'[m] = dir[m]
          BY DEF Typed
        <4>a. \A m, p \in mine[i] : m < p /\ dir[m] # None /\ dir[p] # None =>
                \A r \in fs.content[dir[m]], s \in fs.content[dir[p]] : r < s
          BY DEF OrderAt, Precedes
        <4>2. \A m, p \in mine'[i] : m < p /\ dir'[m] # None /\ dir'[p] # None =>
                Precedes(dir[m], dir[p])'
          BY <4>1, <4>a DEF Precedes
        <4>3. \A m \in mine'[i] : dir'[m] # None => Precedes(dir[m], dir[Active])'
          BY <4>1 DEF OrderAt, Precedes
        <4> QED
          BY <4>2, <4>3 DEF OrderAt, Precedes
      <3>7. DurableAt(i)'
        BY DurableLasts DEF DurableAt, Waiting, Settled
      <3> QED
        BY <3>1, <3>2, <3>3, <3>4, <3>5, <3>6, <3>7
    <2> QED
      BY <1>1, <1>2, <2>5, <2>6, <2>7, OneMoves
  <1> QED
    BY <1>4, <1>5 DEF OpenNew

\* The active file becomes archive n.
Archives(n) ==
    /\ SameFiles /\ fs'.count = fs.count /\ Lasting
    /\ dir'[n] = dir[Active] /\ dir'[Active] = None
    /\ \A m \in Stamps \ {n} : dir'[m] = dir[m]

\* Then no file loses its name, and none has two.
LEMMA ArchivesIs ==
    ASSUME FileInv, NEW n \in Stamps, dir[n] = None,
           fs' = [fs EXCEPT !.dirs = Append(@, [dir EXCEPT ![n] = dir[Active], ![Active] = None])],
           UNCHANGED <<rotation, next, confirmed, expired>>
    PROVE  Disk' /\ DiskPart' /\ Archives(n)
  <1>1. Disk /\ DiskPart
    BY DEF FileInv, FileTypes, Disk
  <1>2. dir \in Dirs /\ dir \in Directories
    BY <1>1, DirFacts
  <1> DEFINE D == [dir EXCEPT ![n] = dir[Active], ![Active] = None]
  <1>3. /\ D \in Directories /\ D[n] = dir[Active] /\ D[Active] = None
        /\ \A m \in Names \ {n, Active} : D[m] = dir[m]
    BY <1>2, Numbers DEF Directories
  <1> HIDE DEF D
  <1>4. Disk' /\ Grown(D) /\ SameFiles /\ fs'.count = fs.count
    BY <1>1, <1>3, ChangedIs DEF D
  <1>5. dir' = D /\ Dirs' = Dirs \cup {D}
    BY <1>4 DEF Grown
  <1>6. Renamed(D)
    BY <1>3, Numbers DEF Renamed
  <1>7. Lasting
    BY <1>3, <1>4, <1>6 DEF Lasting, SameFiles
  <1>8. DirInv'
    <2>1. DirInv
      BY <1>1 DEF DiskPart
    <2>2. ASSUME NEW m \in Names, D[m] # None
          PROVE  D[m] <= fs.count /\ \A p \in Names : D[p] = D[m] => p = m
      <3>1. \A p \in Names : dir[p] # None =>
              dir[p] <= fs.count /\ \A q \in Names : dir[q] = dir[p] => q = p
        BY <1>2, <2>1 DEF DirInv
      <3> QED
        BY <1>3, <2>2, <3>1, Numbers
    <2> QED
      BY <1>4, <1>5, <2>1, <2>2 DEF DirInv
  <1>9. FreshInv' /\ DiskInv' /\ LimitInv'
    BY <1>1, <1>4 DEF DiskPart, FreshInv, DiskInv, LimitInv, Limited, SameFiles
  <1>10. ConfirmedInv'
    BY <1>1, <1>7, DurableLasts DEF DiskPart, ConfirmedInv
  <1>11. Archives(n)
    BY <1>3, <1>4, <1>5, <1>7, Numbers DEF Archives
  <1> QED
    BY <1>4, <1>8, <1>9, <1>10, <1>11 DEF DiskPart

\* The active file is archived, the name is taken, or the call fails.
LEMMA RenameKeeps ==
    ASSUME FileInv, NEW i \in Instances, Rename(i)
    PROVE  FileInv'
  <1>1. /\ FileTypes /\ RestTypes /\ TellTypes /\ Disk /\ InstanceInv(i) /\ Typed(i) /\ lock = i
        /\ pc[i] = "rename" /\ next \in Nat /\ f[i] \in Files /\ f[i].fd \in Inodes
        /\ op[i] \in Operations /\ "archived" \in Steps /\ "rename" \in Steps
    BY Start DEF Rename, At, Shut, Steps
  <1>2. UNCHANGED <<lock, rotation, clock, crashes, next, controls>>
    BY DEF Rename, world, calls
  <1>3. /\ op[i].stamp \in Stamps /\ op[i].stamp > f[i].archive_time /\ op[i].stamp \in Nat
        /\ f[i].archive_time \in Nat
    BY <1>1 DEF InstanceInv, CallAt, Typed, Stamps
  <1>4. CASE ReturnError(i) /\ UNCHANGED <<fs, f, mine>>
    <2>1. Failed(i) /\ Told(i) /\ TellTypes'
      BY <1>1, <1>4, ErrorIs
    <2>2. Calm
      BY <1>1, <1>2, <1>4 DEF Calm, SameFiles, SameDirs, Dirs, dir
    <2>3. RestTypes'
      BY <1>1, <1>2, <1>4, FaultType DEF RestTypes, Disk, Rename
    <2>4. FileTypes' /\ Others(i) /\ SameFile(i)
      BY <1>4, <2>1, <2>3, TypesAre DEF Others, Told, SameFile
    <2> QED
      BY <1>1, <1>2, <2>1, <2>2, <2>4, FailKeeps DEF Shut
  <1>5. CASE /\ MoreNames(i) /\ op' = [op EXCEPT ![i].stamp = @ + 1, ![i].attempt = @ + 1]
             /\ UNCHANGED <<pc, told, fs, f, mine, faults>>
    <2> DEFINE o == [op[i] EXCEPT !.stamp = @ + 1, !.attempt = @ + 1]
    <2>1. op[i].stamp + 1 \in 0..MaxStamp /\ op[i].attempt + 1 \in 0..(Attempts - 1)
      BY <1>1, <1>5, BoundsAssumption DEF MoreNames, Stamps, Operations
    <2>2. /\ o \in Operations /\ o.kind = op[i].kind /\ o.candidate = op[i].candidate
          /\ o.stamp = op[i].stamp + 1 /\ o.write = op[i].write /\ o.size = op[i].size
      BY <1>1, <2>1 DEF Operations
    <2>3. op' = [op EXCEPT ![i] = o] /\ Go(i, "rename") /\ UNCHANGED told
      BY <1>1, <1>5 DEF TellTypes, Go
    <2> HIDE DEF o
    <2>4. /\ pc'[i] = "rename" /\ op'[i] = o /\ Told(i) /\ TellTypes'
          /\ UNCHANGED <<first_error, accepted, confirmed, expired>>
      BY <1>1, <2>2, <2>3, GoIs
    <2>5. FileTypes' /\ Others(i)
      BY <1>1, <1>2, <1>5, <2>4, TypesAre DEF Others, Told, RestTypes, Disk
    <2>6. DiskPart' /\ SameDirs
      BY <1>2, <1>5, <2>4, <2>5, CalmIs
    <2>7. InstanceInv(i)'
      <3> USE <1>1, <1>2, <1>3, <1>5, <2>2, <2>4, <2>6, Numbers
          DEF Shut, Before, After, Choosing, InstanceInv, SameDirs
      <3>1. OpenAt(i)'
        BY DEF OpenAt
      <3>2. CallAt(i)'
        BY DEF CallAt
      <3>3. SizeAt(i)'
        BY DEF SizeAt
      <3>4. ActiveAt(i)' /\ LinkedAt(i)'
        BY DEF ActiveAt, LinkedAt
      <3>5. OrderAt(i)'
        BY DEF OrderAt, Precedes
      <3>6. DurableAt(i)'
        BY DEF DurableAt, Durable, Found, Settled
      <3> QED
        BY <3>1, <3>2, <3>3, <3>4, <3>5, <3>6
    <2> QED
      BY <1>1, <1>2, <2>5, <2>6, <2>7, OneMoves
  <1>6. CASE /\ dir[op[i].stamp] = None
             /\ fs' = [fs EXCEPT !.dirs =
                         Append(@, [dir EXCEPT ![op[i].stamp] = dir[Active], ![Active] = None])]
             /\ f' = [f EXCEPT ![i].detached = TRUE, ![i].dir_dirty = TRUE,
                               ![i].archive_time = op[i].stamp]
             /\ mine' = [mine EXCEPT ![i] = @ \cup {op[i].stamp}]
             /\ Go(i, "archived")
             /\ UNCHANGED <<op, told, faults>>
    <2>1. op' = [op EXCEPT ![i] = op[i]]
      BY <1>1, <1>6 DEF TellTypes
    <2>2. /\ pc'[i] = "archived" /\ op'[i] = op[i] /\ Told(i) /\ TellTypes'
          /\ UNCHANGED <<first_error, accepted, confirmed, expired>>
      BY <1>1, <1>6, <2>1, GoIs
    <2> DEFINE n == op[i].stamp
    <2>3. Disk' /\ DiskPart' /\ Archives(n)
      BY <1>2, <1>3, <1>6, <2>2, ArchivesIs
    <2>4. /\ f' \in [Instances -> Files] /\ \A j \in Instances \ {i} : f'[j] = f[j]
          /\ f'[i].fd = f[i].fd /\ f'[i].current_size = f[i].current_size
          /\ f'[i].detached /\ f'[i].archive_time = n /\ f'[i].dir_dirty
      <3>1. n \in 0..MaxStamp
        BY <1>1 DEF Typed
      <3>2. f' = [f EXCEPT ![i] = [f[i] EXCEPT !.detached = TRUE, !.dir_dirty = TRUE,
                                               !.archive_time = n]]
        BY <1>1, <1>6 DEF RestTypes, Files
      <3> HIDE DEF n
      <3> QED
        BY <1>1, <3>1, <3>2 DEF RestTypes, Files
    <2>5. /\ mine' \in [Instances -> SUBSET Stamps] /\ mine'[i] = mine[i] \cup {n}
          /\ \A j \in Instances \ {i} : mine'[j] = mine[j]
      BY <1>1, <1>3, <1>6 DEF RestTypes
    <2>6. FileTypes' /\ Others(i)
      BY <1>1, <1>2, <1>6, <2>2, <2>3, <2>4, <2>5, TypesAre DEF Others, Told, RestTypes
    <2>7. InstanceInv(i)'
      <3> USE <1>1, <1>2, <1>3, <2>2, <2>3, <2>4, Numbers
          DEF Archives, SameFiles, Shut, Before, After, Choosing, InstanceInv
      <3>1. OpenAt(i)'
        BY DEF OpenAt
      <3>2. CallAt(i)'
        BY DEF CallAt
      <3>3. SizeAt(i)'
        BY DEF SizeAt
      <3>4. ActiveAt(i)'
        BY DEF ActiveAt
      <3>5. LinkedAt(i)'
        BY LinkedLasts DEF LinkedAt
      <3>6. OrderAt(i)'
        <4>1. /\ \A m \in mine[i] : m \in Stamps /\ m \in Nat /\ m < n /\ dir'[m] = dir[m]
              /\ \A m \in mine'[i] : m \in mine[i] \/ m = n
          <5>1. \A m \in mine[i] : m <= f[i].archive_time
            BY DEF OrderAt
          <5>2. mine[i] \subseteq Stamps /\ \A m \in mine[i] : m \in Nat
            BY DEF Typed
          <5>3. \A m \in mine[i] : m < n
            BY <5>1, <5>2
          <5>4. \A m \in mine'[i] : m \in mine[i] \/ m = n
            BY <2>5
          <5>5. \A m \in mine[i] : dir'[m] = dir[m]
            BY <5>2, <5>3
          <5> QED
            BY <5>2, <5>3, <5>4, <5>5
        <4>2. \A m, p \in mine'[i] : m < p /\ dir'[m] # None /\ dir'[p] # None =>
                \A r \in fs.content[dir'[m]], s \in fs.content[dir'[p]] : r < s
          <5>1. /\ \A m, p \in mine[i] : m < p /\ dir[m] # None /\ dir[p] # None =>
                     \A r \in fs.content[dir[m]], s \in fs.content[dir[p]] : r < s
                /\ \A m \in mine[i] : dir[m] # None /\ dir[Active] # None =>
                     \A r \in fs.content[dir[m]], s \in fs.content[dir[Active]] : r < s
            BY DEF OrderAt, Precedes
          <5> SUFFICES ASSUME NEW m \in mine'[i], NEW p \in mine'[i], m < p,
                              dir'[m] # None, dir'[p] # None
                       PROVE  \A r \in fs.content[dir'[m]], s \in fs.content[dir'[p]] : r < s
            OBVIOUS
          <5>2. m \in mine[i] /\ dir'[m] = dir[m]
            BY <4>1
          <5>3. p \in mine[i] \/ dir'[p] = dir[Active]
            BY <4>1
          <5> QED
            BY <4>1, <5>1, <5>2, <5>3
        <4>3. /\ \A k \in Inodes : \A r \in fs.content[k] : r < op[i].write
              /\ rotation.mode # "EXTERNAL"
          BY DEF OrderAt, CallAt
        <4>4. \A m \in mine'[i] : m <= f'[i].archive_time
          BY <4>1
        <4> QED
          BY <4>2, <4>3, <4>4 DEF OrderAt, Precedes
      <3>7. DurableAt(i)'
        BY DurableLasts DEF DurableAt, Settled
      <3> QED
        BY <3>1, <3>2, <3>3, <3>4, <3>5, <3>6, <3>7
    <2> QED
      BY <1>1, <1>2, <2>3, <2>6, <2>7, OneMoves
  <1> QED
    BY <1>4, <1>5, <1>6 DEF Rename

\* An external tool renames the active file: i writes on, to the archive.
LEMMA RenameExternallyKeeps ==
    ASSUME FileInv, RenameExternally
    PROVE  FileInv'
  <1>1. FileTypes /\ Disk /\ rotation.mode = "EXTERNAL"
    BY DEF FileInv, FileTypes, Disk, RenameExternally
  <1>2. UNCHANGED <<lock, f, pc, op, first_error, accepted, confirmed, expired, mine, rotation, clock,
                    crashes, next, controls, faults>>
    BY DEF RenameExternally, told, world, calls
  <1>3. PICK n \in Stamps : Disk' /\ DiskPart' /\ Archives(n)
    BY <1>2, ArchivesIs DEF RenameExternally
  <1>4. FileTypes'
    BY <1>1, <1>2, <1>3 DEF FileTypes, Disk
  <1>5. LockInv'
    BY <1>2 DEF FileInv, LockInv
  <1>6. ASSUME NEW i \in Instances PROVE InstanceInv(i)'
    <2> USE <1>1, <1>2, <1>3
      DEF Archives, SameFiles, Shut, Before, After, Choosing, InstanceInv, FileInv
    <2>1. OpenAt(i)'
      BY DEF OpenAt
    <2>2. CallAt(i)'
      BY DEF CallAt
    <2>3. SizeAt(i)'
      BY DEF SizeAt, Limited
    <2>4. ActiveAt(i)' /\ OrderAt(i)'
      BY DEF ActiveAt, OrderAt
    <2>5. LinkedAt(i)'
      <3>1. Choosing(i) => op[i].candidate # None
        BY Numbers DEF CallAt
      <3> QED
        BY <3>1, LinkedLasts DEF LinkedAt
    <2>6. DurableAt(i)'
      BY DurableLasts DEF DurableAt, Waiting
    <2> QED
      BY <2>1, <2>2, <2>3, <2>4, <2>5, <2>6
  <1> QED
    BY <1>3, <1>4, <1>5, <1>6 DEF FileInv

\* An expired archive is deleted: with it go only writes whose time is up.
LEMMA UnlinkKeeps ==
    ASSUME FileInv, NEW i \in Instances, Unlink(i)
    PROVE  FileInv'
  <1>1. /\ FileTypes /\ RestTypes /\ TellTypes /\ Disk /\ InstanceInv(i) /\ Typed(i) /\ lock = i
        /\ pc[i] = "retention" /\ next \in Nat /\ f[i].fd \in Inodes /\ DiskPart
        /\ op[i] \in Operations /\ dir \in Directories /\ dir \in Dirs
    BY Start DEF Unlink, At, Shut
  <1>2. UNCHANGED <<lock, f, pc, first_error, accepted, confirmed, mine, rotation, clock, crashes,
                    next, controls, faults>>
    BY DEF Unlink, world, calls
  <1>3. PICK n \in Stamps :
          /\ Expires(i, n)
          /\ fs' = [fs EXCEPT !.dirs = Append(@, [dir EXCEPT ![n] = None])]
          /\ expired' = expired \cup Aged(i, dir[n])
    BY DEF Unlink
  <1> DEFINE D == [dir EXCEPT ![n] = None]
             k == dir[n]
  <1>4. D \in Directories /\ D[n] = None /\ \A m \in Names \ {n} : D[m] = dir[m]
    BY <1>1, Numbers DEF Directories
  <1>5. k \in Inodes /\ k # f[i].fd /\ Aged(i, k) = fs.content[k]
    BY <1>1, <1>3, Numbers DEF Expires, Aged, Directories
  <1>6. expired' = expired \cup fs.content[k] /\ expired' \subseteq Writes
    BY <1>1, <1>3, <1>5, DiskFields DEF TellTypes
  <1> HIDE DEF D
  <1>7. Disk' /\ Grown(D) /\ SameFiles /\ fs'.count = fs.count
    BY <1>1, <1>3, <1>4, ChangedIs DEF D
  <1>8. dir' = D /\ Dirs' = Dirs \cup {D}
    BY <1>7 DEF Grown
  <1> DEFINE o == [op[i] EXCEPT !.changed = TRUE]
  <1>9. /\ o \in Operations /\ o.kind = op[i].kind /\ o.candidate = op[i].candidate
        /\ o.stamp = op[i].stamp /\ o.write = op[i].write /\ o.size = op[i].size
    BY <1>1 DEF Operations
  <1>10. op' = [op EXCEPT ![i] = o]
    BY <1>1 DEF Unlink, TellTypes
  <1> HIDE DEF o
  <1>11. /\ op' \in [Instances -> Operations] /\ op'[i] = o
         /\ \A j \in Instances \ {i} : op'[j] = op[j]
    BY <1>1, <1>9, <1>10 DEF TellTypes
  <1>12. FileTypes' /\ Others(i)
    BY <1>1, <1>2, <1>6, <1>7, <1>11, TypesAre DEF TellTypes, RestTypes, Others
  <1>13. ASSUME NEW r, r \notin expired', Durable(r) PROVE Durable(r)'
    <2>1. PICK m \in Names : dir[m] # None /\ r \in fs.synced[dir[m]]
      BY <1>1, <1>13 DEF Durable, Found
    <2>2. m # n
      BY <1>1, <1>5, <1>6, <1>13, <2>1 DEF DiskPart, DiskInv
    <2>3. Found(dir, r)'
      BY <1>4, <1>7, <1>8, <2>1, <2>2 DEF Found, SameFiles
    <2>4. \A E \in Dirs : Found(E, r)'
      BY <1>7, <1>13 DEF Durable, Found, SameFiles
    <2> QED
      BY <1>8, <2>3, <2>4 DEF Durable
  <1>14. DiskPart'
    <2>1. DirInv'
      <3>1. ASSUME NEW m \in Names, D[m] # None
            PROVE  D[m] <= fs.count /\ \A p \in Names : D[p] = D[m] => p = m
        <4>1. D[m] = dir[m] /\ m # n
          BY <1>4, <3>1
        <4>2. dir[m] <= fs.count /\ \A p \in Names : dir[p] = dir[m] => p = m
          BY <1>1, <3>1, <4>1 DEF DiskPart, DirInv
        <4> QED
          BY <1>4, <3>1, <4>1, <4>2
      <3> QED
        BY <1>1, <1>7, <1>8, <3>1 DEF DiskPart, DirInv
    <2>2. FreshInv' /\ DiskInv' /\ LimitInv'
      BY <1>1, <1>2, <1>7 DEF DiskPart, FreshInv, DiskInv, LimitInv, Limited, SameFiles
    <2>3. ConfirmedInv'
      BY <1>1, <1>2, <1>6, <1>13 DEF DiskPart, ConfirmedInv
    <2> QED
      BY <2>1, <2>2, <2>3 DEF DiskPart
  <1>15. InstanceInv(i)'
    <2> USE <1>1, <1>2, <1>7, <1>8, <1>9, <1>11, Numbers
        DEF SameFiles, Shut, Before, After, Choosing, InstanceInv
    <2>1. OpenAt(i)'
      BY DEF OpenAt
    <2>2. CallAt(i)'
      BY DEF CallAt
    <2>3. SizeAt(i)'
      BY DEF SizeAt
    <2>4. ActiveAt(i)'
      BY <1>4 DEF ActiveAt
    <2>5. LinkedAt(i)'
      <3>1. Linked(dir, f[i].fd) => Linked(D, f[i].fd)
        BY <1>4, <1>5 DEF Linked
      <3>2. Linked(dir, f[i].fd) /\ (~f[i].dir_dirty => \A E \in Dirs : Linked(E, f[i].fd))
        BY DEF LinkedAt
      <3> QED
        BY <3>1, <3>2 DEF LinkedAt
    <2>6. OrderAt(i)'
      <3>1. \A m \in Names : D[m] # None => D[m] = dir[m]
        BY <1>4
      <3>2. mine[i] \subseteq Names
        BY DEF Typed
      <3>3. \A m, p \in mine'[i] : m < p /\ dir'[m] # None /\ dir'[p] # None =>
              \A r \in fs.content[dir'[m]], s \in fs.content[dir'[p]] : r < s
        <4>1. \A m, p \in mine[i] : m < p /\ dir[m] # None /\ dir[p] # None =>
                \A r \in fs.content[dir[m]], s \in fs.content[dir[p]] : r < s
          BY DEF OrderAt, Precedes
        <4> QED
          BY <3>1, <3>2, <4>1
      <3>4. \A m \in mine'[i] : dir'[m] # None /\ dir'[Active] # None =>
              \A r \in fs.content[dir'[m]], s \in fs.content[dir'[Active]] : r < s
        BY <3>1, <3>2 DEF OrderAt, Precedes
      <3> QED
        BY <3>3, <3>4 DEF OrderAt, Precedes
    <2>7. DurableAt(i)'
      <3>1. ~first_error[i] => \A r \in accepted[i] \ expired : Durable(r) \/ r \in Waiting(i)
        BY DEF DurableAt
      <3>2. Waiting(i)' = Waiting(i)
        BY DEF Waiting
      <3>3. ~first_error[i] => \A r \in accepted[i] \ expired' : Durable(r)' \/ r \in Waiting(i)'
        BY <1>6, <1>13, <3>1, <3>2
      <3> QED
        BY <3>3 DEF DurableAt, Settled
    <2> QED
      BY <2>1, <2>2, <2>3, <2>4, <2>5, <2>6, <2>7
  <1> QED
    BY <1>1, <1>2, <1>12, <1>14, <1>15, OneMoves

\* The machine crashes: whatever directory and pages are on disk, confirmed
\* writes are among them.
LEMMA CrashKeeps ==
    ASSUME FileInv, Crash
    PROVE  FileInv'
  <1>1. FileTypes /\ Disk /\ DiskPart
    BY DEF FileInv, FileTypes, Disk
  <1>2. /\ lock' = None /\ f' = [i \in Instances |-> Empty] /\ pc' = [i \in Instances |-> "closed"]
        /\ op' = [i \in Instances |-> Idle] /\ first_error' = [i \in Instances |-> FALSE]
        /\ accepted' = [i \in Instances |-> {}] /\ mine' = [i \in Instances |-> {}]
        /\ UNCHANGED <<confirmed, expired, rotation, clock, next, controls, faults>>
        /\ crashes' \in 0..MaxCrashes
    BY <1>1, BoundsAssumption DEF Crash, calls, FileTypes
  <1>3. PICK d \in 1..Len(fs.dirs), extra \in SUBSET Unsynced :
          LET kept == [k \in Inodes |-> fs.synced[k] \cup (fs.content[k] \cap extra)]
          IN  fs' = [fs EXCEPT !.dirs = <<fs.dirs[d]>>, !.content = kept, !.synced = kept,
                               !.doomed = [k \in Inodes |-> {}]]
    BY DEF Crash
  <1> DEFINE kept == [k \in Inodes |-> fs.synced[k] \cup (fs.content[k] \cap extra)]
             D == fs.dirs[d]
             s == <<D>>
             lost == [k \in Inodes |-> {}]
  <1>4. D \in Dirs /\ D \in Directories
    BY <1>1, DirFacts DEF Dirs
  <1>5. /\ kept \in [Inodes -> SUBSET Writes] /\ lost \in [Inodes -> SUBSET Writes]
        /\ \A k \in Inodes : fs.synced[k] \subseteq kept[k] /\ kept[k] \subseteq fs.content[k]
        /\ \A k \in Inodes : lost[k] = {}
    BY <1>1, DiskFields DEF DiskPart, DiskInv
  <1> HIDE DEF D
  <1>6. s \in Seq(Directories) /\ Len(s) = 1 /\ s[1] = D
    BY <1>4
  <1>7. fs' = [fs EXCEPT !.dirs = s, !.content = kept, !.synced = kept, !.doomed = lost]
    BY <1>3 DEF D
  <1> HIDE DEF kept, s, lost
  <1>8. /\ fs' \in FileSystems /\ fs'.dirs = s /\ fs'.content = kept /\ fs'.synced = kept
        /\ fs'.doomed = lost /\ fs'.size = fs.size /\ fs'.appends = fs.appends
        /\ fs'.count = fs.count
    BY <1>1, <1>5, <1>6, <1>7 DEF Disk, FileSystems
  <1>9. Dirs' = {D} /\ fs'.dirs # << >>
    <2>1. Len(fs'.dirs) = 1 /\ fs'.dirs[1] = D
      BY <1>6, <1>8
    <2>2. fs'.dirs # << >>
      <3> SUFFICES ASSUME fs'.dirs = << >> PROVE FALSE
        OBVIOUS
      <3> QED
        BY <2>1
    <2> QED
      BY <2>1, <2>2 DEF Dirs
  <1>10. FileTypes'
    BY <1>1, <1>2, <1>8, <1>9, IdleType DEF FileTypes, Steps
  <1>11. DiskPart'
    <2>1. DirInv'
      BY <1>1, <1>4, <1>8, <1>9 DEF DiskPart, DirInv
    <2>2. FreshInv'
      BY <1>1, <1>5, <1>8 DEF DiskPart, FreshInv
    <2>3. DiskInv'
      BY <1>1, <1>2, <1>5, <1>8 DEF DiskPart, DiskInv
    <2>4. LimitInv'
      BY <1>1, <1>2, <1>8 DEF DiskPart, LimitInv, Limited
    <2>5. ConfirmedInv'
      <3> SUFFICES ASSUME NEW r \in confirmed \ expired
                   PROVE  \E n \in Names : D[n] # None /\ r \in fs'.synced[D[n]]
        BY <1>2, <1>9 DEF ConfirmedInv, Durable, Found
      <3>1. PICK n \in Names : D[n] # None /\ r \in fs.synced[D[n]]
        BY <1>1, <1>4 DEF DiskPart, ConfirmedInv, Durable, Found
      <3>2. D[n] \in Inodes
        BY <1>4, <3>1 DEF Directories
      <3> QED
        BY <1>5, <1>8, <3>1, <3>2
    <2> QED
      BY <2>1, <2>2, <2>3, <2>4, <2>5 DEF DiskPart
  <1>12. LockInv'
    BY <1>2 DEF LockInv
  <1>13. ASSUME NEW i \in Instances PROVE InstanceInv(i)'
    BY <1>2, ClosedHolds DEF Closed
  <1> QED
    BY <1>10, <1>11, <1>12, <1>13 DEF FileInv

-----------------------------------------------------------------------------
(* The invariant                                                           *)

\* It holds at first: no file, nobody has the lock.
LEMMA FileInvInit == Init => FileInv
  <1> SUFFICES ASSUME Init PROVE FileInv
    OBVIOUS
  <1> DEFINE D == [n \in Names |-> None]
             s == <<D>>
             none == [k \in Inodes |-> {}]
             zero == [k \in Inodes |-> 0]
  <1>1. /\ s \in Seq(Directories) /\ Len(s) = 1 /\ s[1] = D /\ s # << >>
        /\ none \in [Inodes -> SUBSET Writes] /\ zero \in [Inodes -> Nat]
    BY DEF Directories
  <1>a. \A n \in Names : D[n] = None
    OBVIOUS
  <1>b. \A k \in Inodes : none[k] = {} /\ zero[k] = 0
    OBVIOUS
  <1>2. fs = [dirs |-> s, count |-> 0, content |-> none, synced |-> none, doomed |-> none,
              size |-> zero, appends |-> zero, mtime |-> zero]
    BY DEF Init
  <1> HIDE DEF D, s, none, zero
  <1>3. /\ fs \in FileSystems /\ fs.dirs = s /\ fs.content = none /\ fs.synced = none
        /\ fs.doomed = none /\ fs.size = zero /\ fs.appends = zero /\ fs.count = 0
    BY <1>1, <1>2, BoundsAssumption DEF FileSystems
  <1>4. Dirs = {D}
    <2>1. Len(fs.dirs) = 1 /\ fs.dirs[1] = D
      BY <1>1, <1>3
    <2> QED
      BY <2>1 DEF Dirs
  <1>5. FileTypes
    BY <1>1, <1>3, IdleType, BoundsAssumption DEF FileTypes, Init, Steps
  <1>6. DiskPart
    <2>1. DirInv
      BY <1>a, <1>4 DEF DirInv
    <2>2. FreshInv /\ DiskInv /\ LimitInv
      <3>1. \A k \in Inodes : fs.appends[k] <= 1
        BY <1>b, <1>3
      <3> QED
        BY <1>b, <1>3, <3>1 DEF FreshInv, DiskInv, LimitInv
    <2>3. ConfirmedInv
      BY DEF ConfirmedInv, Init
    <2> QED
      BY <2>1, <2>2, <2>3 DEF DiskPart
  <1>7. LockInv
    BY DEF LockInv, Init
  <1>8. ASSUME NEW i \in Instances PROVE InstanceInv(i)
    <2>1. Closed(i)
      BY DEF Closed, Init
    <2> USE <2>1 DEF Closed, Empty, Idle, Shut, Before, After, Choosing
    <2>2. OpenAt(i) /\ CallAt(i) /\ SizeAt(i)
      BY DEF OpenAt, CallAt, SizeAt
    <2>3. ActiveAt(i) /\ LinkedAt(i) /\ OrderAt(i) /\ DurableAt(i)
      BY DEF ActiveAt, LinkedAt, OrderAt, DurableAt
    <2> QED
      BY <2>2, <2>3 DEF InstanceInv
  <1> QED
    BY <1>5, <1>6, <1>7, <1>8 DEF FileInv

\* Every step keeps it.
LEMMA FileInvStep == FileInv /\ [Next]_vars => FileInv'
  <1> SUFFICES ASSUME FileInv, [Next]_vars PROVE FileInv'
    OBVIOUS
  <1>1. ASSUME NEW i \in Instances, Step(i) \/ Kill(i)
        PROVE  FileInv'
    <2>1. CASE Reserve(i) \/ Open(i) \/ Close(i) \/ CloseLock(i) \/ Kill(i)
      BY <2>1, ReserveKeeps, OpenKeeps, CloseKeeps, CloseLockKeeps
    <2>2. CASE Flush(i) \/ SyncData(i) \/ SyncDirectory(i) \/ Write(i) \/ AppendWrite(i) \/ Reopen(i)
      BY <2>2, FlushKeeps, SyncDataKeeps, SyncDirectoryKeeps, WriteKeeps, AppendWriteKeeps,
         ReopenKeeps
    <2>3. CASE Rotate(i)
      BY <2>3, CheckActiveKeeps, RenameKeeps, SyncSwitchKeeps, OpenNewKeeps, SyncNewKeeps,
         InstallKeeps, UnlinkKeeps, RetentionEndKeeps, RetentionSyncKeeps DEF Rotate
    <2> QED
      BY <1>1, <2>1, <2>2, <2>3 DEF Step
  <1>2. CASE Tick \/ RenameExternally \/ Crash
    BY <1>2, TickKeeps, RenameExternallyKeeps, CrashKeeps
  <1>3. CASE UNCHANGED vars
    <2>1. UNCHANGED <<fs, lock, f, pc, op, first_error, accepted, confirmed, expired, mine, rotation,
                      clock, crashes, next, controls, faults>>
      BY <1>3 DEF vars, told, world, calls
    <2>2. FileTypes'
      BY <2>1 DEF FileInv, FileTypes
    <2> QED
      BY <2>1, <2>2, SameKeeps
  <1> QED
    BY <1>1, <1>2, <1>3 DEF Next

\* The invariant holds in every state the file output can reach, whichever calls
\* fail and wherever processes die or the machine stops.
THEOREM FileInvariant == Spec => []FileInv
  BY FileInvInit, FileInvStep, PTL DEF Spec

-----------------------------------------------------------------------------
(* What it says of the file output                                         *)

\* The variables keep to their types: no more than Attempts names are tried
\* (logger_file.c, rotate_impl), and no directory names a file that does not exist.
THEOREM FileTypesHold == Spec => []TypeOK
  <1>1. FileInv => TypeOK
    <2> SUFFICES ASSUME FileInv PROVE TypeOK
      OBVIOUS
    <2>1. FileTypes /\ Disk /\ DirInv
      BY DEF FileInv, FileTypes, Disk, DiskPart
    <2>2. \A d \in 1..Len(fs.dirs) : fs.dirs[d] \in [Names -> (1..fs.count) \cup {None}]
      <3> SUFFICES ASSUME NEW d \in 1..Len(fs.dirs)
                   PROVE  fs.dirs[d] \in [Names -> (1..fs.count) \cup {None}]
        OBVIOUS
      <3>1. fs.dirs[d] \in Dirs /\ fs.dirs[d] \in Directories
        BY <2>1, DirFacts DEF Dirs
      <3>2. ASSUME NEW n \in Names, fs.dirs[d][n] # None PROVE fs.dirs[d][n] \in 1..fs.count
        <4>1. fs.dirs[d][n] \in Inodes /\ fs.dirs[d][n] <= fs.count /\ fs.count \in Nat
          BY <2>1, <3>1, <3>2, DiskFields DEF Directories, DirInv
        <4> QED
          BY <4>1 DEF Inodes
      <3> QED
        BY <3>1, <3>2 DEF Directories
    <2>3. /\ \A field \in {"content", "synced", "doomed"} : fs[field] \in [Inodes -> SUBSET Writes]
          /\ \A field \in {"size", "appends", "mtime"} : fs[field] \in [Inodes -> Nat]
      BY <2>1, DiskFields
    <2> QED
      BY <2>1, <2>2, <2>3, DiskFields DEF TypeOK, FileTypes, Files, Operations
  <1> QED
    BY <1>1, FileInvariant, PTL

\* Two loggers never have the same file open: the data descriptor is closed
\* before the lock file (logger_file_close_status).
THEOREM OneWriterHolds == Spec => []OneWriter
  <1>1. FileInv => OneWriter
    <2> SUFFICES ASSUME FileInv, NEW i \in Instances, NEW j \in Instances,
                        f[i].fd # None, f[j].fd # None
                 PROVE  i = j
      BY DEF OneWriter
    <2>1. pc[i] # "closed" /\ pc[j] # "closed"
      BY DEF FileInv, InstanceInv, OpenAt, Shut
    <2> QED
      BY <2>1 DEF FileInv, LockInv
  <1> QED
    BY <1>1, FileInvariant, PTL

\* No write the caller was told is safe is lost by a crash, whatever the disk has
\* of the directory and of the pages (logger_file_sync, rotate_impl).
THEOREM ConfirmedWritesSurvive == Spec => []ConfirmedSurvives
  <1>1. FileInv => ConfirmedSurvives
    BY DEF FileInv, DiskPart, ConfirmedInv, Durable, Found, Dirs, ConfirmedSurvives
  <1> QED
    BY <1>1, FileInvariant, PTL

\* The archives of an instance, by name, and then the active file hold the
\* writes in their order, whatever the clock does (rotate_impl's stamp).
THEOREM ArchivesStayInOrder == Spec => []ArchivesInOrder
  <1>1. FileInv => ArchivesInOrder
    <2> SUFFICES ASSUME FileInv, NEW i \in Instances, NEW m \in mine[i],
                        NEW n \in mine[i] \cup {Active}, m < n \/ n = Active,
                        dir[m] # None, dir[n] # None
                 PROVE  \A r \in fs.content[dir[m]], s \in fs.content[dir[n]] : r < s
      BY DEF ArchivesInOrder
    <2>1. OrderAt(i)
      BY DEF FileInv, InstanceInv
    <2> QED
      BY <2>1 DEF OrderAt, Precedes
  <1> QED
    BY <1>1, FileInvariant, PTL

\* No file outgrows the limit by more than one write, and an idle instance has
\* its file's size right, after torn writes too (prepare_write, account).
THEOREM SizesAreBounded == Spec => []SizeBounded
  <1>1. FileInv => SizeBounded
    <2> SUFFICES ASSUME FileInv PROVE SizeBounded
      OBVIOUS
    <2>1. LimitInv /\ \A i \in Instances : OpenAt(i) /\ SizeAt(i)
      BY DEF FileInv, DiskPart, InstanceInv
    <2> QED
      BY <2>1 DEF LimitInv, Limited, OpenAt, SizeAt, Shut, SizeBounded
  <1> QED
    BY <1>1, FileInvariant, PTL

\* A step that appends does so to the file under the active name, unless an
\* external tool renamed it; no other step changes the size of a file.
LEMMA SealedStep ==
    ASSUME FileInv, [Next]_vars, rotation.mode # "EXTERNAL", NEW n \in Stamps, dir[n] # None
    PROVE  fs'.size[dir[n]] = fs.size[dir[n]]
  <1>1. Disk /\ DirInv /\ fs.size \in [Inodes -> Nat] /\ dir \in Dirs /\ dir \in Directories
    <2>1. Disk /\ DirInv
      BY DEF FileInv, FileTypes, Disk, DiskPart
    <2> QED
      BY <2>1, DiskFields, DirFacts
  <1>2. ASSUME NEW i \in Instances, AppendWrite(i)
        PROVE  fs'.size[dir[n]] = fs.size[dir[n]]
    <2>1. /\ InstanceInv(i) /\ Typed(i) /\ f[i].fd \in Inodes /\ pc[i] = "append" /\ clock \in Nat
      BY <1>2, Start DEF AppendWrite, At, Shut, RestTypes
    <2>2. op[i].write \in Writes /\ ~f[i].detached /\ op[i].size \in Nat
      BY <2>1 DEF InstanceInv, CallAt, Typed
    <2>3. PICK b \in 0..op[i].size : fs' = Appended(i, f[i].fd, b)
      BY <1>2 DEF AppendWrite
    <2>4. b \in Nat
      BY <2>2
    <2>5. fs'.size = [fs.size EXCEPT ![f[i].fd] = @ + b]
      <3>1. Disk
        BY <1>1
      <3>2. /\ Disk' /\ SameDirs /\ fs'.count = fs.count
            /\ fs'.synced = fs.synced /\ fs'.doomed = fs.doomed
            /\ fs'.size = [fs.size EXCEPT ![f[i].fd] = @ + b]
            /\ fs'.appends = [fs.appends EXCEPT ![f[i].fd] = IF b = 0 THEN @ ELSE @ + 1]
            /\ fs'.content = [fs.content EXCEPT ![f[i].fd] =
                                IF b # 0 /\ b = op[i].size THEN @ \cup {op[i].write} ELSE @]
        BY <2>1, <2>2, <2>3, <2>4, <3>1, AppendedIs
      <3> QED
        BY <3>2
    <2>6. dir[Active] = f[i].fd
      BY <2>1, <2>2, Numbers DEF InstanceInv, ActiveAt
    <2>7. dir[n] # dir[Active] /\ dir[n] \in Inodes
      BY <1>1, Numbers DEF DirInv, Directories
    <2> QED
      BY <1>1, <2>5, <2>6, <2>7
  <1>3. ASSUME fs'.size = fs.size
        PROVE  fs'.size[dir[n]] = fs.size[dir[n]]
    BY <1>3
  <1>4. ASSUME NEW i \in Instances, Step(i) \/ Kill(i), ~AppendWrite(i)
        PROVE  fs'.size = fs.size
    <2>0. fs \in FileSystems
      BY <1>1 DEF Disk
    <2>1. fs' = fs \/ fs' = AfterOpen => fs'.size = fs.size
      BY <2>0 DEF AfterOpen, FileSystems
    <2>2. \A k : fs' = Synced(k) \/ fs' = SyncLost(k) => fs'.size = fs.size
      BY <2>0 DEF Synced, SyncLost, FileSystems
    <2>3. fs' = DirSynced => fs'.size = fs.size
      BY <2>0 DEF DirSynced, FileSystems
    <2>4. \A s : fs' = [fs EXCEPT !.dirs = s] => fs'.size = fs.size
      BY <2>0 DEF FileSystems
    <2>5. CASE Reserve(i) \/ Open(i) \/ Close(i) \/ CloseLock(i) \/ Kill(i) \/ Flush(i) \/ Write(i)
      BY <2>1, <2>5 DEF Reserve, Open, OpenFails, Close, CloseLock, Kill, Flush, Write
    <2>6. CASE SyncData(i) \/ SyncDirectory(i) \/ Reopen(i)
      BY <2>1, <2>2, <2>3, <2>6 DEF SyncData, SyncDirectory, Reopen, OpenFails
    <2>7. CASE Rotate(i)
      <3>1. CASE Rename(i) \/ Unlink(i)
        BY <2>1, <2>4, <3>1 DEF Rename, Unlink
      <3>2. CASE CheckActive(i) \/ OpenNew(i) \/ SyncNew(i) \/ Install(i) \/ RetentionEnd(i)
        BY <2>1, <2>2, <3>2 DEF CheckActive, OpenNew, OpenFails, SyncNew, Install, RetentionEnd
      <3>3. CASE \/ SyncSwitch(i, "archived", "open_new") \/ SyncSwitch(i, "sync_new_dir", "install")
                 \/ RetentionSync(i)
        BY <2>1, <2>3, <3>3 DEF SyncSwitch, RetentionSync
      <3> QED
        BY <2>7, <3>1, <3>2, <3>3 DEF Rotate
    <2> QED
      BY <1>4, <2>5, <2>6, <2>7 DEF Step
  <1>5. CASE Tick \/ RenameExternally \/ Crash \/ UNCHANGED vars
    <2>0. fs \in FileSystems
      BY <1>1 DEF Disk
    <2>1. CASE Tick \/ RenameExternally \/ UNCHANGED vars
      BY <1>3, <2>1 DEF Tick, RenameExternally, vars
    <2>2. CASE Crash
      <3>1. PICK s, c, p : fs' = [fs EXCEPT !.dirs = s, !.content = c, !.synced = c, !.doomed = p]
        BY <2>2 DEF Crash
      <3>2. fs'.size = fs.size
        BY <2>0, <3>1 DEF FileSystems
      <3> QED
        BY <1>3, <3>2
    <2> QED
      BY <1>5, <2>1, <2>2
  <1> QED
    BY <1>2, <1>3, <1>4, <1>5 DEF Next

\* An archive is never appended to, not even after a rotation that failed
\* halfway: a detached file refuses writes (logger_file_write).
THEOREM ArchivesStaySealed == Spec => ArchivesAreSealed
  <1>1. FileInv /\ [Next]_vars =>
          [ rotation.mode # "EXTERNAL" =>
              \A n \in Stamps : dir[n] # None => fs'.size[dir[n]] = fs.size[dir[n]] ]_vars
    BY SealedStep
  <1> QED
    BY <1>1, FileInvariant, PTL DEF Spec, ArchivesAreSealed

==============================================================================
