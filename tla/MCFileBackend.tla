---------------------------- MODULE MCFileBackend ----------------------------
(* Small instances of FileBackend for TLC.                                 *)
EXTENDS FileBackend, TLC

Symmetric == Permutations(Instances)

Rotation(mode, size, age) == [mode |-> mode, max_file_size |-> size, retention |-> age]

\* The logger rotates by size and by day and deletes old archives; or every
\* second write rotates; or a tool rotates.
EveryPolicy == {Rotation("SIZE_DAILY", 4, 1), Rotation("SIZE", 2, 0), Rotation("EXTERNAL", 0, 0)}

\* What each policy is explored with.  A tool needs a reopen and the flush that
\* follows it and no clock; rotation by day the clock and one flush, reopen or
\* close; rotation by size alone enough writes to use up the archive names.
Explored ==
    CASE rotation.mode = "EXTERNAL" -> next <= 3 /\ clock = 1
      [] rotation.mode = "SIZE" -> controls = 0
      [] OTHER -> next <= 4 /\ controls <= 1
==============================================================================
