---------------------------- MODULE MCQueueWakeup ----------------------------
(* Small instances of QueueWakeup for TLC.                                 *)
EXTENDS QueueWakeup, TLC

\* Producers differ in nothing but their name.
Symmetric == Permutations(Producers)
==============================================================================
