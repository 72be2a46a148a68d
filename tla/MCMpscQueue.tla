----------------------------- MODULE MCMpscQueue -----------------------------
(* Small instances of MpscQueue for TLC.                                   *)
EXTENDS MpscQueue, TLC

\* Producers differ in nothing but their name.
Symmetric == Permutations(Producers)
==============================================================================
