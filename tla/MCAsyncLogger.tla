---------------------------- MODULE MCAsyncLogger ----------------------------
(* Small instances of AsyncLogger for TLC.                                 *)
EXTENDS AsyncLogger, TLC

Symmetric == Permutations(Producers) \cup Permutations(Flushers)

\* Failures after which every mutex is still known to be free or held.
Clean == {f \in Faults : f[1] # "unlock"}
\* Releases of a mutex that fail.
EmitUnlock == {<<"unlock", "emit_mu">>}
ProgressUnlock == {<<"unlock", "progress_mu">>}
\* The worker cannot take wait_mu, and then cannot release progress_mu.
WorkerFails == {<<"lock", "wait_mu">>, <<"unlock", "progress_mu">>}
==============================================================================
