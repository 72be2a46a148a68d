--------------------------- MODULE MCGlobalBinding ---------------------------
(* The instance of GlobalBinding for TLC.                                  *)
EXTENDS GlobalBinding, TLC
==============================================================================
