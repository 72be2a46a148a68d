--------------------------- MODULE MCProcessDomain ---------------------------
(* A small instance of ProcessDomain for TLC.                              *)
EXTENDS ProcessDomain
==============================================================================
