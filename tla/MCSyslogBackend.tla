--------------------------- MODULE MCSyslogBackend ---------------------------
(* A small instance of SyslogBackend for TLC.                              *)
EXTENDS SyslogBackend
==============================================================================
