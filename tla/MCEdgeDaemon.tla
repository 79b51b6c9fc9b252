----------------------------- MODULE MCEdgeDaemon -----------------------------
(* Small instances of EdgeDaemon for TLC.                                     *)
EXTENDS EdgeDaemon
===============================================================================
