-------------------------- MODULE MCCentralRuntime --------------------------
(* Small instances of CentralRuntime for TLC.                                *)
EXTENDS CentralRuntime

\* two users, each in the partition of a worker of its own
MCUserOf == [e \in Events |-> IF e \in {"a1", "a2", "a3"} THEN "alice" ELSE "bob"]
MCPartition == [u \in Users |-> IF u = "alice" THEN 0 ELSE 1]
=============================================================================
