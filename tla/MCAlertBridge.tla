---- MODULE MCAlertBridge ----
(* Small instances of AlertBridge for TLC. *)
EXTENDS AlertBridge
====
