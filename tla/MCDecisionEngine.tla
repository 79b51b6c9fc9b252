---- MODULE MCDecisionEngine ----
(* Small instances of DecisionEngine for TLC. *)
EXTENDS DecisionEngine
====
