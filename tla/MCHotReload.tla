------------------------------ MODULE MCHotReload ------------------------------
(* Small instances of HotReload for TLC; the callers are interchangeable, and   *)
(* so are the models.                                                           *)
EXTENDS HotReload

CallerAndModelSymmetry == Permutations(Callers) \cup Permutations(Models)
================================================================================
