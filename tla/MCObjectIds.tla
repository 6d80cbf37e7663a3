----------------------------- MODULE MCObjectIds -----------------------------
(* An instance of ObjectIds for TLC. *)
EXTENDS ObjectIds, TLC

Symmetric == Permutations(Processes) \cup Permutations(Threads)
=============================================================================
