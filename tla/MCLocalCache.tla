---------------------------- MODULE MCLocalCache ----------------------------
(* Instance of LocalCache for TLC: two goroutines, which are alike. *)
EXTENDS LocalCache, TLC

Symmetry == Permutations(Procs)
==============================================================================
