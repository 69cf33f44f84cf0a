----------------------------- MODULE MCSchemaPool -----------------------------
(* Instantiates SchemaPool for TLC.  Goroutines and pools are interchangeable   *)
(* and no liveness is checked.                                                   *)
EXTENDS SchemaPool, TLC

PoolSymmetry == Permutations(Goroutines) \cup Permutations(Pools)
=============================================================================
