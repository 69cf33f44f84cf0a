----------------------------- MODULE MCJobQueue -----------------------------
(* Instance of JobQueue for TLC: two requests and two keys, alike. *)
EXTENDS JobQueue, TLC

Symmetry == Permutations(Requests) \union Permutations(Keys)
==============================================================================
