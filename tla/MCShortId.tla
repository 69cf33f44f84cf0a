------------------------------ MODULE MCShortId ------------------------------
(* Instantiates ShortId for TLC: two digits of base 6 and two bits of counter, *)
(* so that identifiers repeat after 3^2 milliseconds as those of the code do   *)
(* after 3^16.  No liveness is checked and the goroutines are interchangeable. *)
EXTENDS ShortId, TLC

CallerSymmetry == Permutations(Callers)
=============================================================================
