------------------------------ MODULE MCTokens ------------------------------
(* Instance of Tokens for TLC: two instances, the clock of one is a unit ahead. *)
EXTENDS Tokens, TLC

CONSTANTS i1, i2, rsa, s1, s2

\* A pair of keys and a secret, the secret alone, another secret, and no key.
SomeConfigs == {[private |-> rsa, public |-> rsa, secret |-> s1],
                [private |-> None, public |-> rsa, secret |-> s1],
                [private |-> None, public |-> None, secret |-> s2],
                [private |-> rsa, public |-> None, secret |-> s1]}
Ahead == (i1 :> 0) @@ (i2 :> 1)
Symmetry == Permutations(Permissions)
==============================================================================
