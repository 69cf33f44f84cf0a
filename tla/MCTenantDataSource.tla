-------------------------- MODULE MCTenantDataSource --------------------------
(* Two callers and two tenants.  The tenants have distinct names; or the slug   *)
(* of the second is the ID of the first; or that of the first is both names of  *)
(* the second.                                                                  *)
EXTENDS TenantDataSource, TLC

CONSTANTS t1, t2, a, b, c

Named(k1, s1, k2, s2) ==
  [t \in {t1, t2} |-> IF t = t1 THEN [id |-> k1, slug |-> s1] ELSE [id |-> k2, slug |-> s2]]

DistinctNames == {Named(a, b, c, c)}
CollidingNames == {Named(a, b, c, a), Named(a, b, b, b)}

\* The callers are interchangeable and no liveness is checked.
CallerSymmetry == Permutations(Callers)
=============================================================================
