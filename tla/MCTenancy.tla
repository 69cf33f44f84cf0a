------------------------------ MODULE MCTenancy ------------------------------
(* Instantiates Tenancy for TLC: two tenants, one of them with an upper-case   *)
(* ID, and requests that carry names in every field.                           *)
EXTENDS Tenancy, TLC

MCNames == {"t1", "acme", "T2", "t2", "shop"}
MCLower == [n \in MCNames |-> IF n = "T2" THEN "t2" ELSE n]
MCTenants == {"one", "two"}
MCId == ("one" :> "t1") @@ ("two" :> "T2")
MCSlug == ("one" :> "acme") @@ ("two" :> "t2")

In(path, query, header, host, auth) ==
  [f \in Fields |-> CASE f = "path" -> path [] f = "query" -> query [] f = "header" -> header
                      [] f = "host" -> host [] f = "auth" -> auth]

MCInputs == {In("t1", "", "T2", "shop", ""), In("", "T2", "acme", "", ""), In("", "", "t1", "", "T2"),
             In("", "", "", "shop", "")}
MCSetTenants == {"T2", "shop"}

Symmetry == Permutations(Requests)
=============================================================================
