------------------------ MODULE TenantDataSource_proof ------------------------
(* Proofs about TenantDataSource, for any callers, tenants, keys and namings: in *)
(* particular for names that collide.                                            *)
EXTENDS TenantDataSource, FiniteSetTheorems, SequenceTheorems, TLAPS

Connecting(t) == {g \in Goroutines : pc[g] = "connect" /\ cur[g] = t}
Storing(t) == {g \in Goroutines : pc[g] = "storeId" /\ cur[g] = t}
PoolsOf(t) == {i \in DOMAIN pools : pools[i] = t}
FailedOf(t) == {i \in DOMAIN failed : failed[i] = t}

-------------------------------------------------------------------------------
(* The inductive invariants, as named parts. *)

\* initTenant is about a tenant; between connect and the end of it the pool in hand is one
\* that was opened for this tenant.  A result is there when the call is over.
HandInv ==
  \A g \in Goroutines :
    /\ pc[g] \in {"connect", "storeId", "storeSlug"} => cur[g] \in Tenants
    /\ pc[g] \in {"storeId", "storeSlug"} => cnx[g] # 0 /\ pools[cnx[g]] = cur[g]
    /\ result[g] # "none" => pc[g] = "done"
    /\ result[g] = "cnx" => cnx[g] # 0

\* What Load returned is still to be done, in hand, or registered.
LoadedInv ==
  \A g \in Goroutines :
    /\ pc[g] \in {"boot", "idle", "lookup", "load"} => loaded[g] = {}
    /\ pc[g] \in {"each", "connect", "storeId", "storeSlug", "relookup"} =>
         \A t \in loaded[g] :
           \/ t \in todo[g] /\ pc[g] # "relookup"
           \/ t = cur[g] /\ pc[g] \in {"connect", "storeId"}
           \/ tenants[Id(t)] # 0

\* A call that found its key when it began ends with the first look at the map.
SeenInv ==
  \A g \in Goroutines : seen[g] =>
    /\ pc[g] \in {"lookup", "done"}
    /\ pc[g] = "lookup" => tenants[key[g]] # 0
    /\ pc[g] = "done" => result[g] = "cnx"

\* The data source is called once Init is over.
StartInv ==
  /\ \A g \in Goroutines : op[g] = "init" <=> g = Main
  /\ IF started THEN pc[Main] = "done" ELSE \A g \in Callers : pc[g] = "idle"

\* Failed attempts apart, the pools of a tenant are in hand as long as it has no entry; then
\* none is opened any more but by those who have looked before.
PoolInv ==
  \A t \in Tenants :
    /\ IsFiniteSet(PoolsOf(t)) /\ IsFiniteSet(FailedOf(t))
    /\ tenants[Id(t)] = 0 =>
         Cardinality(PoolsOf(t)) <= Cardinality(Storing(t)) + Cardinality(FailedOf(t))
    /\ tenants[Id(t)] # 0 =>
         Cardinality(PoolsOf(t)) + Cardinality(Connecting(t)) <= Cardinality(Callers) + Cardinality(FailedOf(t))

-------------------------------------------------------------------------------
(* The variables keep their types: what the map and the goroutines point to is a pool that was opened. *)
THEOREM Typing == Spec => []TypeOK
<1>1. Init => TypeOK
  <2> SUFFICES ASSUME Init PROVE TypeOK
    OBVIOUS
  <2>1. pools = <<>> /\ Len(pools) = 0 /\ 0 \in 0..Len(pools)
    BY DEF Init
  <2>2. tenants \in [Keys -> 0..Len(pools)] /\ cnx \in [Goroutines -> 0..Len(pools)] /\ pools \in Seq(Owners)
    BY <2>1 DEF Init
  <2>3. DefaultKey \in Keys /\ Shared \in Owners
    BY DataSourceAssumption DEF Owners
  <2> QED BY <2>2, <2>3 DEF Init, TypeOK
<1>2. TypeOK /\ [Next]_vars => TypeOK'
  <2> SUFFICES ASSUME TypeOK, [Next]_vars PROVE TypeOK'
    OBVIOUS
  <2>0. Callers \subseteq Goroutines /\ DefaultKey \in Keys /\ Shared \in Owners /\ Tenants \subseteq Owners
    BY DataSourceAssumption DEF Goroutines, Owners
  <2>1. /\ Len(pools) \in Nat /\ 0 \in 0..Len(pools)
        /\ \A k \in Keys : tenants[k] \in 0..Len(pools)
        /\ \A g \in Goroutines : cnx[g] \in 0..Len(pools) /\ cur[g] \in Owners
    BY DEF TypeOK
  <2>2. ASSUME NEW o \in Owners, pools' = Append(pools, o)
        PROVE  /\ pools' \in Seq(Owners) /\ Len(pools') = Len(pools) + 1
               /\ 0..Len(pools) \subseteq 0..Len(pools') /\ Len(pools) + 1 \in 0..Len(pools')
               /\ tenants \in [Keys -> 0..Len(pools')] /\ cnx \in [Goroutines -> 0..Len(pools')]
    <3>1. pools' \in Seq(Owners) /\ Len(pools') = Len(pools) + 1
      BY <2>2 DEF TypeOK
    <3>2. 0..Len(pools) \subseteq 0..Len(pools') /\ Len(pools) + 1 \in 0..Len(pools')
      BY <3>1, <2>1
    <3> QED BY <3>1, <3>2 DEF TypeOK
  <2>3. ASSUME NEW g \in Goroutines, InitDefault(g) PROVE TypeOK'
    <3>1. CASE pools' = Append(pools, Shared) /\ tenants' = [tenants EXCEPT ![DefaultKey] = Len(pools) + 1]
      <4>1. tenants' \in [Keys -> 0..Len(pools')] /\ cnx' \in [Goroutines -> 0..Len(pools')] /\ pools' \in Seq(Owners)
        BY <3>1, <2>0, <2>2, <2>3 DEF InitDefault
      <4> QED BY <4>1, <2>3 DEF InitDefault, Goto, Fail, End, TypeOK
    <3>2. CASE UNCHANGED <<pools, tenants>>
      BY <3>2, <2>3 DEF InitDefault, Goto, Fail, End, TypeOK
    <3>3. CASE Fail(g, "boot") /\ pools' = Append(pools, Shared) /\ UNCHANGED tenants
      <4>1. tenants' \in [Keys -> 0..Len(pools')] /\ cnx' \in [Goroutines -> 0..Len(pools')] /\ pools' \in Seq(Owners)
        BY <3>3, <2>0, <2>2, <2>3 DEF InitDefault
      <4> QED BY <3>3, <4>1, <2>3 DEF InitDefault, Goto, Fail, End, TypeOK
    <3> QED BY <3>1, <3>2, <3>3, <2>3 DEF InitDefault, LeavesPool
  <2>4. ASSUME NEW g \in Goroutines, Load(g) PROVE TypeOK'
    BY <2>4 DEF Load, Goto, Fail, End, TypeOK
  <2>5. ASSUME NEW g \in Goroutines, CheckTenant(g) PROVE TypeOK'
    <3>1. PICK t \in Tenants : /\ todo' = [todo EXCEPT ![g] = @ \ {t}]
                               /\ \/ Goto(g, "each", "each") /\ UNCHANGED cur
                                  \/ Goto(g, "each", "connect") /\ cur' = [cur EXCEPT ![g] = t]
      BY <2>5 DEF CheckTenant, TypeOK
    <3>2. t \in Owners /\ todo' \in [Goroutines -> SUBSET Tenants]
      BY <3>1, <2>0 DEF TypeOK
    <3>3. cur' \in [Goroutines -> Owners]
      BY <3>1, <3>2 DEF TypeOK
    <3>4. pc' \in [Goroutines -> {"boot", "idle", "lookup", "load", "each", "connect",
                                  "storeId", "storeSlug", "relookup", "done"}]
      BY <3>1 DEF Goto, TypeOK
    <3> QED BY <3>2, <3>3, <3>4, <2>5 DEF CheckTenant, TypeOK
  <2>6. ASSUME NEW g \in Goroutines, Connect(g) PROVE TypeOK'
    <3>1. CASE /\ Goto(g, "connect", "storeId") /\ UNCHANGED <<failed, result>>
               /\ pools' = Append(pools, cur[g]) /\ cnx' = [cnx EXCEPT ![g] = Len(pools) + 1]
      <4>1. tenants' \in [Keys -> 0..Len(pools')] /\ cnx' \in [Goroutines -> 0..Len(pools')] /\ pools' \in Seq(Owners)
        BY <3>1, <2>1, <2>2, <2>6 DEF Connect
      <4> QED BY <3>1, <4>1, <2>6 DEF Connect, Goto, TypeOK
    <3>2. CASE Fail(g, "connect") /\ FailsFor(cur[g]) /\ LeavesPool(cur[g]) /\ UNCHANGED cnx
      <4>2. failed' \in Seq(Owners)
        BY <3>2, <2>1 DEF FailsFor, TypeOK
      <4>3. tenants' \in [Keys -> 0..Len(pools')] /\ cnx' \in [Goroutines -> 0..Len(pools')] /\ pools' \in Seq(Owners)
        BY <3>2, <2>1, <2>2, <2>6 DEF Connect, LeavesPool, TypeOK
      <4> QED BY <3>2, <4>2, <4>3, <2>6 DEF Connect, Goto, Fail, End, TypeOK
    <3> QED BY <3>1, <3>2, <2>6 DEF Connect
  <2>7. ASSUME NEW g \in Goroutines, StoreId(g) \/ StoreSlug(g) PROVE TypeOK'
    <3>1. tenants' \in [Keys -> 0..Len(pools')] /\ pools' \in Seq(Owners)
      BY <2>1, <2>7 DEF StoreId, StoreSlug, TypeOK
    <3>2. cnx' \in [Goroutines -> 0..Len(pools')]
      BY <2>1, <2>7 DEF StoreId, StoreSlug, TypeOK
    <3>3. cur' \in [Goroutines -> Owners]
      BY <2>0, <2>7 DEF StoreId, StoreSlug, TypeOK
    <3>4. pc' \in [Goroutines -> {"boot", "idle", "lookup", "load", "each", "connect",
                                  "storeId", "storeSlug", "relookup", "done"}]
      BY <2>7 DEF StoreId, StoreSlug, Goto, TypeOK
    <3> QED BY <3>1, <3>2, <3>3, <3>4, <2>7 DEF StoreId, StoreSlug, TypeOK
  <2>8. ASSUME NEW g \in Goroutines, InitDone(g) PROVE TypeOK'
    BY <2>8 DEF InitDone, End, Goto, TypeOK
  <2>9. ASSUME NEW g \in Goroutines, Lookup(g) \/ Relookup(g) PROVE TypeOK'
    <3>1. UNCHANGED pools /\ cnx' \in [Goroutines -> 0..Len(pools)]
      BY <2>1, <2>9 DEF Lookup, Relookup, Read, TypeOK
    <3>2. /\ pc' \in [Goroutines -> {"boot", "idle", "lookup", "load", "each", "connect",
                                     "storeId", "storeSlug", "relookup", "done"}]
          /\ result' \in [Goroutines -> {"none", "ok", "cnx", "nil", "err", "panic"}]
      BY <2>9 DEF Lookup, Relookup, Read, End, Goto, TypeOK
    <3> QED BY <3>1, <3>2, <2>9 DEF Lookup, Relookup, TypeOK
  <2>10. ASSUME NEW g \in Callers, NEW k \in Keys, CallConnection(g, k) PROVE TypeOK'
    BY <2>0, <2>10 DEF CallConnection, Goto, TypeOK
  <2>11. ASSUME NEW g \in Callers, Return(g) PROVE TypeOK'
    <3>1. UNCHANGED pools /\ cnx' \in [Goroutines -> 0..Len(pools)]
      BY <2>1, <2>11 DEF Return, TypeOK
    <3> QED BY <3>1, <2>0, <2>11 DEF Return, Goto, TypeOK
  <2>12. ASSUME NEW g \in Callers, NEW t \in Tenants, FireTenantCreated(g, t) PROVE TypeOK'
    BY <2>0, <2>12 DEF FireTenantCreated, Goto, TypeOK
  <2>13. ASSUME NEW t \in Tenants, CreateTenant(t) PROVE TypeOK'
    BY <2>13 DEF CreateTenant, locals, TypeOK
  <2>14. CASE MapRace
    BY <2>14 DEF MapRace, locals, TypeOK
  <2>15. CASE UNCHANGED vars
    BY <2>15 DEF vars, locals, TypeOK
  <2> QED BY <2>3, <2>4, <2>5, <2>6, <2>7, <2>8, <2>9, <2>10, <2>11, <2>12, <2>13, <2>14, <2>15 DEF Next, Step
<1> QED BY <1>1, <1>2, PTL DEF Spec

-------------------------------------------------------------------------------
(* Steps *)

\* The locals of a goroutine.
Same(h) ==
  /\ pc'[h] = pc[h] /\ op'[h] = op[h] /\ key'[h] = key[h] /\ seen'[h] = seen[h] /\ loaded'[h] = loaded[h]
  /\ todo'[h] = todo[h] /\ cur'[h] = cur[h] /\ cnx'[h] = cnx[h] /\ result'[h] = result[h]

Moves(h) ==
  \/ Step(h)
  \/ h \in Callers /\ \/ Return(h)
                      \/ \E k \in Keys : CallConnection(h, k)
                      \/ \E t \in Tenants : FireTenantCreated(h, t)

\* A step moves one goroutine at most.
LEMMA Others ==
  ASSUME TypeOK, [Next]_vars, NEW h \in Goroutines
  PROVE  Moves(h) \/ Same(h)
<1>0. Callers \subseteq Goroutines
  BY DEF Goroutines
<1>2. ASSUME NEW g \in Goroutines, g # h, InitDefault(g) \/ Load(g) \/ Connect(g) PROVE Same(h)
  BY <1>2 DEF InitDefault, Load, Connect, Fail, End, Goto, Same, TypeOK
<1>3. ASSUME NEW g \in Goroutines, g # h, CheckTenant(g) \/ StoreId(g) \/ StoreSlug(g) PROVE Same(h)
  BY <1>3 DEF CheckTenant, StoreId, StoreSlug, Goto, Same, TypeOK
<1>4. ASSUME NEW g \in Goroutines, g # h, InitDone(g) \/ Lookup(g) \/ Relookup(g) PROVE Same(h)
  BY <1>4 DEF InitDone, Lookup, Relookup, Read, End, Goto, Same, TypeOK
<1>5. ASSUME NEW g \in Callers, g # h, Return(g) PROVE Same(h)
  BY <1>0, <1>5 DEF Return, Goto, Same, TypeOK
<1>6. ASSUME NEW g \in Callers, g # h, NEW k \in Keys, CallConnection(g, k) PROVE Same(h)
  BY <1>0, <1>6 DEF CallConnection, Goto, Same, TypeOK
<1>7. ASSUME NEW g \in Callers, g # h, NEW t \in Tenants, FireTenantCreated(g, t) PROVE Same(h)
  BY <1>0, <1>7 DEF FireTenantCreated, Goto, Same, TypeOK
<1>8. CASE UNCHANGED locals
  BY <1>8 DEF locals, Same
<1>9. \/ UNCHANGED locals \/ \E g \in Goroutines : Step(g)
      \/ \E g \in Callers : Return(g) \/ (\E k \in Keys : CallConnection(g, k))
                            \/ \E t \in Tenants : FireTenantCreated(g, t)
  BY DEF Next, vars, CreateTenant, MapRace
<1>10. ASSUME NEW g \in Goroutines, Step(g), g # h PROVE Same(h)
  BY <1>2, <1>3, <1>4, <1>10 DEF Step
<1> QED BY <1>5, <1>6, <1>7, <1>8, <1>9, <1>10 DEF Moves

\* Names stay, pools are only added, and a key that leads somewhere goes on to.
Grows ==
  /\ naming' = naming
  /\ Len(pools') >= Len(pools) /\ \A i \in 1..Len(pools) : pools'[i] = pools[i]
  /\ \A k \in Keys : tenants[k] # 0 => tenants'[k] # 0

LEMMA Growing ==
  ASSUME TypeOK, HandInv, [Next]_vars
  PROVE  Grows
<1>0. /\ pools \in Seq(Owners) /\ Len(pools) \in Nat /\ tenants \in [Keys -> 0..Len(pools)]
      /\ Shared \in Owners /\ \A g \in Goroutines : cur[g] \in Owners
  BY DEF TypeOK, Owners
<1>1. ASSUME NEW o \in Owners, pools' = Append(pools, o)
      PROVE  Len(pools') >= Len(pools) /\ \A i \in 1..Len(pools) : pools'[i] = pools[i]
  BY <1>0, <1>1
<1>2. ASSUME NEW g \in Goroutines, InitDefault(g) PROVE Grows
  <2>1. CASE UNCHANGED <<pools, tenants>>
    BY <2>1, <1>0, <1>2 DEF InitDefault, Grows
  <2>2. CASE pools' = Append(pools, Shared) /\ tenants' = [tenants EXCEPT ![DefaultKey] = Len(pools) + 1]
    <3>1. \A k \in Keys : tenants[k] # 0 => tenants'[k] # 0
      BY <2>2, <1>0
    <3> QED BY <3>1, <2>2, <1>0, <1>1, <1>2 DEF InitDefault, Grows
  <2>3. CASE pools' = Append(pools, Shared) /\ UNCHANGED tenants
    BY <2>3, <1>0, <1>1, <1>2 DEF InitDefault, Grows
  <2> QED BY <2>1, <2>2, <2>3, <1>2 DEF InitDefault, LeavesPool
<1>3. ASSUME NEW g \in Goroutines, Connect(g) PROVE Grows
  <2>1. pools' = pools \/ pools' = Append(pools, cur[g])
    BY <1>3 DEF Connect, LeavesPool
  <2>2. naming' = naming /\ tenants' = tenants
    BY <1>3 DEF Connect
  <2> QED BY <2>1, <2>2, <1>0, <1>1 DEF Grows
<1>4. ASSUME NEW g \in Goroutines, StoreId(g) \/ StoreSlug(g) PROVE Grows
  <2>1. cnx[g] # 0
    BY <1>4 DEF StoreId, StoreSlug, Goto, HandInv
  <2>2. \A k \in Keys : tenants[k] # 0 => tenants'[k] # 0
    BY <1>0, <1>4, <2>1 DEF StoreId, StoreSlug
  <2> QED BY <1>0, <1>4, <2>2 DEF StoreId, StoreSlug, Grows
<1>5. CASE UNCHANGED <<naming, pools, tenants>>
  BY <1>0, <1>5 DEF Grows
<1>6. \/ UNCHANGED <<naming, pools, tenants>>
      \/ \E g \in Goroutines : InitDefault(g) \/ Connect(g) \/ StoreId(g) \/ StoreSlug(g)
  BY DEF Next, Step, vars, Load, CheckTenant, InitDone, Lookup, Relookup, Return, CallConnection,
         FireTenantCreated, CreateTenant, MapRace
<1> QED BY <1>2, <1>3, <1>4, <1>5, <1>6

-------------------------------------------------------------------------------
(* What initTenant has in hand was opened for the tenant it is about to register. *)
THEOREM Hands == Spec => []HandInv
<1>1. Init => HandInv
  BY DEF Init, HandInv
<1>2. TypeOK /\ HandInv /\ [Next]_vars => HandInv'
  <2> SUFFICES ASSUME TypeOK, HandInv, [Next]_vars, NEW g \in Goroutines
               PROVE  /\ pc'[g] \in {"connect", "storeId", "storeSlug"} => cur'[g] \in Tenants
                      /\ pc'[g] \in {"storeId", "storeSlug"} => cnx'[g] # 0 /\ pools'[cnx'[g]] = cur'[g]
                      /\ result'[g] # "none" => pc'[g] = "done"
                      /\ result'[g] = "cnx" => cnx'[g] # 0
    BY DEF HandInv
  <2> DEFINE Goal == /\ pc'[g] \in {"connect", "storeId", "storeSlug"} => cur'[g] \in Tenants
                     /\ pc'[g] \in {"storeId", "storeSlug"} => cnx'[g] # 0 /\ pools'[cnx'[g]] = cur'[g]
                     /\ result'[g] # "none" => pc'[g] = "done"
                     /\ result'[g] = "cnx" => cnx'[g] # 0
  <2>0. Grows /\ Len(pools) \in Nat /\ cnx[g] \in 0..Len(pools)
    BY Growing DEF TypeOK
  <2>1. CASE Same(g)
    <3>1. cnx[g] # 0 => pools'[cnx[g]] = pools[cnx[g]]
      BY <2>0 DEF Grows
    <3> QED BY <2>1, <3>1 DEF Same, HandInv
  <2>2. CASE InitDefault(g) \/ Load(g)
    BY <2>2 DEF InitDefault, Load, Fail, End, Goto, HandInv, TypeOK
  <2>3. CASE CheckTenant(g)
    BY <2>3 DEF CheckTenant, Goto, HandInv, TypeOK
  <2>4. CASE Connect(g)
    <3>1. CASE pools' = Append(pools, cur[g]) /\ cnx' = [cnx EXCEPT ![g] = Len(pools) + 1]
      <4>1. pools'[Len(pools) + 1] = cur[g] /\ cnx'[g] = Len(pools) + 1
        BY <3>1, <2>0 DEF TypeOK
      <4> QED BY <4>1, <2>0, <2>4 DEF Connect, Fail, End, Goto, HandInv, TypeOK
    <3>2. CASE Fail(g, "connect") /\ UNCHANGED cnx
      BY <3>2, <2>4 DEF Fail, End, Goto, HandInv, TypeOK
    <3> QED BY <3>1, <3>2, <2>4 DEF Connect
  <2>5. CASE StoreId(g) \/ StoreSlug(g)
    BY <2>5 DEF StoreId, StoreSlug, Goto, HandInv, TypeOK
  <2>6. CASE InitDone(g)
    BY <2>6 DEF InitDone, End, Goto, HandInv, TypeOK
  <2>7. CASE Lookup(g) \/ Relookup(g)
    BY <2>7 DEF Lookup, Relookup, Read, End, Goto, HandInv, TypeOK
  <2>8. CASE Return(g) \/ \E k \in Keys : CallConnection(g, k)
    BY <2>8 DEF Return, CallConnection, Goto, HandInv, TypeOK
  <2>9. ASSUME NEW t \in Tenants, FireTenantCreated(g, t) PROVE Goal
    BY <2>9 DEF FireTenantCreated, Goto, HandInv, TypeOK
  <2> QED BY <2>1, <2>2, <2>3, <2>4, <2>5, <2>6, <2>7, <2>8, <2>9, Others DEF Moves, Step
<1> QED BY <1>1, <1>2, Typing, PTL DEF Spec

(* Whatever races or collisions there are, a key leads to a database of a tenant that has it. *)
THEOREM Routes == Spec => []RoutesToClaimant
<1>1. Init => RoutesToClaimant
  BY DEF Init, RoutesToClaimant
<1>2. TypeOK /\ HandInv /\ RoutesToClaimant /\ [Next]_vars => RoutesToClaimant'
  <2> SUFFICES ASSUME TypeOK, HandInv, RoutesToClaimant, [Next]_vars PROVE RoutesToClaimant'
    OBVIOUS
  <2>0. /\ Grows /\ Len(pools) \in Nat /\ pools \in Seq(Owners) /\ Shared \notin Tenants /\ DefaultKey \in Keys
    BY Growing, DataSourceAssumption DEF TypeOK
  <2>1. ASSUME NEW k \in Keys, tenants'[k] # 0 PROVE Claims(pools'[tenants'[k]], k)
    <3>1. CASE tenants'[k] = tenants[k]
      <4>1. tenants[k] \in 1..Len(pools)
        BY <2>0, <2>1, <3>1 DEF TypeOK
      <4>2. pools'[tenants'[k]] = pools[tenants[k]]
        BY <3>1, <4>1, <2>0 DEF Grows
      <4> QED BY <4>2, <2>1, <3>1 DEF RoutesToClaimant
    <3>2. CASE tenants'[k] # tenants[k]
      <4>1. ASSUME NEW g \in Goroutines, InitDefault(g) PROVE Claims(pools'[tenants'[k]], k)
        <5>1. pools' = Append(pools, Shared) /\ tenants' = [tenants EXCEPT ![DefaultKey] = Len(pools) + 1]
          BY <4>1, <3>2 DEF InitDefault
        <5>2. k = DefaultKey /\ tenants'[k] = Len(pools) + 1
          BY <5>1, <3>2, <2>0 DEF TypeOK
        <5>3. pools'[Len(pools) + 1] = Shared
          BY <5>1, <2>0
        <5> QED BY <5>2, <5>3 DEF Claims
      <4>2. ASSUME NEW g \in Goroutines, StoreId(g) \/ StoreSlug(g) PROVE Claims(pools'[tenants'[k]], k)
        <5>1. cur[g] \in Tenants /\ pools[cnx[g]] = cur[g] /\ pools' = pools
          BY <4>2 DEF StoreId, StoreSlug, Goto, HandInv
        <5>2. k \in {Id(cur[g]), Slug(cur[g])} /\ tenants'[k] = cnx[g]
          BY <4>2, <3>2 DEF StoreId, StoreSlug, TypeOK
        <5> QED BY <5>1, <5>2, <2>0 DEF Claims
      <4>3. \E g \in Goroutines : InitDefault(g) \/ StoreId(g) \/ StoreSlug(g)
        BY <3>2 DEF Next, Step, vars, Load, CheckTenant, Connect, InitDone, Lookup, Relookup, Return,
             CallConnection, FireTenantCreated, CreateTenant, MapRace
      <4> QED BY <4>1, <4>2, <4>3
    <3> QED BY <3>1, <3>2
  <2>2. ASSUME NEW g \in Goroutines, result'[g] = "cnx" PROVE Claims(pools'[cnx'[g]], key'[g])
    <3>0. cnx[g] \in 0..Len(pools) /\ key[g] \in Keys /\ tenants[key[g]] \in 0..Len(pools)
      BY DEF TypeOK
    <3>1. CASE Same(g)
      <4>1. cnx[g] # 0 /\ Claims(pools[cnx[g]], key[g])
        BY <2>2, <3>1 DEF Same, HandInv, RoutesToClaimant
      <4>2. pools'[cnx[g]] = pools[cnx[g]]
        BY <4>1, <3>0, <2>0 DEF Grows
      <4> QED BY <4>1, <4>2, <3>1 DEF Same
    <3>2. CASE Read(g, pc[g]) /\ UNCHANGED <<pools, key>>
      BY <3>0, <3>2 DEF Read, RoutesToClaimant, TypeOK
    <3>3. CASE Lookup(g) \/ Relookup(g)
      <4>1. Read(g, pc[g])
        BY <3>3, <2>2 DEF Lookup, Relookup, Read, End, Goto, HandInv, TypeOK
      <4>2. UNCHANGED <<pools, key>>
        BY <3>3 DEF Lookup, Relookup
      <4> QED BY <4>1, <4>2, <3>2
    <3>4. ~(InitDefault(g) \/ Load(g) \/ CheckTenant(g) \/ Connect(g) \/ StoreId(g) \/ StoreSlug(g) \/ InitDone(g))
      <4>1. pc[g] # "done" => result[g] # "cnx"
        BY DEF HandInv
      <4> QED BY <4>1, <2>2 DEF InitDefault, Load, CheckTenant, Connect, StoreId, StoreSlug, InitDone,
                Fail, End, Goto, TypeOK
    <3>5. ~(g \in Callers /\ (Return(g) \/ (\E k \in Keys : CallConnection(g, k))
                              \/ \E t \in Tenants : FireTenantCreated(g, t)))
      <4>1. pc[g] # "done" => result[g] # "cnx"
        BY DEF HandInv
      <4> QED BY <4>1, <2>2 DEF Return, CallConnection, FireTenantCreated, Goto, TypeOK
    <3> QED BY <3>1, <3>3, <3>4, <3>5, Others DEF Moves, Step
  <2> QED BY <2>0, <2>1, <2>2 DEF RoutesToClaimant, Claims, Id, Slug, Grows
<1> QED BY <1>1, <1>2, Typing, Hands, PTL DEF Spec

(* What Load returned is never lost sight of. *)
THEOREM Loading == Spec => []LoadedInv
<1>1. Init => LoadedInv
  BY DEF Init, LoadedInv
<1>2. TypeOK /\ HandInv /\ LoadedInv /\ [Next]_vars => LoadedInv'
  <2> SUFFICES ASSUME TypeOK, HandInv, LoadedInv, [Next]_vars, NEW g \in Goroutines
               PROVE  /\ pc'[g] \in {"boot", "idle", "lookup", "load"} => loaded'[g] = {}
                      /\ pc'[g] \in {"each", "connect", "storeId", "storeSlug", "relookup"} =>
                           \A t \in loaded'[g] :
                             \/ t \in todo'[g] /\ pc'[g] # "relookup"
                             \/ t = cur'[g] /\ pc'[g] \in {"connect", "storeId"}
                             \/ tenants'[Id(t)'] # 0
    BY DEF LoadedInv, Id
  <2> DEFINE At(t) == \/ t \in todo[g] /\ pc[g] # "relookup"
                      \/ t = cur[g] /\ pc[g] \in {"connect", "storeId"}
                      \/ tenants[Id(t)] # 0
             Goal == /\ pc'[g] \in {"boot", "idle", "lookup", "load"} => loaded'[g] = {}
                     /\ pc'[g] \in {"each", "connect", "storeId", "storeSlug", "relookup"} =>
                          \A t \in loaded'[g] : At(t)'
  <2>0. \A t \in Tenants : Id(t) \in Keys /\ Id(t)' = Id(t) /\ (tenants[Id(t)] # 0 => tenants'[Id(t)'] # 0)
    BY Growing, DataSourceAssumption DEF TypeOK, Grows, Id
  <2>1. loaded[g] \subseteq Tenants
    BY DEF TypeOK
  <2>2. CASE Same(g)
    BY <2>0, <2>1, <2>2 DEF Same, LoadedInv
  <2>3. CASE InitDefault(g) \/ Load(g)
    BY <2>3 DEF InitDefault, Load, Fail, End, Goto, LoadedInv, TypeOK
  <2>4. CASE CheckTenant(g)
    BY <2>0, <2>1, <2>4 DEF CheckTenant, Goto, LoadedInv, TypeOK
  <2>5. CASE Connect(g)
    <3>0. /\ pc[g] = "connect" /\ UNCHANGED <<loaded, todo, cur>> /\ pc'[g] \in {"storeId", "done"}
      BY <2>5 DEF Connect, Fail, End, Goto, TypeOK
    <3>1. \A t \in loaded[g] : At(t)
      BY <3>0 DEF LoadedInv
    <3>2. ASSUME NEW t \in loaded[g], pc'[g] = "storeId"
          PROVE  t \in todo'[g] \/ t = cur'[g] \/ tenants'[Id(t)'] # 0
      BY <2>0, <2>1, <3>0, <3>1
    <3> QED BY <3>0, <3>2
  <2>6. CASE StoreId(g)
    <3>1. cur[g] \in Tenants /\ cnx[g] # 0
      BY <2>6 DEF StoreId, Goto, HandInv
    <3>2. tenants'[Id(cur[g])'] # 0
      BY <3>1, <2>0, <2>6 DEF StoreId, TypeOK
    <3> QED BY <3>2, <2>0, <2>1, <2>6 DEF StoreId, Goto, LoadedInv, TypeOK
  <2>7. CASE StoreSlug(g)
    BY <2>0, <2>1, <2>7 DEF StoreSlug, Goto, LoadedInv, TypeOK
  <2>8. CASE InitDone(g)
    <3>0. /\ pc[g] = "each" /\ todo[g] = {} /\ UNCHANGED <<loaded, todo, cur>> /\ pc'[g] \in {"relookup", "done"}
      BY <2>8 DEF InitDone, End, Goto, TypeOK
    <3>1. \A t \in loaded[g] : At(t)
      BY <3>0 DEF LoadedInv
    <3>2. ASSUME NEW t \in loaded[g] PROVE tenants'[Id(t)'] # 0
      BY <2>0, <2>1, <3>0, <3>1
    <3> QED BY <3>0, <3>2
  <2>9. CASE Lookup(g) \/ Relookup(g)
    BY <2>9 DEF Lookup, Relookup, Read, End, Goto, LoadedInv, TypeOK
  <2>10. CASE Return(g) \/ \E k \in Keys : CallConnection(g, k)
    BY <2>10 DEF Return, CallConnection, Goto, LoadedInv, TypeOK
  <2>11. ASSUME NEW t \in Tenants, FireTenantCreated(g, t) PROVE Goal
    BY <2>11 DEF FireTenantCreated, Goto, LoadedInv, TypeOK
  <2> QED BY <2>2, <2>3, <2>4, <2>5, <2>6, <2>7, <2>8, <2>9, <2>10, <2>11, Others DEF Moves, Step
<1> QED BY <1>1, <1>2, Typing, Hands, PTL DEF Spec

(* Every listed tenant is registered when Connection looks its key up again. *)
THEOREM AllRegistered == Spec => []InitRegistersAll
<1>1. TypeOK /\ HandInv /\ LoadedInv => InitRegistersAll
  BY DEF LoadedInv, InitRegistersAll
<1> QED BY <1>1, Typing, Hands, Loading, PTL

(* A call of Connection that found its key at the start finds it with its first look. *)
THEOREM Seen == Spec => []SeenInv
<1>1. Init => SeenInv
  BY DEF Init, SeenInv
<1>2. TypeOK /\ HandInv /\ SeenInv /\ [Next]_vars => SeenInv'
  <2> SUFFICES ASSUME TypeOK, HandInv, SeenInv, [Next]_vars, NEW g \in Goroutines, seen'[g]
               PROVE  /\ pc'[g] \in {"lookup", "done"}
                      /\ pc'[g] = "lookup" => tenants'[key'[g]] # 0
                      /\ pc'[g] = "done" => result'[g] = "cnx"
    BY DEF SeenInv
  <2>0. key[g] \in Keys /\ (tenants[key[g]] # 0 => tenants'[key[g]] # 0)
    BY Growing DEF TypeOK, Grows
  <2>1. CASE Same(g)
    BY <2>0, <2>1 DEF Same, SeenInv
  <2>2. CASE InitDefault(g) \/ Load(g) \/ CheckTenant(g) \/ Connect(g) \/ StoreId(g) \/ StoreSlug(g) \/ InitDone(g)
    BY <2>2 DEF InitDefault, Load, CheckTenant, Connect, StoreId, StoreSlug, InitDone, Goto, Fail, End, SeenInv
  <2>3. CASE Lookup(g) \/ Relookup(g)
    BY <2>3 DEF Lookup, Relookup, Read, End, Goto, SeenInv, TypeOK
  <2>4. CASE g \in Callers /\ Return(g)
    BY <2>4 DEF Return, TypeOK
  <2>5. ASSUME NEW k \in Keys, CallConnection(g, k)
        PROVE  pc'[g] = "lookup" /\ tenants'[key'[g]] # 0
    BY <2>5 DEF CallConnection, Goto, TypeOK
  <2>6. ASSUME NEW t \in Tenants, FireTenantCreated(g, t) PROVE FALSE
    BY <2>6 DEF FireTenantCreated, Goto, SeenInv
  <2> QED BY <2>1, <2>2, <2>3, <2>4, <2>5, <2>6, Others DEF Moves, Step
<1> QED BY <1>1, <1>2, Typing, Hands, PTL DEF Spec

(* RegisteredIsServed by itself: nobody who found his key in the map is turned away. *)
THEOREM Served == Spec => []RegisteredIsServed
<1>1. SeenInv => RegisteredIsServed
  BY DEF SeenInv, RegisteredIsServed
<1> QED BY <1>1, Seen, PTL

-------------------------------------------------------------------------------
(* Init of the data source is over before Connection or the listener runs. *)
THEOREM Starting == Spec => []StartInv
<1>0. Callers \subseteq Goroutines /\ Main \in Goroutines /\ Main \notin Callers
  BY DataSourceAssumption DEF Goroutines
<1>1. Init => StartInv
  BY <1>0 DEF Init, StartInv
<1>2. TypeOK /\ StartInv /\ [Next]_vars => StartInv'
  <2> SUFFICES ASSUME TypeOK, StartInv, [Next]_vars PROVE StartInv'
    OBVIOUS
  <2>1. ASSUME NEW g \in Goroutines PROVE op'[g] = "init" <=> g = Main
    <3>1. CASE Same(g)
      BY <3>1 DEF Same, StartInv
    <3>2. CASE Step(g)
      BY <3>2 DEF Step, InitDefault, Load, CheckTenant, Connect, StoreId, StoreSlug, InitDone, Lookup,
                  Relookup, StartInv
    <3>3. CASE g \in Callers /\ (Return(g) \/ (\E k \in Keys : CallConnection(g, k))
                                 \/ \E t \in Tenants : FireTenantCreated(g, t))
      BY <3>3, <1>0 DEF Return, CallConnection, FireTenantCreated, TypeOK
    <3> QED BY <3>1, <3>2, <3>3, Others DEF Moves
  <2>2. CASE started' = started
    <3>1. ASSUME started PROVE pc'[Main] = "done"
      <4>1. ~Step(Main)
        BY <3>1 DEF Step, InitDefault, Load, CheckTenant, Connect, StoreId, StoreSlug, InitDone, Lookup,
                    Relookup, Read, Fail, End, Goto, StartInv
      <4> QED BY <1>0, <3>1, <4>1, Others DEF Moves, Same, StartInv
    <3>2. ASSUME ~started, NEW g \in Callers PROVE pc'[g] = "idle"
      <4>1. ~Step(g)
        BY <3>2 DEF Step, InitDefault, Load, CheckTenant, Connect, StoreId, StoreSlug, InitDone, Lookup,
                    Relookup, Read, Fail, End, Goto, StartInv
      <4>2. ~(Return(g) \/ (\E k \in Keys : CallConnection(g, k)) \/ \E t \in Tenants : FireTenantCreated(g, t))
        BY <3>2 DEF Return, CallConnection, FireTenantCreated, Goto, StartInv
      <4> QED BY <1>0, <3>2, <4>1, <4>2, Others DEF Moves, Same, StartInv
    <3> QED BY <2>1, <2>2, <3>1, <3>2 DEF StartInv
  <2>3. CASE started' # started
    <3>1. PICK g \in Goroutines : InitDone(g)
      BY <2>3 DEF Next, Step, vars, InitDefault, Load, CheckTenant, Connect, StoreId, StoreSlug, Lookup, Relookup,
                  Return, CallConnection, FireTenantCreated, CreateTenant, MapRace
    <3>2. op[g] = "init" /\ started'
      BY <2>3, <3>1 DEF InitDone, TypeOK
    <3>3. g = Main
      BY <3>2 DEF StartInv
    <3>4. pc'[Main] = "done"
      BY <3>1, <3>2, <3>3 DEF InitDone, End, Goto, TypeOK
    <3> QED BY <2>1, <3>2, <3>4 DEF StartInv
  <2> QED BY <2>2, <2>3
<1> QED BY <1>1, <1>2, Typing, PTL DEF Spec

\* Not more than all callers are between the look at the map and the entry in it.
LEMMA Busy ==
  ASSUME StartInv, NEW t \in Tenants
  PROVE  /\ IsFiniteSet(Storing(t)) /\ IsFiniteSet(Connecting(t))
         /\ Cardinality(Storing(t)) \in Nat /\ Cardinality(Connecting(t)) \in Nat /\ Cardinality(Callers) \in Nat
         /\ Cardinality(Storing(t)) + Cardinality(Connecting(t)) <= Cardinality(Callers)
<1> DEFINE S == Storing(t)
           C == Connecting(t)
<1>1. IsFiniteSet(Callers) /\ Callers # {} /\ Cardinality(Callers) \in Nat
  BY DataSourceAssumption, FS_CardinalityType
<1>2. Cardinality(Callers) # 0
  BY <1>1, FS_EmptySet
<1>3. IsFiniteSet({Main}) /\ Cardinality({Main}) = 1
  BY FS_Singleton
<1>4. S \cap C = {}
  BY DEF Storing, Connecting
<1>5. PICK B \in {Callers, {Main}} : S \cup C \subseteq B
  BY DEF StartInv, Storing, Connecting, Goroutines
<1>6. IsFiniteSet(B) /\ Cardinality(B) <= Cardinality(Callers)
  BY <1>1, <1>2, <1>3
<1>7. IsFiniteSet(S) /\ IsFiniteSet(C) /\ IsFiniteSet(S \cup C) /\ Cardinality(S \cup C) <= Cardinality(B)
  BY <1>5, <1>6, FS_Subset
<1>8. Cardinality(S) \in Nat /\ Cardinality(C) \in Nat /\ Cardinality(B) \in Nat
  BY <1>6, <1>7, FS_CardinalityType
<1>9. Cardinality(S \cap C) = 0
  BY <1>4, FS_EmptySet
<1>10. Cardinality(S \cup C) = Cardinality(S) + Cardinality(C) - Cardinality(S \cap C)
  BY <1>7, FS_Union
<1> QED BY <1>1, <1>6, <1>7, <1>8, <1>9, <1>10

\* What a longer list says of one owner: one position more if it is his.
LEMMA Appended ==
  ASSUME NEW S, NEW s \in Seq(S), NEW y \in S, NEW x, NEW r, r = Append(s, y)
  PROVE  /\ y # x => {i \in DOMAIN r : r[i] = x} = {i \in DOMAIN s : s[i] = x}
         /\ y = x => /\ {i \in DOMAIN r : r[i] = x} = {i \in DOMAIN s : s[i] = x} \cup {Len(s) + 1}
                     /\ Len(s) + 1 \notin {i \in DOMAIN s : s[i] = x}
<1>1. r \in Seq(S) /\ Len(s) \in Nat /\ Len(r) = Len(s) + 1 /\ DOMAIN s = 1..Len(s) /\ DOMAIN r = 1..(Len(s) + 1)
  OBVIOUS
<1>2. (\A i \in 1..Len(s) : r[i] = s[i]) /\ r[Len(s) + 1] = y
  OBVIOUS
<1> QED BY <1>1, <1>2

(* Of a tenant, the pools opened and the calls about to open one are no more than the callers *)
(* and the attempts that failed.                                                              *)
THEOREM Pools == Spec => []PoolInv
<1>1. Init => PoolInv
  <2> SUFFICES ASSUME Init, NEW t \in Tenants
               PROVE  PoolsOf(t) = {} /\ FailedOf(t) = {} /\ Storing(t) = {} /\ tenants[Id(t)] = 0
    BY FS_EmptySet DEF PoolInv
  <2>1. Id(t) \in Keys
    BY DataSourceAssumption DEF Init, Id
  <2> QED BY <2>1 DEF Init, PoolsOf, FailedOf, Storing
<1>2. TypeOK /\ HandInv /\ StartInv /\ PoolInv /\ [Next]_vars => PoolInv'
  <2> SUFFICES ASSUME TypeOK, HandInv, StartInv, PoolInv, [Next]_vars, NEW t \in Tenants
               PROVE  (/\ IsFiniteSet(PoolsOf(t)) /\ IsFiniteSet(FailedOf(t))
                       /\ tenants[Id(t)] = 0 =>
                            Cardinality(PoolsOf(t)) <= Cardinality(Storing(t)) + Cardinality(FailedOf(t))
                       /\ tenants[Id(t)] # 0 =>
                            Cardinality(PoolsOf(t)) + Cardinality(Connecting(t))
                              <= Cardinality(Callers) + Cardinality(FailedOf(t)))'
    BY DEF PoolInv
  <2> DEFINE Goal == (/\ IsFiniteSet(PoolsOf(t)) /\ IsFiniteSet(FailedOf(t))
                      /\ tenants[Id(t)] = 0 =>
                           Cardinality(PoolsOf(t)) <= Cardinality(Storing(t)) + Cardinality(FailedOf(t))
                      /\ tenants[Id(t)] # 0 =>
                           Cardinality(PoolsOf(t)) + Cardinality(Connecting(t))
                             <= Cardinality(Callers) + Cardinality(FailedOf(t)))'
  <2>0. /\ Id(t) \in Keys /\ Id(t)' = Id(t) /\ Grows /\ Len(pools) \in Nat /\ Len(failed) \in Nat
        /\ \A u \in Tenants : Id(u) \in Keys
    BY Growing, DataSourceAssumption DEF TypeOK, Grows, Id
  <2>1. /\ IsFiniteSet(PoolsOf(t)) /\ Cardinality(PoolsOf(t)) \in Nat
        /\ IsFiniteSet(FailedOf(t)) /\ Cardinality(FailedOf(t)) \in Nat
        /\ tenants[Id(t)] = 0 =>
             Cardinality(PoolsOf(t)) <= Cardinality(Storing(t)) + Cardinality(FailedOf(t))
        /\ tenants[Id(t)] # 0 =>
             Cardinality(PoolsOf(t)) + Cardinality(Connecting(t))
               <= Cardinality(Callers) + Cardinality(FailedOf(t))
    BY FS_CardinalityType DEF PoolInv
  <2>2. /\ IsFiniteSet(Storing(t)) /\ IsFiniteSet(Connecting(t))
        /\ Cardinality(Storing(t)) \in Nat /\ Cardinality(Connecting(t)) \in Nat /\ Cardinality(Callers) \in Nat
        /\ Cardinality(Storing(t)) + Cardinality(Connecting(t)) <= Cardinality(Callers)
    BY Busy
  <2>o. pools \in Seq(Owners) /\ failed \in Seq(Owners) /\ t \in Owners
    BY DEF TypeOK, Owners
  <2>f. UNCHANGED failed => FailedOf(t)' = FailedOf(t)
    BY DEF FailedOf
  <2>3. ASSUME UNCHANGED <<pools, failed, tenants>>, Storing(t)' = Storing(t), Connecting(t)' = Connecting(t) PROVE Goal
    <3>1. PoolsOf(t)' = PoolsOf(t)
      BY <2>3 DEF PoolsOf
    <3> QED BY <3>1, <2>0, <2>1, <2>3, <2>f
  <2>e. ASSUME PoolsOf(t)' = PoolsOf(t), FailedOf(t)' = FailedOf(t), Connecting(t)' = Connecting(t),
               tenants'[Id(t)'] # 0 PROVE Goal
    <3>1. Cardinality(PoolsOf(t)) + Cardinality(Connecting(t)) <= Cardinality(Callers) + Cardinality(FailedOf(t))
      BY <2>1, <2>2
    <3> QED BY <2>e, <3>1, <2>1
  <2>n. tenants'[Id(t)'] = 0 => tenants[Id(t)] = 0
    BY <2>0 DEF Grows
  <2>4. ASSUME NEW g \in Goroutines, InitDefault(g) PROVE Goal
    <3>1. /\ Storing(t)' = Storing(t) /\ Connecting(t)' = Connecting(t) /\ FailedOf(t)' = FailedOf(t)
      BY <2>4, <2>f DEF InitDefault, Fail, End, Goto, Storing, Connecting, TypeOK
    <3>2. pools' = pools \/ pools' = Append(pools, Shared)
      BY <2>4 DEF InitDefault, LeavesPool
    <3>3. PoolsOf(t)' = PoolsOf(t)
      <4>1. CASE pools' = pools
        BY <4>1 DEF PoolsOf
      <4>2. CASE pools' = Append(pools, Shared)
        <5>1. pools \in Seq(Owners) /\ Shared \in Owners /\ Shared # t
          BY DataSourceAssumption DEF TypeOK, Owners
        <5> QED BY <4>2, <5>1, Appended DEF PoolsOf
      <4> QED BY <3>2, <4>1, <4>2
    <3>4. CASE tenants'[Id(t)'] # 0
      BY <2>e, <3>1, <3>3, <3>4
    <3>5. CASE tenants'[Id(t)'] = 0
      BY <2>1, <2>n, <3>1, <3>3, <3>5
    <3> QED BY <3>4, <3>5
  <2>5. ASSUME NEW g \in Goroutines, CheckTenant(g) PROVE Goal
    <3>1. UNCHANGED <<pools, failed, tenants>> /\ Storing(t)' = Storing(t) /\ FailedOf(t)' = FailedOf(t)
      BY <2>5, <2>f DEF CheckTenant, Goto, Storing, TypeOK
    <3>2. CASE tenants[Id(t)] = 0
      <4>1. PoolsOf(t)' = PoolsOf(t) /\ tenants'[Id(t)'] = 0
        BY <2>0, <3>1, <3>2 DEF PoolsOf
      <4> QED BY <2>1, <3>1, <3>2, <4>1
    <3>3. CASE tenants[Id(t)] # 0
      <4>1. Connecting(t)' = Connecting(t)
        BY <2>5, <3>3 DEF CheckTenant, Goto, Connecting, TypeOK
      <4> QED BY <2>3, <3>1, <4>1
    <3> QED BY <3>2, <3>3
  <2>6. ASSUME NEW g \in Goroutines, Connect(g) PROVE Goal
    <3>0. pc[g] = "connect" /\ cur[g] \in Tenants /\ UNCHANGED <<tenants, cur>> /\ tenants'[Id(t)'] = tenants[Id(t)]
      BY <2>0, <2>6 DEF Connect, Fail, End, Goto, HandInv
    <3>1. CASE cur[g] # t
      <4>1. Storing(t)' = Storing(t) /\ Connecting(t)' = Connecting(t)
        BY <2>6, <3>0, <3>1 DEF Connect, Fail, End, Goto, Storing, Connecting, TypeOK
      <4>2. pools' = pools \/ pools' = Append(pools, cur[g])
        BY <2>6 DEF Connect, LeavesPool
      <4>o. pools \in Seq(Owners) /\ failed \in Seq(Owners) /\ cur[g] \in Owners
        BY <3>0 DEF TypeOK, Owners
      <4>3. PoolsOf(t)' = PoolsOf(t)
        <5>1. CASE pools' = pools
          BY <5>1 DEF PoolsOf
        <5>2. CASE pools' = Append(pools, cur[g])
          BY <5>2, <3>1, <4>o, Appended DEF PoolsOf
        <5> QED BY <4>2, <5>1, <5>2
      <4>4. failed' = failed \/ failed' = Append(failed, cur[g])
        BY <2>6 DEF Connect, FailsFor
      <4>5. FailedOf(t)' = FailedOf(t)
        <5>1. CASE failed' = failed
          BY <5>1 DEF FailedOf
        <5>2. CASE failed' = Append(failed, cur[g])
          BY <5>2, <3>1, <4>o, Appended DEF FailedOf
        <5> QED BY <4>4, <5>1, <5>2
      <4> QED BY <2>1, <3>0, <4>1, <4>3, <4>5
    <3>2. CASE cur[g] = t /\ Goto(g, "connect", "storeId") /\ pools' = Append(pools, t) /\ UNCHANGED failed
      <4>1. /\ PoolsOf(t)' = PoolsOf(t) \cup {Len(pools) + 1} /\ Len(pools) + 1 \notin PoolsOf(t)
        BY <3>2, <2>o, Appended DEF PoolsOf
      <4>2. Storing(t)' = Storing(t) \cup {g} /\ g \notin Storing(t)
        BY <3>0, <3>2 DEF Goto, Storing, TypeOK
      <4>3. Connecting(t)' = Connecting(t) \ {g} /\ g \in Connecting(t)
        BY <3>0, <3>2 DEF Goto, Connecting, TypeOK
      <4>4. IsFiniteSet(PoolsOf(t)') /\ Cardinality(PoolsOf(t)') = Cardinality(PoolsOf(t)) + 1
        BY <2>1, <4>1, FS_AddElement
      <4>5. Cardinality(Storing(t)') = Cardinality(Storing(t)) + 1
        BY <2>2, <4>2, FS_AddElement
      <4>6. Cardinality(Connecting(t)') = Cardinality(Connecting(t)) - 1
        BY <2>2, <4>3, FS_RemoveElement
      <4>7. FailedOf(t)' = FailedOf(t)
        BY <2>f, <3>2
      <4> QED BY <2>1, <2>2, <3>0, <4>4, <4>5, <4>6, <4>7
    <3>3. CASE cur[g] = t /\ Fail(g, "connect") /\ FailsFor(t) /\ LeavesPool(t)
      <4>1. Storing(t)' = Storing(t)
        BY <3>0, <3>3 DEF Fail, End, Goto, Storing, TypeOK
      <4>2. Connecting(t)' = Connecting(t) \ {g} /\ g \in Connecting(t)
        BY <3>0, <3>3 DEF Fail, End, Goto, Connecting, TypeOK
      <4>3. Cardinality(Connecting(t)') = Cardinality(Connecting(t)) - 1
        BY <2>2, <4>2, FS_RemoveElement
      <4>4. FailedOf(t)' = FailedOf(t) \cup {Len(failed) + 1} /\ Len(failed) + 1 \notin FailedOf(t)
        BY <3>3, <2>o, Appended DEF FailsFor, FailedOf
      <4>5. IsFiniteSet(FailedOf(t)') /\ Cardinality(FailedOf(t)') = Cardinality(FailedOf(t)) + 1
        BY <2>1, <4>4, FS_AddElement
      <4>6. \/ PoolsOf(t)' = PoolsOf(t)
            \/ PoolsOf(t)' = PoolsOf(t) \cup {Len(pools) + 1} /\ Len(pools) + 1 \notin PoolsOf(t)
        <5>1. CASE pools' = pools
          BY <5>1 DEF PoolsOf
        <5>2. CASE pools' = Append(pools, t)
          BY <5>2, <2>o, Appended DEF PoolsOf
        <5> QED BY <3>3, <5>1, <5>2 DEF LeavesPool
      <4>7. /\ IsFiniteSet(PoolsOf(t)') /\ Cardinality(PoolsOf(t)') \in Nat
            /\ Cardinality(PoolsOf(t)') <= Cardinality(PoolsOf(t)) + 1
        <5>1. CASE PoolsOf(t)' = PoolsOf(t)
          BY <2>1, <5>1
        <5>2. CASE PoolsOf(t)' = PoolsOf(t) \cup {Len(pools) + 1} /\ Len(pools) + 1 \notin PoolsOf(t)
          BY <2>1, <5>2, FS_AddElement
        <5> QED BY <4>6, <5>1, <5>2
      <4> QED BY <2>1, <2>2, <3>0, <4>1, <4>3, <4>5, <4>7
    <3> QED BY <2>6, <3>1, <3>2, <3>3 DEF Connect
  <2>7. ASSUME NEW g \in Goroutines, StoreId(g) \/ StoreSlug(g) PROVE Goal
    <3>1. PoolsOf(t)' = PoolsOf(t) /\ FailedOf(t)' = FailedOf(t) /\ Connecting(t)' = Connecting(t)
      BY <2>7, <2>f DEF StoreId, StoreSlug, Goto, PoolsOf, Connecting, TypeOK
    <3>2. CASE tenants'[Id(t)'] # 0
      BY <2>e, <3>1, <3>2
    <3>3. CASE tenants'[Id(t)'] = 0
      <4>1. ~(StoreId(g) /\ cur[g] = t)
        BY <2>0, <3>3 DEF StoreId, Goto, HandInv, TypeOK
      <4>2. Storing(t)' = Storing(t)
        BY <2>7, <4>1 DEF StoreId, StoreSlug, Goto, Storing, TypeOK
      <4> QED BY <2>1, <2>n, <3>1, <3>3, <4>2
    <3> QED BY <3>2, <3>3
  <2>8. ASSUME NEW g \in Goroutines, Load(g) \/ InitDone(g) \/ Lookup(g) \/ Relookup(g) PROVE Goal
    <3>1. Storing(t)' = Storing(t) /\ Connecting(t)' = Connecting(t) /\ UNCHANGED <<pools, failed, tenants>>
      BY <2>8 DEF Load, InitDone, Lookup, Relookup, Read, Fail, End, Goto, Storing, Connecting, TypeOK
    <3> QED BY <2>3, <3>1
  <2>9. ASSUME NEW g \in Callers, Return(g) \/ (\E k \in Keys : CallConnection(g, k))
                                  \/ \E u \in Tenants : FireTenantCreated(g, u) PROVE Goal
    <3>1. Storing(t)' = Storing(t) /\ Connecting(t)' = Connecting(t) /\ UNCHANGED <<pools, failed, tenants>>
      BY <2>9 DEF Return, CallConnection, FireTenantCreated, Goto, Goroutines, Storing, Connecting, TypeOK
    <3> QED BY <2>3, <3>1
  <2>10. CASE UNCHANGED <<pools, failed, tenants, pc, cur>>
    BY <2>3, <2>10 DEF Storing, Connecting
  <2> QED BY <2>4, <2>5, <2>6, <2>7, <2>8, <2>9, <2>10 DEF Next, Step, vars, locals, CreateTenant, MapRace
<1> QED BY <1>1, <1>2, Typing, Hands, Starting, PTL DEF Spec

(* However often initTenant runs, every pool of a tenant has its cause: one of at most as many *)
(* callers as there are, or an attempt that failed.                                            *)
THEOREM Causes == Spec => []PoolsHaveACause
<1>1. StartInv /\ PoolInv => PoolsHaveACause
  <2> SUFFICES ASSUME StartInv, PoolInv, NEW t \in Tenants
               PROVE  Cardinality(PoolsOf(t)) <= Cardinality(Callers) + Cardinality(FailedOf(t))
    BY DEF PoolsHaveACause, PoolsOf, FailedOf
  <2>1. /\ Cardinality(Storing(t)) \in Nat /\ Cardinality(Connecting(t)) \in Nat /\ Cardinality(Callers) \in Nat
        /\ Cardinality(Storing(t)) + Cardinality(Connecting(t)) <= Cardinality(Callers)
    BY Busy
  <2>2. /\ Cardinality(PoolsOf(t)) \in Nat /\ Cardinality(FailedOf(t)) \in Nat
        /\ tenants[Id(t)] = 0 =>
             Cardinality(PoolsOf(t)) <= Cardinality(Storing(t)) + Cardinality(FailedOf(t))
        /\ tenants[Id(t)] # 0 =>
             Cardinality(PoolsOf(t)) + Cardinality(Connecting(t))
               <= Cardinality(Callers) + Cardinality(FailedOf(t))
    BY FS_CardinalityType DEF PoolInv
  <2> QED BY <2>1, <2>2
<1> QED BY <1>1, Starting, Pools, PTL
===============================================================================
