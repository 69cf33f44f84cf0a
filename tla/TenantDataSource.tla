--------------------------- MODULE TenantDataSource ---------------------------
(* MultiTenantDataSource of adapters/ds_impl.go: the map from tenant           *)
(* identifiers to connection pools, filled when the application starts, on     *)
(* TenantCreatedEvent and lazily by Connection.  The map has no lock.  Init is *)
(* run by the goroutine Main; afterwards any goroutine may call Connection or  *)
(* fire the event.                                                             *)
(*                                                                             *)
(* Abstracted: URLs, migrations and SQL.  A pool is its position in the list   *)
(* of pools opened so far; the list says for which tenant it was opened.       *)
EXTENDS Naturals, Sequences, FiniteSets

CONSTANTS Callers,     \* goroutines that call the data source once the application runs
          Main,        \* the goroutine that starts the application
          Tenants,     \* the tenants the provider may list
          Keys,        \* identifiers and slugs
          DefaultKey,  \* _defaultTenantId
          Shared,      \* the owner of the default database
          Namings,     \* the ways identifiers and slugs are given to the tenants
          MaxFailures  \* bound of the exploration: attempts to connect a tenant that fail

ASSUME DataSourceAssumption ==
  /\ IsFiniteSet(Callers) /\ Callers # {} /\ Main \notin Callers
  /\ Shared \notin Tenants
  /\ DefaultKey \in Keys
  /\ Namings \subseteq [Tenants -> [id : Keys, slug : Keys]]
  /\ MaxFailures \in Nat

VARIABLES
  naming,   \* the ID and Slug of every tenant: nothing makes them distinct
  listed,   \* the tenants the provider lists
  tenants,  \* ds.tenants: key -> position of a pool, 0 when absent
  pools,    \* the owners of the pools opened so far; none is ever closed
  failed,   \* the tenants of the attempts to connect that have failed (history)
  started,  \* Init has returned without error: the listener is installed
  crashed,  \* the runtime stopped the process on a concurrent map access
  pc, op,   \* where each goroutine is, and what it was called for
  key,      \* the id given to Connection
  seen,     \* key was in the map when the call began (history)
  loaded,   \* what Load returned (history)
  todo,     \* the tenants of that list still to be initialised
  cur,      \* the tenant being initialised
  cnx,      \* the pool in hand, 0 when none
  result    \* how the call ended

locals == <<pc, op, key, seen, loaded, todo, cur, cnx, result>>
vars == <<naming, listed, tenants, pools, failed, started, crashed, locals>>

Goroutines == Callers \cup {Main}
Owners == Tenants \cup {Shared}
Id(t) == naming[t].id
Slug(t) == naming[t].slug

TypeOK ==
  /\ naming \in Namings
  /\ listed \subseteq Tenants
  /\ pools \in Seq(Owners)
  /\ tenants \in [Keys -> 0..Len(pools)]
  /\ failed \in Seq(Owners)
  /\ started \in BOOLEAN /\ crashed \in BOOLEAN
  /\ pc \in [Goroutines -> {"boot", "idle", "lookup", "load", "each", "connect",
                            "storeId", "storeSlug", "relookup", "done"}]
  /\ op \in [Goroutines -> {"none", "init", "get", "event"}]
  /\ key \in [Goroutines -> Keys]
  /\ seen \in [Goroutines -> BOOLEAN]
  /\ loaded \in [Goroutines -> SUBSET Tenants] /\ todo \in [Goroutines -> SUBSET Tenants]
  /\ cur \in [Goroutines -> Owners]
  /\ cnx \in [Goroutines -> 0..Len(pools)]
  /\ result \in [Goroutines -> {"none", "ok", "cnx", "nil", "err", "panic"}]

Init ==
  /\ naming \in Namings
  /\ listed \in SUBSET Tenants
  /\ tenants = [k \in Keys |-> 0]
  /\ pools = <<>> /\ failed = <<>>
  /\ started = FALSE /\ crashed = FALSE
  /\ pc = [g \in Goroutines |-> IF g = Main THEN "boot" ELSE "idle"]
  /\ op = [g \in Goroutines |-> IF g = Main THEN "init" ELSE "none"]
  /\ key = [g \in Goroutines |-> DefaultKey]
  /\ seen = [g \in Goroutines |-> FALSE]
  /\ loaded = [g \in Goroutines |-> {}] /\ todo = [g \in Goroutines |-> {}]
  /\ cur = [g \in Goroutines |-> Shared]
  /\ cnx = [g \in Goroutines |-> 0]
  /\ result = [g \in Goroutines |-> "none"]

-------------------------------------------------------------------------------
Goto(g, from, to) == pc[g] = from /\ pc' = [pc EXCEPT ![g] = to]

End(g, from, r) == Goto(g, from, "done") /\ result' = [result EXCEPT ![g] = r]

\* An error of init or initTenant: Connection turns it into a panic, Init returns
\* it, and the listener of the event hands it to MustFire, which panics.
Fail(g, from) == End(g, from, IF op[g] = "init" THEN "err" ELSE "panic")

-------------------------------------------------------------------------------
(* Init *)

\* An attempt to connect o that fails: configure has opened the pool, or failed before that,
\* and whatever fails afterwards (the PRAGMA, a migration, the SET) does not close it.
LeavesPool(o) == pools' \in {pools, Append(pools, o)}

\* The pool of the default database, if one is configured.
InitDefault(g) ==
  /\ \/ /\ Goto(g, "boot", "load")
        /\ pools' = Append(pools, Shared)
        /\ tenants' = [tenants EXCEPT ![DefaultKey] = Len(pools) + 1]
        /\ UNCHANGED result
     \/ Goto(g, "boot", "load") /\ UNCHANGED <<pools, tenants, result>>
     \/ Fail(g, "boot") /\ LeavesPool(Shared) /\ UNCHANGED tenants
  /\ UNCHANGED <<naming, listed, failed, started, crashed, op, key, seen, loaded, todo, cur, cnx>>

\* tenantProvider.Load: an error, or the list of now.  A data source without a
\* provider behaves like one whose provider lists nothing.
Load(g) ==
  /\ \/ /\ Goto(g, "load", "each")
        /\ todo' = [todo EXCEPT ![g] = listed]
        /\ loaded' = [loaded EXCEPT ![g] = listed]
        /\ UNCHANGED result
     \/ Fail(g, "load") /\ UNCHANGED <<todo, loaded>>
  /\ UNCHANGED <<naming, listed, tenants, pools, failed, started, crashed, op, key, seen, cur, cnx>>

-------------------------------------------------------------------------------
(* initTenant, for the tenants of the list one after the other *)

\* Mutant: the map is not consulted.
CheckTenantNever(g) ==
  /\ \E t \in todo[g] :
       /\ todo' = [todo EXCEPT ![g] = @ \ {t}]
       /\ Goto(g, "each", "connect") /\ cur' = [cur EXCEPT ![g] = t]
  /\ UNCHANGED <<naming, listed, tenants, pools, failed, started, crashed, op, key, seen, loaded, cnx, result>>

\* Mutant: the loop ends at the first tenant that is already there.
CheckTenantOrStop(g) ==
  /\ \E t \in todo[g] :
       /\ todo' = [todo EXCEPT ![g] = IF tenants[Id(t)] # 0 THEN {} ELSE @ \ {t}]
       /\ IF tenants[Id(t)] # 0 THEN Goto(g, "each", "each") /\ UNCHANGED cur
          ELSE Goto(g, "each", "connect") /\ cur' = [cur EXCEPT ![g] = t]
  /\ UNCHANGED <<naming, listed, tenants, pools, failed, started, crashed, op, key, seen, loaded, cnx, result>>

\* The map is read; a tenant whose ID is there already is skipped.
CheckTenant(g) ==
  /\ \E t \in todo[g] :
       /\ todo' = [todo EXCEPT ![g] = @ \ {t}]
       /\ IF tenants[Id(t)] # 0 THEN Goto(g, "each", "each") /\ UNCHANGED cur
          ELSE Goto(g, "each", "connect") /\ cur' = [cur EXCEPT ![g] = t]
  /\ UNCHANGED <<naming, listed, tenants, pools, failed, started, crashed, op, key, seen, loaded, cnx, result>>

\* An attempt to connect t fails; the bound of the exploration is on these.
FailsFor(t) == Len(failed) < MaxFailures /\ failed' = Append(failed, t)

\* Mutant: the error of connect is ignored.
ConnectIgnoresError(g) ==
  /\ Goto(g, "connect", "storeId")
  /\ cnx' = [cnx EXCEPT ![g] = Len(pools) + 1]
  /\ \/ pools' = Append(pools, cur[g]) /\ UNCHANGED failed
     \/ FailsFor(cur[g]) /\ UNCHANGED pools
  /\ UNCHANGED <<naming, listed, tenants, started, crashed, op, key, seen, loaded, todo, cur, result>>

\* connect opens a pool and migrates the database, or fails: the rest of the list is given up.
Connect(g) ==
  /\ \/ /\ Goto(g, "connect", "storeId")
        /\ pools' = Append(pools, cur[g])
        /\ cnx' = [cnx EXCEPT ![g] = Len(pools) + 1]
        /\ UNCHANGED <<failed, result>>
     \/ Fail(g, "connect") /\ FailsFor(cur[g]) /\ LeavesPool(cur[g]) /\ UNCHANGED cnx
  /\ UNCHANGED <<naming, listed, tenants, started, crashed, op, key, seen, loaded, todo, cur>>

StoreId(g) ==
  /\ Goto(g, "storeId", "storeSlug")
  /\ tenants' = [tenants EXCEPT ![Id(cur[g])] = cnx[g]]
  /\ UNCHANGED <<naming, listed, pools, failed, started, crashed, op, key, seen, loaded, todo, cur, cnx, result>>

\* Mutant: the pool is stored under the key that was asked for.
StoreUnderKey(g) ==
  /\ Goto(g, "storeSlug", "each")
  /\ tenants' = [tenants EXCEPT ![key[g]] = cnx[g]]
  /\ cur' = [cur EXCEPT ![g] = Shared] /\ cnx' = [cnx EXCEPT ![g] = 0]
  /\ UNCHANGED <<naming, listed, pools, failed, started, crashed, op, key, seen, loaded, todo, result>>

\* The locals of initTenant are dropped with it.
StoreSlug(g) ==
  /\ Goto(g, "storeSlug", "each")
  /\ tenants' = [tenants EXCEPT ![Slug(cur[g])] = cnx[g]]
  /\ cur' = [cur EXCEPT ![g] = Shared] /\ cnx' = [cnx EXCEPT ![g] = 0]
  /\ UNCHANGED <<naming, listed, pools, failed, started, crashed, op, key, seen, loaded, todo, result>>

\* The list is finished: Init installs the listener and returns, the listener
\* returns, Connection looks the key up again.
InitDone(g) ==
  /\ todo[g] = {}
  /\ IF op[g] = "get" THEN Goto(g, "each", "relookup") /\ UNCHANGED result ELSE End(g, "each", "ok")
  /\ started' = (started \/ op[g] = "init")
  /\ UNCHANGED <<naming, listed, tenants, pools, failed, crashed, op, key, seen, loaded, todo, cur, cnx>>

-------------------------------------------------------------------------------
(* Connection *)

CallConnection(g, k) ==
  /\ started
  /\ Goto(g, "idle", "lookup")
  /\ op' = [op EXCEPT ![g] = "get"]
  /\ key' = [key EXCEPT ![g] = k]
  /\ seen' = [seen EXCEPT ![g] = tenants[k] # 0]
  /\ UNCHANGED <<naming, listed, tenants, pools, failed, started, crashed, loaded, todo, cur, cnx, result>>

\* The map is read; when the key is there its connection is the answer.
Read(g, from) ==
  /\ tenants[key[g]] # 0
  /\ cnx' = [cnx EXCEPT ![g] = tenants[key[g]]]
  /\ End(g, from, "cnx")

\* Mutant: every call loads the tenants again.
LookupReloads(g) ==
  /\ Goto(g, "lookup", "load")
  /\ UNCHANGED <<naming, listed, tenants, pools, failed, started, crashed, op, key, seen, loaded, todo, cur, cnx, result>>

Lookup(g) ==
  /\ \/ Read(g, "lookup")
     \/ tenants[key[g]] = 0 /\ Goto(g, "lookup", "load") /\ UNCHANGED <<cnx, result>>
  /\ UNCHANGED <<naming, listed, tenants, pools, failed, started, crashed, op, key, seen, loaded, todo, cur>>

Relookup(g) ==
  /\ \/ Read(g, "relookup")
     \/ tenants[key[g]] = 0 /\ End(g, "relookup", "nil") /\ UNCHANGED cnx
  /\ UNCHANGED <<naming, listed, tenants, pools, failed, started, crashed, op, key, seen, loaded, todo, cur>>

\* The caller takes the answer, or recovers the panic, and is free to call again.
Return(g) ==
  /\ Goto(g, "done", "idle")
  /\ op' = [op EXCEPT ![g] = "none"] /\ key' = [key EXCEPT ![g] = DefaultKey]
  /\ seen' = [seen EXCEPT ![g] = FALSE]
  /\ loaded' = [loaded EXCEPT ![g] = {}] /\ todo' = [todo EXCEPT ![g] = {}]
  /\ cur' = [cur EXCEPT ![g] = Shared] /\ cnx' = [cnx EXCEPT ![g] = 0]
  /\ result' = [result EXCEPT ![g] = "none"]
  /\ UNCHANGED <<naming, listed, tenants, pools, failed, started, crashed>>

-------------------------------------------------------------------------------
(* Outside the data source *)

\* The provider lists a tenant more; the process that created it fires the event here or not.
CreateTenant(t) ==
  /\ t \notin listed
  /\ listed' = listed \cup {t}
  /\ UNCHANGED <<naming, tenants, pools, failed, started, crashed, locals>>

\* TenantCreatedEvent is fired: the listener runs initTenant in the goroutine that fires.
FireTenantCreated(g, t) ==
  /\ started /\ t \in listed
  /\ Goto(g, "idle", "each")
  /\ op' = [op EXCEPT ![g] = "event"]
  /\ todo' = [todo EXCEPT ![g] = {t}]
  /\ UNCHANGED <<naming, listed, tenants, pools, failed, started, crashed, key, seen, loaded, cur, cnx, result>>

\* A goroutine writes the map while another reads or writes it: the runtime may
\* notice and stop the process ("concurrent map writes"); recover does not help.
Writing(g) == pc[g] \in {"storeId", "storeSlug"}
Accessing(g) == Writing(g) \/ pc[g] \in {"lookup", "relookup"} \/ (pc[g] = "each" /\ todo[g] # {})
MapRace ==
  /\ \E g, h \in Goroutines : g # h /\ Writing(g) /\ Accessing(h)
  /\ crashed' = TRUE
  /\ UNCHANGED <<naming, listed, tenants, pools, failed, started, locals>>

-------------------------------------------------------------------------------
Step(g) ==
  \/ InitDefault(g) \/ Load(g) \/ CheckTenant(g) \/ Connect(g) \/ StoreId(g) \/ StoreSlug(g)
  \/ InitDone(g) \/ Lookup(g) \/ Relookup(g)

Next ==
  /\ ~crashed
  /\ \/ \E g \in Goroutines : Step(g)
     \/ \E g \in Callers, k \in Keys : CallConnection(g, k)
     \/ \E g \in Callers : Return(g)
     \/ \E g \in Callers, t \in Tenants : FireTenantCreated(g, t)
     \/ \E t \in Tenants : CreateTenant(t)
     \/ MapRace

Spec == Init /\ [][Next]_vars

-------------------------------------------------------------------------------
(* Properties *)

Claims(o, k) == IF o = Shared THEN k = DefaultKey ELSE k \in {Id(o), Slug(o)}

\* Whatever races or collisions of names there are, a key leads to a database whose
\* tenant has that key as its ID or slug: the map and the answers of Connection.
RoutesToClaimant ==
  /\ \A k \in Keys : tenants[k] # 0 => Claims(pools[tenants[k]], k)
  /\ \A g \in Goroutines : result[g] = "cnx" => Claims(pools[cnx[g]], key[g])

\* When Connection looks the key up again every tenant that Load returned is there
\* under its ID: those another goroutine registered meanwhile are skipped, not the rest.
InitRegistersAll ==
  \A g \in Goroutines : pc[g] = "relookup" => \A t \in loaded[g] : tenants[Id(t)] # 0

\* A key that was registered when Connection was called gets its connection: a
\* provider that fails, or another tenant that cannot be opened, does not matter.
RegisteredIsServed ==
  \A g \in Goroutines : seen[g] /\ pc[g] # "lookup" => result[g] = "cnx"

\* However often tenants are loaded, looked up and announced, every pool of a tenant has its
\* cause: an attempt to connect the tenant that failed leaves one at most, and all others
\* come from goroutines that found the tenant absent at the same time, of which there are
\* no more than callers.  (Pools that lost their entry in the map are never closed.)
PoolsHaveACause ==
  \A t \in Tenants :
    Cardinality({i \in DOMAIN pools : pools[i] = t})
      <= Cardinality(Callers) + Cardinality({i \in DOMAIN failed : failed[i] = t})

\* What ds_impl_test.go says of a tenant the provider lists: "Can access by slug",
\* assert.NotNil.  Stated for the keys that name one tenant only.
ListedTenantIsNeverNil ==
  \A g \in Goroutines, t \in Tenants :
    /\ result[g] = "nil" /\ t \in loaded[g]
    => \/ key[g] \notin {Id(t), Slug(t)}
       \/ \E u \in Tenants \ {t} : {Id(u), Slug(u)} \cap {Id(t), Slug(t)} # {}
=============================================================================
