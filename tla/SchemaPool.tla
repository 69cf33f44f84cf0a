------------------------------ MODULE SchemaPool ------------------------------
(* The connection pool of a tenant under the strategy "schema":                *)
(* configure, migrate, SetSchema and Tx of adapters/connection_impl.go on      *)
(* Postgres.  Each tenant has a pool of its own on the same database and is    *)
(* kept apart by the search_path of the physical connections, which the code   *)
(* sets on whatever connection the pool hands out.                             *)
(*                                                                             *)
(* Abstracted: a physical connection is its search_path, "own" for the schema  *)
(* of the tenant and "public" for that of a new connection; a pool is the      *)
(* number of idle connections of each kind.  Pools with migrations only.       *)
EXTENDS Naturals, FiniteSets

CONSTANTS Goroutines, Pools,
          Sources,    \* number of file systems with migrations, configured in order
          MaxIdle,    \* database/sql keeps that many idle connections (2)
          NoPool

ASSUME PoolAssumption == Sources \in Nat \ {0} /\ MaxIdle \in Nat \ {0} /\ NoPool \notin Pools

VARIABLES
  baseFS,    \* goose's global: the file system set last, 0 before
  idle,      \* idle connections of each pool, by search_path
  status,    \* whether the pool is configured
  migrated,  \* migrations applied through each pool: [fs, path]
  alone,     \* no other configure overlapped that of the pool (history)
  calm,      \* see Disturbs (history)
  pc, pool,  \* where each goroutine is, and on which pool
  at,        \* the file system being migrated
  conn,      \* search_path of the connection of its transaction
  stmt       \* search_path of the connection its statement runs on

goroutines == <<pc, pool, at, conn, stmt>>
vars == <<baseFS, idle, status, migrated, alone, calm, goroutines>>

Paths == {"own", "public"}
Statements == {"migratePath", "up", "configureSchema", "begin", "txSchema", "query"}

TypeOK ==
  /\ baseFS \in 0..Sources
  /\ idle \in [Pools -> [Paths -> 0..MaxIdle]]
  /\ status \in [Pools -> {"new", "busy", "ok", "failed"}]
  /\ migrated \in [Pools -> SUBSET [fs : 1..Sources, path : Paths]]
  /\ alone \in [Pools -> BOOLEAN] /\ calm \in [Pools -> BOOLEAN]
  /\ pc \in [Goroutines -> Statements \cup {"idle", "baseFS", "tx"}]
  /\ pool \in [Goroutines -> Pools \cup {NoPool}]
  /\ at \in [Goroutines -> 0..Sources]
  /\ conn \in [Goroutines -> Paths \cup {"none"}]
  /\ stmt \in [Goroutines -> Paths \cup {"none"}]

Init ==
  /\ baseFS = 0
  /\ idle = [p \in Pools |-> [s \in Paths |-> 0]]
  /\ status = [p \in Pools |-> "new"]
  /\ migrated = [p \in Pools |-> {}]
  /\ alone = [p \in Pools |-> TRUE] /\ calm = [p \in Pools |-> TRUE]
  /\ pc = [g \in Goroutines |-> "idle"] /\ pool = [g \in Goroutines |-> NoPool]
  /\ at = [g \in Goroutines |-> 0]
  /\ conn = [g \in Goroutines |-> "none"] /\ stmt = [g \in Goroutines |-> "none"]

-------------------------------------------------------------------------------
(* database/sql *)

Idle(p) == idle[p]["own"] + idle[p]["public"]

\* A statement gets an idle connection, or a new one when there is none.
Take(g) ==
  LET p == pool[g] IN
  /\ pc[g] \in Statements /\ stmt[g] = "none"
  /\ \/ \E s \in Paths :
          /\ idle[p][s] > 0
          /\ idle' = [idle EXCEPT ![p][s] = @ - 1]
          /\ stmt' = [stmt EXCEPT ![g] = s]
     \/ /\ Idle(p) = 0
        /\ stmt' = [stmt EXCEPT ![g] = "public"]
        /\ UNCHANGED idle
  /\ UNCHANGED <<baseFS, status, migrated, alone, calm, pc, pool, at, conn>>

\* It returns to the pool with the search_path s, or is closed when the pool is full.
Put(p, s) == idle' = IF Idle(p) < MaxIdle THEN [idle EXCEPT ![p][s] = @ + 1] ELSE idle

\* The server or the network closes an idle connection.
LoseConnection(p) ==
  /\ \E s \in Paths : idle[p][s] > 0 /\ idle' = [idle EXCEPT ![p][s] = @ - 1]
  /\ calm' = [calm EXCEPT ![p] = FALSE]
  /\ UNCHANGED <<baseFS, status, migrated, alone, goroutines>>

-------------------------------------------------------------------------------
Goto(g, to) == pc' = [pc EXCEPT ![g] = to]
Running(g, place) == pc[g] = place /\ stmt[g] # "none"
EndStatement(g) == stmt' = [stmt EXCEPT ![g] = "none"]

\* A goroutine uses connections of p other than that of an open transaction.
Using(g, p) == pool[g] = p /\ pc[g] \in {"begin", "txSchema", "query"}

\* What may leave a connection without search_path in the pool p: two uses that
\* overlap, a lost connection, a SET that fails.
Disturbs(p) == calm' = [calm EXCEPT ![p] = @ /\ ~ \E h \in Goroutines : Using(h, p)]

-------------------------------------------------------------------------------
(* configure *)

Configuring == {p \in Pools : status[p] = "busy"}

Configure(g, p) ==
  /\ pc[g] = "idle" /\ status[p] = "new"
  /\ Goto(g, "baseFS") /\ pool' = [pool EXCEPT ![g] = p] /\ at' = [at EXCEPT ![g] = 1]
  /\ status' = [status EXCEPT ![p] = "busy"]
  /\ alone' = [q \in Pools |-> IF q = p THEN Configuring = {} ELSE alone[q] /\ q \notin Configuring]
  /\ UNCHANGED <<baseFS, idle, migrated, calm, conn, stmt>>

\* The goroutine leaves configure; the pool of a failed one stays open.
Configured(g, s) ==
  /\ status' = [status EXCEPT ![pool[g]] = s]
  /\ Goto(g, "idle") /\ pool' = [pool EXCEPT ![g] = NoPool] /\ at' = [at EXCEPT ![g] = 0]

\* migrate, for the next file system: goose.SetBaseFS.
SetBaseFS(g) ==
  /\ pc[g] = "baseFS"
  /\ baseFS' = at[g]
  /\ Goto(g, "migratePath")
  /\ UNCHANGED <<idle, status, migrated, alone, calm, pool, at, conn, stmt>>

\* SET search_path, on some connection of the pool; CREATE SCHEMA or it may fail.
MigratePath(g) ==
  /\ Running(g, "migratePath") /\ EndStatement(g)
  /\ \/ Put(pool[g], "own") /\ Goto(g, "up") /\ UNCHANGED <<status, pool, at>>
     \/ Put(pool[g], stmt[g]) /\ Configured(g, "failed")
  /\ UNCHANGED <<baseFS, migrated, alone, calm, conn>>

\* Mutant: goose opens a connection of its own.
UpOnNewConnection(g) ==
  /\ Running(g, "up") /\ EndStatement(g)
  /\ migrated' = [migrated EXCEPT ![pool[g]] = @ \cup {[fs |-> baseFS, path |-> "public"]}]
  /\ IF at[g] < Sources THEN Goto(g, "baseFS") /\ at' = [at EXCEPT ![g] = @ + 1]
     ELSE Goto(g, "configureSchema") /\ UNCHANGED at
  /\ Put(pool[g], stmt[g]) /\ UNCHANGED <<status, pool>>
  /\ UNCHANGED <<baseFS, alone, calm, conn>>

\* goose.Up: the migrations of the global file system, in the schema of the connection.
Up(g) ==
  /\ Running(g, "up") /\ EndStatement(g) /\ Put(pool[g], stmt[g])
  /\ \/ /\ migrated' = [migrated EXCEPT ![pool[g]] = @ \cup {[fs |-> baseFS, path |-> stmt[g]]}]
        /\ IF at[g] < Sources THEN Goto(g, "baseFS") /\ at' = [at EXCEPT ![g] = @ + 1]
           ELSE Goto(g, "configureSchema") /\ UNCHANGED at
        /\ UNCHANGED <<status, pool>>
     \/ Configured(g, "failed") /\ UNCHANGED migrated
  /\ UNCHANGED <<baseFS, alone, calm, conn>>

\* The last statement of configure: SetSchema.
ConfigureSchema(g) ==
  /\ Running(g, "configureSchema") /\ EndStatement(g)
  /\ \/ Put(pool[g], "own") /\ Configured(g, "ok")
     \/ Put(pool[g], stmt[g]) /\ Configured(g, "failed")
  /\ UNCHANGED <<baseFS, migrated, alone, calm, conn>>

-------------------------------------------------------------------------------
(* Tx and queries, on a configured pool *)

CallTx(g, p) ==
  /\ pc[g] = "idle" /\ status[p] = "ok"
  /\ Goto(g, "begin") /\ pool' = [pool EXCEPT ![g] = p]
  /\ Disturbs(p)
  /\ UNCHANGED <<baseFS, idle, status, migrated, alone, at, conn, stmt>>

\* Mutant: SetSchema is left out.
BeginWithoutSchema(g) ==
  /\ Running(g, "begin") /\ EndStatement(g)
  /\ conn' = [conn EXCEPT ![g] = stmt[g]] /\ Goto(g, "tx")
  /\ UNCHANGED <<baseFS, idle, status, migrated, alone, calm, pool, at>>

\* BeginTx keeps the connection, or fails: SetSchema comes before the error is looked at.
Begin(g) ==
  /\ Running(g, "begin") /\ EndStatement(g)
  /\ Goto(g, "txSchema")
  /\ \/ conn' = [conn EXCEPT ![g] = stmt[g]] /\ UNCHANGED idle
     \/ Put(pool[g], stmt[g]) /\ UNCHANGED conn
     \/ UNCHANGED <<idle, conn>>
  /\ UNCHANGED <<baseFS, status, migrated, alone, calm, pool, at>>

\* SetSchema runs on the pool, so on another connection than the transaction; its
\* error is dropped.
TxSchema(g) ==
  /\ Running(g, "txSchema") /\ EndStatement(g)
  /\ \/ Put(pool[g], "own") /\ UNCHANGED calm
     \/ Put(pool[g], stmt[g]) /\ calm' = [calm EXCEPT ![pool[g]] = FALSE]
  /\ IF conn[g] = "none" THEN Goto(g, "idle") /\ pool' = [pool EXCEPT ![g] = NoPool]
     ELSE Goto(g, "tx") /\ UNCHANGED pool
  /\ UNCHANGED <<baseFS, status, migrated, alone, at, conn>>

\* Commit or Rollback gives the connection back.
EndTx(g) ==
  /\ pc[g] = "tx"
  /\ Put(pool[g], conn[g]) /\ conn' = [conn EXCEPT ![g] = "none"]
  /\ Goto(g, "idle") /\ pool' = [pool EXCEPT ![g] = NoPool]
  /\ UNCHANGED <<baseFS, status, migrated, alone, calm, at, stmt>>

\* A query outside a transaction, as through EntityManager.Tenant.
CallQuery(g, p) ==
  /\ pc[g] = "idle" /\ status[p] = "ok"
  /\ Goto(g, "query") /\ pool' = [pool EXCEPT ![g] = p]
  /\ Disturbs(p)
  /\ UNCHANGED <<baseFS, idle, status, migrated, alone, at, conn, stmt>>

EndQuery(g) ==
  /\ Running(g, "query") /\ EndStatement(g)
  /\ Put(pool[g], stmt[g])
  /\ Goto(g, "idle") /\ pool' = [pool EXCEPT ![g] = NoPool]
  /\ UNCHANGED <<baseFS, status, migrated, alone, calm, at, conn>>

-------------------------------------------------------------------------------
Next ==
  \/ \E g \in Goroutines, p \in Pools : Configure(g, p) \/ CallTx(g, p) \/ CallQuery(g, p)
  \/ \E g \in Goroutines :
       \/ Take(g) \/ SetBaseFS(g) \/ MigratePath(g) \/ Up(g) \/ ConfigureSchema(g)
       \/ Begin(g) \/ TxSchema(g) \/ EndTx(g) \/ EndQuery(g)
  \/ \E p \in Pools : LoseConnection(p)

Spec == Init /\ [][Next]_vars

-------------------------------------------------------------------------------
(* Properties *)

\* Transactions and queries run in the schema of their tenant as long as no two calls
\* that take a connection overlapped, none was lost and no SET failed.  SetSchema does
\* not touch the transaction it is meant for: it prepares the connection that the next
\* one will get, beginning with the one configure left.
CalmPoolStaysInSchema ==
  \A g \in Goroutines :
    pool[g] \in Pools /\ calm[pool[g]] =>
      /\ conn[g] # "public"
      /\ pc[g] \in {"begin", "query"} => stmt[g] # "public"

\* In a calm pool (see CalmPoolStaysInSchema) a configure that overlapped no other one
\* applies the migrations of every file system exactly to the schema of its tenant, though
\* goose.Up takes its file system from a global and its connection from the pool.  In a pool
\* that is not calm it need not: when the connection of the SET is lost before goose.Up, the
\* migrations run in "public" and configure succeeds.
SoleConfigureMigratesAll ==
  \A p \in Pools :
    status[p] = "ok" /\ alone[p] /\ calm[p] => migrated[p] = [fs : 1..Sources, path : {"own"}]
=============================================================================
