-------------------------- MODULE SchemaPool_proof --------------------------
(* Proofs about SchemaPool, for any number of goroutines, pools and file systems. *)
EXTENDS SchemaPool, TLAPS

-------------------------------------------------------------------------------
(* The inductive invariant, as named parts. *)

ConfigurePlaces == {"baseFS", "migratePath", "up", "configureSchema"}
UsePlaces == {"begin", "txSchema", "query"}

\* Where a goroutine is agrees with its locals and with the status of its pool.
PlaceInv ==
  \A g \in Goroutines :
    /\ pc[g] = "idle" <=> pool[g] = NoPool
    /\ pc[g] \in ConfigurePlaces => status[pool[g]] = "busy" /\ at[g] \in 1..Sources
    /\ pc[g] \in {"migratePath", "up"} => baseFS # 0
    /\ pc[g] \in UsePlaces \cup {"tx"} => status[pool[g]] = "ok"
    /\ conn[g] # "none" => pc[g] \in {"txSchema", "tx"}
    /\ pc[g] = "tx" => conn[g] # "none"
    /\ stmt[g] # "none" => pc[g] \in Statements

\* One goroutine configures a pool.
SoleInv ==
  \A g, h \in Goroutines :
    pc[g] \in ConfigurePlaces /\ pc[h] \in ConfigurePlaces /\ pool[g] = pool[h] => g = h

\* No two goroutines use a calm pool at once.
UseInv ==
  \A g, h \in Goroutines :
    pc[g] \in UsePlaces /\ pc[h] \in UsePlaces /\ pool[g] = pool[h] /\ calm[pool[g]] => g = h

\* The connections of a calm pool have the search_path of its schema.
PathInv ==
  /\ \A p \in Pools : calm[p] /\ status[p] # "failed" => idle[p]["public"] = 0
  /\ \A g \in Goroutines :
       pool[g] \in Pools /\ calm[pool[g]] =>
         /\ conn[g] # "public"
         /\ pc[g] \in {"begin", "query", "up", "configureSchema"} => stmt[g] # "public"

\* A calm pool has an idle connection whenever somebody is about to take one.
SpareInv ==
  /\ \A p \in Pools :
       calm[p] /\ status[p] = "ok" /\ (\A g \in Goroutines : pc[g] \in UsePlaces => pool[g] # p)
         => idle[p]["own"] > 0
  /\ \A g \in Goroutines :
       /\ pc[g] \in {"begin", "query", "up", "configureSchema"}
       /\ stmt[g] = "none" /\ calm[pool[g]]
       => idle[pool[g]]["own"] > 0

\* The migrations of the first n file systems, in the schema of the tenant.
Through(n) == [fs : 1..n, path : {"own"}]

\* While a pool is configured alone, the global is the file system of its configure and
\* the migrations so far have been applied.
MigratingInv ==
  \A g \in Goroutines :
    pc[g] \in ConfigurePlaces /\ alone[pool[g]] =>
      /\ \A h \in Goroutines : pc[h] \in ConfigurePlaces => h = g
      /\ pc[g] \in {"migratePath", "up"} => baseFS = at[g]
      /\ calm[pool[g]] =>
           migrated[pool[g]] = Through(IF pc[g] = "configureSchema" THEN Sources ELSE at[g] - 1)

NewInv == \A p \in Pools : status[p] = "new" => migrated[p] = {}

MigrateInv == MigratingInv /\ NewInv /\ SoleConfigureMigratesAll

Base == TypeOK /\ PlaceInv /\ SoleInv

PoolInv == UseInv /\ PathInv /\ SpareInv

IInv == Base /\ PoolInv /\ MigrateInv

-------------------------------------------------------------------------------
(* What Put and Take do to the idle connections. *)

IdleType == [Pools -> [Paths -> 0..MaxIdle]]

\* A pool that is not full gains a connection; a pool is never left without one.
LEMMA PutEffect ==
  ASSUME idle \in IdleType, NEW p \in Pools, NEW s \in Paths, Put(p, s)
  PROVE  /\ idle' \in IdleType
         /\ \A q \in Pools \ {p} : idle'[q] = idle[q]
         /\ \A t \in Paths : idle'[p][t] >= idle[p][t] /\ (t # s => idle'[p][t] = idle[p][t])
         /\ s = "own" /\ idle[p]["public"] = 0 => idle'[p]["own"] > 0
<1>0. MaxIdle \in Nat \ {0}
  BY PoolAssumption
<1>1. \A t \in Paths : idle[p][t] \in 0..MaxIdle
  BY DEF IdleType
<1>2. CASE Idle(p) < MaxIdle
  <2>1. idle' = [idle EXCEPT ![p][s] = @ + 1]
    BY <1>2 DEF Put
  <2>2. idle[p][s] + 1 \in 0..MaxIdle
    BY <1>0, <1>1, <1>2 DEF Idle, Paths
  <2>3. [idle[p] EXCEPT ![s] = @ + 1] \in [Paths -> 0..MaxIdle]
    BY <2>2 DEF IdleType
  <2>4. idle' \in IdleType
    BY <2>1, <2>3 DEF IdleType
  <2>5. idle'[p][s] = idle[p][s] + 1 /\ \A t \in Paths \ {s} : idle'[p][t] = idle[p][t]
    BY <2>1 DEF IdleType
  <2> QED BY <1>0, <1>1, <2>1, <2>4, <2>5 DEF IdleType
<1>3. CASE ~ Idle(p) < MaxIdle
  <2>1. idle' = idle
    BY <1>3 DEF Put
  <2>2. idle[p]["public"] = 0 => idle[p]["own"] > 0
    BY <1>0, <1>1, <1>3 DEF Idle, Paths
  <2> QED BY <1>0, <1>1, <2>1, <2>2
<1> QED BY <1>2, <1>3

\* One connection of one kind leaves the pool.
LEMMA LossEffect ==
  ASSUME idle \in IdleType, NEW p \in Pools, NEW s \in Paths, idle[p][s] > 0,
         idle' = [idle EXCEPT ![p][s] = @ - 1]
  PROVE  /\ idle' \in IdleType
         /\ \A q \in Pools \ {p} : idle'[q] = idle[q]
         /\ \A t \in Paths : t # s => idle'[p][t] = idle[p][t]
         /\ idle'[p][s] < idle[p][s]
<1>1. MaxIdle \in Nat /\ idle[p][s] \in 0..MaxIdle
  BY PoolAssumption DEF IdleType
<1>2. [idle[p] EXCEPT ![s] = @ - 1] \in [Paths -> 0..MaxIdle]
  BY <1>1 DEF IdleType
<1> QED BY <1>1, <1>2 DEF IdleType

\* A statement finds an idle connection with its search_path, or there is none.
LEMMA TakeEffect ==
  ASSUME Base, NEW g \in Goroutines, Take(g)
  PROVE  /\ pool[g] \in Pools /\ idle' \in IdleType
         /\ \A q \in Pools \ {pool[g]} : idle'[q] = idle[q]
         /\ idle[pool[g]]["public"] = 0 => idle'[pool[g]]["public"] = 0
         /\ \E s \in Paths :
              /\ stmt' = [stmt EXCEPT ![g] = s]
              /\ s = "public" => \/ idle[pool[g]]["public"] > 0
                                 \/ idle[pool[g]]["own"] = 0
<1>1. pool[g] \in Pools /\ idle \in IdleType
  BY DEF Base, TypeOK, PlaceInv, Take, Statements, IdleType
<1>2. \A t \in Paths : idle[pool[g]][t] \in Nat
  BY <1>1, PoolAssumption DEF IdleType
<1>3. CASE Idle(pool[g]) = 0 /\ stmt' = [stmt EXCEPT ![g] = "public"] /\ UNCHANGED idle
  <2>1. idle[pool[g]]["own"] = 0 /\ "public" \in Paths
    BY <1>2, <1>3 DEF Idle, Paths
  <2> QED BY <1>1, <1>3, <2>1
<1>4. CASE \E s \in Paths : /\ idle[pool[g]][s] > 0
                           /\ idle' = [idle EXCEPT ![pool[g]][s] = @ - 1]
                           /\ stmt' = [stmt EXCEPT ![g] = s]
  <2>1. PICK s \in Paths : /\ idle[pool[g]][s] > 0
                           /\ idle' = [idle EXCEPT ![pool[g]][s] = @ - 1]
                           /\ stmt' = [stmt EXCEPT ![g] = s]
    BY <1>4
  <2>2. /\ idle' \in IdleType
        /\ \A q \in Pools \ {pool[g]} : idle'[q] = idle[q]
        /\ \A t \in Paths : t # s => idle'[pool[g]][t] = idle[pool[g]][t]
    BY <1>1, <2>1, LossEffect
  <2>3. s = "public" => idle[pool[g]]["public"] > 0
    BY <2>1
  <2>4. idle[pool[g]]["public"] = 0 => s # "public"
    BY <2>1
  <2> QED BY <1>1, <2>1, <2>2, <2>3, <2>4 DEF Paths
<1>5. \/ Idle(pool[g]) = 0 /\ stmt' = [stmt EXCEPT ![g] = "public"] /\ UNCHANGED idle
      \/ \E s \in Paths : /\ idle[pool[g]][s] > 0
                           /\ idle' = [idle EXCEPT ![pool[g]][s] = @ - 1]
                           /\ stmt' = [stmt EXCEPT ![g] = s]
  BY Zenon DEF Take
<1> QED BY <1>3, <1>4, <1>5

-------------------------------------------------------------------------------
(* The base: types, and where each goroutine is. *)

LEMMA BaseInit == Init => Base
  BY PoolAssumption
     DEF Init, Base, TypeOK, PlaceInv, SoleInv, Paths, Statements, ConfigurePlaces, UsePlaces

\* What a goroutine on its way has: a pool with the status that goes with its place.
LEMMA Whereabouts ==
  ASSUME Base, NEW g \in Goroutines
  PROVE  /\ pc[g] # "idle" => pool[g] \in Pools /\ pool[g] # NoPool
         /\ stmt[g] # "none" => stmt[g] \in Paths
         /\ conn[g] # "none" => conn[g] \in Paths
         /\ pc[g] \notin {"txSchema", "tx"} => conn[g] = "none"
         /\ pc[g] \in ConfigurePlaces => status[pool[g]] = "busy"
         /\ pc[g] \in UsePlaces \cup {"tx"} => status[pool[g]] = "ok"
<1>1. pool[g] \in Pools \cup {NoPool} /\ stmt[g] \in Paths \cup {"none"} /\ conn[g] \in Paths \cup {"none"}
  BY DEF Base, TypeOK
<1> QED BY <1>1, PoolAssumption DEF Base, PlaceInv

\* A goroutine that leaves configure.
LEMMA ConfiguredBase ==
  ASSUME Base, NEW g \in Goroutines, pc[g] \in ConfigurePlaces,
         NEW s \in {"ok", "failed"}, Configured(g, s), EndStatement(g), idle' \in IdleType,
         UNCHANGED <<baseFS, migrated, alone, calm, conn>>
  PROVE  Base'
<1> USE DEF Base
<1>1. pool[g] \in Pools
  BY DEF TypeOK, PlaceInv, ConfigurePlaces
<1>2. /\ pc' = [pc EXCEPT ![g] = "idle"] /\ pool' = [pool EXCEPT ![g] = NoPool]
      /\ at' = [at EXCEPT ![g] = 0] /\ stmt' = [stmt EXCEPT ![g] = "none"]
      /\ status' = [status EXCEPT ![pool[g]] = s]
  BY DEF Configured, Goto, EndStatement
<1>3. TypeOK'
  BY <1>1, <1>2, PoolAssumption DEF TypeOK, IdleType
<1>4. PlaceInv'
  <2> SUFFICES ASSUME NEW h \in Goroutines
               PROVE  /\ pc'[h] = "idle" <=> pool'[h] = NoPool
                      /\ pc'[h] \in ConfigurePlaces => status'[pool'[h]] = "busy" /\ at'[h] \in 1..Sources
                      /\ pc'[h] \in {"migratePath", "up"} => baseFS' # 0
                      /\ pc'[h] \in UsePlaces \cup {"tx"} => status'[pool'[h]] = "ok"
                      /\ conn'[h] # "none" => pc'[h] \in {"txSchema", "tx"}
                      /\ pc'[h] = "tx" => conn'[h] # "none"
                      /\ stmt'[h] # "none" => pc'[h] \in Statements
    BY DEF PlaceInv
  <2>1. CASE h = g
    BY <1>1, <1>2, <2>1 DEF TypeOK, PlaceInv, ConfigurePlaces, UsePlaces
  <2>2. CASE h # g
    <3>1. pc'[h] = pc[h] /\ pool'[h] = pool[h] /\ at'[h] = at[h] /\ stmt'[h] = stmt[h]
      BY <1>2, <2>2 DEF TypeOK
    <3>2. pc[h] \in ConfigurePlaces \cup UsePlaces \cup {"tx"} => pool[h] # pool[g]
      BY <2>2 DEF PlaceInv, SoleInv
    <3>3. pc[h] \in ConfigurePlaces \cup UsePlaces \cup {"tx"} => status'[pool[h]] = status[pool[h]]
      BY <1>2, <3>2 DEF TypeOK
    <3> QED BY <3>1, <3>3 DEF PlaceInv
  <2> QED BY <2>1, <2>2
<1>5. SoleInv'
  BY <1>2 DEF TypeOK, SoleInv, ConfigurePlaces
<1> QED BY <1>3, <1>4, <1>5

\* A step of one goroutine that moves it to another place of the same call.
LEMMA MoveBase ==
  ASSUME Base, NEW g \in Goroutines, NEW to,
         \/ pc[g] \in ConfigurePlaces /\ to \in ConfigurePlaces
         \/ pc[g] \in UsePlaces /\ to \in UsePlaces \cup {"tx"},
         to \in {"migratePath", "up"} => baseFS' # 0,
         conn'[g] # "none" => to \in {"txSchema", "tx"},
         to = "tx" => conn'[g] # "none",
         Goto(g, to), EndStatement(g), UNCHANGED <<status, pool>>,
         idle' \in IdleType,
         baseFS' \in 0..Sources, baseFS' # 0 \/ baseFS' = baseFS,
         migrated' \in [Pools -> SUBSET [fs : 1..Sources, path : Paths]],
         alone' \in [Pools -> BOOLEAN], calm' \in [Pools -> BOOLEAN],
         at' \in [Goroutines -> 0..Sources], pc[g] \in ConfigurePlaces => at'[g] \in 1..Sources,
         \A h \in Goroutines \ {g} : at'[h] = at[h] /\ conn'[h] = conn[h],
         conn' \in [Goroutines -> Paths \cup {"none"}]
  PROVE  Base'
<1> USE DEF Base
<1>2. /\ pc' = [pc EXCEPT ![g] = to] /\ stmt' = [stmt EXCEPT ![g] = "none"]
      /\ status' = status /\ pool' = pool
  BY DEF Goto, EndStatement
<1>3. TypeOK'
  <2>1. to \in Statements \cup {"idle", "baseFS", "tx"}
    BY DEF ConfigurePlaces, UsePlaces, Statements
  <2> QED BY <1>2, <2>1 DEF TypeOK, IdleType
<1>4. PlaceInv'
  <2> SUFFICES ASSUME NEW h \in Goroutines
               PROVE  /\ pc'[h] = "idle" <=> pool'[h] = NoPool
                      /\ pc'[h] \in ConfigurePlaces => status'[pool'[h]] = "busy" /\ at'[h] \in 1..Sources
                      /\ pc'[h] \in {"migratePath", "up"} => baseFS' # 0
                      /\ pc'[h] \in UsePlaces \cup {"tx"} => status'[pool'[h]] = "ok"
                      /\ conn'[h] # "none" => pc'[h] \in {"txSchema", "tx"}
                      /\ pc'[h] = "tx" => conn'[h] # "none"
                      /\ stmt'[h] # "none" => pc'[h] \in Statements
    BY DEF PlaceInv
  <2>1. CASE h = g
    BY <1>2, <2>1 DEF TypeOK, PlaceInv, ConfigurePlaces, UsePlaces
  <2>2. CASE h # g
    BY <1>2, <2>2 DEF TypeOK, PlaceInv
  <2> QED BY <2>1, <2>2
<1>5. SoleInv'
  BY <1>2 DEF TypeOK, SoleInv, PlaceInv, ConfigurePlaces, UsePlaces
<1> QED BY <1>3, <1>4, <1>5
\* A goroutine that ends a transaction or a query.
LEMMA EndBase ==
  ASSUME Base, NEW g \in Goroutines, pc[g] \in UsePlaces \cup {"tx"},
         Goto(g, "idle"), pool' = [pool EXCEPT ![g] = NoPool], conn'[g] = "none", stmt'[g] = "none",
         idle' \in IdleType, calm' \in [Pools -> BOOLEAN],
         conn' \in [Goroutines -> Paths \cup {"none"}], stmt' \in [Goroutines -> Paths \cup {"none"}],
         \A h \in Goroutines \ {g} : conn'[h] = conn[h] /\ stmt'[h] = stmt[h],
         UNCHANGED <<baseFS, status, migrated, alone, at>>
  PROVE  Base'
<1> USE DEF Base
<1>1. pc' = [pc EXCEPT ![g] = "idle"]
  BY DEF Goto
<1>2. TypeOK'
  BY <1>1 DEF TypeOK, IdleType
<1>3. PlaceInv'
  <2> SUFFICES ASSUME NEW h \in Goroutines
               PROVE  /\ pc'[h] = "idle" <=> pool'[h] = NoPool
                      /\ pc'[h] \in ConfigurePlaces => status'[pool'[h]] = "busy" /\ at'[h] \in 1..Sources
                      /\ pc'[h] \in {"migratePath", "up"} => baseFS' # 0
                      /\ pc'[h] \in UsePlaces \cup {"tx"} => status'[pool'[h]] = "ok"
                      /\ conn'[h] # "none" => pc'[h] \in {"txSchema", "tx"}
                      /\ pc'[h] = "tx" => conn'[h] # "none"
                      /\ stmt'[h] # "none" => pc'[h] \in Statements
    BY DEF PlaceInv
  <2>1. CASE h = g
    BY <1>1, <2>1 DEF TypeOK, ConfigurePlaces, UsePlaces
  <2>2. CASE h # g
    BY <1>1, <2>2 DEF TypeOK, PlaceInv
  <2> QED BY <2>1, <2>2
<1>4. SoleInv'
  BY <1>1 DEF TypeOK, SoleInv, ConfigurePlaces
<1> QED BY <1>2, <1>3, <1>4

LEMMA BaseStep == ASSUME Base, Next PROVE Base'
<1> USE DEF Base
<1>t. TypeOK /\ PlaceInv /\ SoleInv /\ idle \in IdleType
  BY DEF TypeOK, IdleType
<1>1. ASSUME NEW g \in Goroutines, NEW p \in Pools, Configure(g, p) PROVE Base'
  <2>1. alone' \in [Pools -> BOOLEAN]
    BY <1>t, <1>1, Zenon DEF TypeOK, Configure
  <2>2. TypeOK'
    BY <1>t, <1>1, <2>1, PoolAssumption DEF TypeOK, Configure, Goto
  <2>3. PlaceInv'
    BY <1>t, <1>1, PoolAssumption
       DEF TypeOK, PlaceInv, Configure, Goto, ConfigurePlaces, UsePlaces, Statements
  <2>4. SoleInv'
    BY <1>t, <1>1 DEF TypeOK, PlaceInv, SoleInv, Configure, Goto, ConfigurePlaces
  <2> QED BY <2>2, <2>3, <2>4
<1>2. ASSUME NEW g \in Goroutines, NEW p \in Pools, CallTx(g, p) \/ CallQuery(g, p) PROVE Base'
  <2>1. calm' \in [Pools -> BOOLEAN]
    <3>1. calm' = [calm EXCEPT ![p] = @ /\ ~ \E h \in Goroutines : Using(h, p)]
      BY <1>2 DEF CallTx, CallQuery, Disturbs
    <3> QED BY <1>t, <3>1, Zenon DEF TypeOK
  <2>2. TypeOK'
    <3>1. /\ pool' = [pool EXCEPT ![g] = p]
          /\ \/ pc' = [pc EXCEPT ![g] = "begin"]
             \/ pc' = [pc EXCEPT ![g] = "query"]
          /\ UNCHANGED <<baseFS, idle, status, migrated, alone, at, conn, stmt>>
      BY <1>2 DEF CallTx, CallQuery, Goto
    <3> QED BY <1>t, <2>1, <3>1 DEF TypeOK, Statements
  <2>3. PlaceInv'
    BY <1>t, <1>2, PoolAssumption
       DEF TypeOK, PlaceInv, CallTx, CallQuery, Goto, ConfigurePlaces, UsePlaces, Statements
  <2>4. SoleInv'
    BY <1>t, <1>2 DEF TypeOK, SoleInv, CallTx, CallQuery, Goto, ConfigurePlaces
  <2> QED BY <2>2, <2>3, <2>4
<1>3. ASSUME NEW g \in Goroutines, Take(g) PROVE Base'
  <2>1. PICK s \in Paths : idle' \in IdleType /\ stmt' = [stmt EXCEPT ![g] = s]
    BY <1>3, TakeEffect
  <2>2. pc[g] \in Statements /\ UNCHANGED <<baseFS, status, migrated, alone, calm, pc, pool, at, conn>>
    BY <1>3 DEF Take
  <2> QED BY <1>t, <2>1, <2>2 DEF TypeOK, PlaceInv, SoleInv, IdleType
<1>4. ASSUME NEW p \in Pools, LoseConnection(p) PROVE Base'
  <2>1. idle' \in IdleType
    BY <1>t, <1>4, LossEffect DEF LoseConnection
  <2> QED BY <1>t, <1>4, <2>1 DEF LoseConnection, TypeOK, PlaceInv, SoleInv, IdleType, goroutines
<1>5. ASSUME NEW g \in Goroutines, SetBaseFS(g) PROVE Base'
  <2>1. TypeOK' /\ SoleInv'
    BY <1>t, <1>5 DEF TypeOK, SoleInv, SetBaseFS, Goto, Statements, ConfigurePlaces
  <2>2. PlaceInv'
    BY <1>t, <1>5, PoolAssumption
       DEF TypeOK, PlaceInv, SetBaseFS, Goto, ConfigurePlaces, UsePlaces, Statements
  <2> QED BY <2>1, <2>2
<1>6. ASSUME NEW g \in Goroutines, MigratePath(g) PROVE Base'
  <2>1. /\ pool[g] \in Pools /\ stmt[g] \in Paths /\ pc[g] \in ConfigurePlaces
        /\ baseFS # 0 /\ at[g] \in 1..Sources /\ conn[g] = "none"
    BY <1>t, <1>6 DEF TypeOK, PlaceInv, MigratePath, Running, ConfigurePlaces
  <2>2. idle' \in IdleType
    BY <1>t, <1>6, <2>1, PutEffect DEF MigratePath, Paths
  <2>3. CASE Goto(g, "up") /\ UNCHANGED <<status, pool, at>>
    BY <1>t, <1>6, <2>1, <2>2, <2>3, MoveBase DEF MigratePath, TypeOK, ConfigurePlaces
  <2>4. CASE Configured(g, "failed")
    BY <1>6, <2>1, <2>2, <2>4, ConfiguredBase DEF MigratePath
  <2> QED BY <1>6, <2>3, <2>4 DEF MigratePath
<1>7. ASSUME NEW g \in Goroutines, Up(g) PROVE Base'
  <2>1. /\ pool[g] \in Pools /\ stmt[g] \in Paths /\ pc[g] \in ConfigurePlaces
        /\ baseFS \in 1..Sources /\ at[g] \in 1..Sources /\ conn[g] = "none"
    BY <1>t, <1>7, PoolAssumption DEF TypeOK, PlaceInv, Up, Running, ConfigurePlaces
  <2>2. idle' \in IdleType
    BY <1>t, <1>7, <2>1, PutEffect DEF Up
  <2>3. CASE /\ migrated' = [migrated EXCEPT ![pool[g]] = @ \cup {[fs |-> baseFS, path |-> stmt[g]]}]
             /\ IF at[g] < Sources THEN Goto(g, "baseFS") /\ at' = [at EXCEPT ![g] = @ + 1]
                ELSE Goto(g, "configureSchema") /\ UNCHANGED at
             /\ UNCHANGED <<status, pool>>
    <3>1. migrated' \in [Pools -> SUBSET [fs : 1..Sources, path : Paths]]
      BY <1>t, <2>1, <2>3 DEF TypeOK
    <3>2. /\ at' \in [Goroutines -> 0..Sources] /\ at'[g] \in 1..Sources
          /\ \A h \in Goroutines \ {g} : at'[h] = at[h]
      BY <1>t, <2>1, <2>3, PoolAssumption DEF TypeOK
    <3>3. PICK to \in {"baseFS", "configureSchema"} : Goto(g, to)
      BY <2>3
    <3>4. EndStatement(g) /\ UNCHANGED <<baseFS, alone, calm, conn>>
      BY <1>7 DEF Up
    <3> QED BY <1>t, <2>1, <2>2, <2>3, <3>1, <3>2, <3>3, <3>4, MoveBase DEF TypeOK, ConfigurePlaces
  <2>4. CASE Configured(g, "failed") /\ UNCHANGED migrated
    BY <1>7, <2>1, <2>2, <2>4, ConfiguredBase DEF Up
  <2> QED BY <1>7, <2>3, <2>4 DEF Up
<1>8. ASSUME NEW g \in Goroutines, ConfigureSchema(g) PROVE Base'
  <2>1. pool[g] \in Pools /\ stmt[g] \in Paths /\ pc[g] \in ConfigurePlaces
    BY <1>t, <1>8 DEF TypeOK, PlaceInv, ConfigureSchema, Running, ConfigurePlaces
  <2>2. idle' \in IdleType
    BY <1>t, <1>8, <2>1, PutEffect DEF ConfigureSchema, Paths
  <2> QED BY <1>8, <2>1, <2>2, ConfiguredBase DEF ConfigureSchema
<1>9. ASSUME NEW g \in Goroutines, Begin(g) PROVE Base'
  <2>1. pool[g] \in Pools /\ stmt[g] \in Paths /\ pc[g] \in UsePlaces
    BY <1>t, <1>9 DEF TypeOK, PlaceInv, Begin, Running, UsePlaces
  <2>2. idle' \in IdleType
    BY <1>t, <1>9, <2>1, PutEffect DEF Begin
  <2>3. conn' \in [Goroutines -> Paths \cup {"none"}] /\ \A h \in Goroutines \ {g} : conn'[h] = conn[h]
    BY <1>t, <1>9, <2>1 DEF TypeOK, Begin
  <2> QED BY <1>t, <1>9, <2>1, <2>2, <2>3, MoveBase DEF Begin, TypeOK, UsePlaces, ConfigurePlaces
<1>10. ASSUME NEW g \in Goroutines, TxSchema(g) PROVE Base'
  <2>1. pool[g] \in Pools /\ stmt[g] \in Paths /\ pc[g] \in UsePlaces /\ pc[g] \notin ConfigurePlaces
    BY <1>t, <1>10 DEF TypeOK, PlaceInv, TxSchema, Running, UsePlaces, ConfigurePlaces
  <2>2. idle' \in IdleType
    BY <1>t, <1>10, <2>1, PutEffect DEF TxSchema, Paths
  <2>3. calm' \in [Pools -> BOOLEAN]
    BY <1>t, <1>10 DEF TypeOK, TxSchema
  <2>4. CASE conn[g] = "none"
    BY <1>t, <1>10, <2>1, <2>2, <2>3, <2>4, EndBase DEF TypeOK, TxSchema, EndStatement
  <2>5. CASE conn[g] # "none"
    BY <1>t, <1>10, <2>1, <2>2, <2>3, <2>5, MoveBase DEF TypeOK, TxSchema
  <2> QED BY <2>4, <2>5
<1>11. ASSUME NEW g \in Goroutines, EndQuery(g) PROVE Base'
  <2>1. /\ pool[g] \in Pools /\ stmt[g] \in Paths /\ pc[g] \in UsePlaces /\ conn[g] = "none"
    BY <1>t, <1>11 DEF TypeOK, PlaceInv, EndQuery, Running, UsePlaces
  <2>2. idle' \in IdleType
    BY <1>t, <1>11, <2>1, PutEffect DEF EndQuery
  <2> QED BY <1>t, <1>11, <2>1, <2>2, EndBase DEF TypeOK, EndQuery, EndStatement
<1>12. ASSUME NEW g \in Goroutines, EndTx(g) PROVE Base'
  <2>1. pool[g] \in Pools /\ stmt[g] = "none" /\ pc[g] = "tx"
    BY <1>t, <1>12 DEF TypeOK, PlaceInv, EndTx, Statements
  <2>2. conn[g] \in Paths
    BY <1>t, <1>12, <2>1 DEF TypeOK, PlaceInv
  <2>3. idle' \in IdleType
    BY <1>t, <1>12, <2>1, <2>2, PutEffect DEF EndTx
  <2> QED BY <1>t, <1>12, <2>1, <2>3, EndBase DEF TypeOK, EndTx
<1> QED BY <1>1, <1>2, <1>3, <1>4, <1>5, <1>6, <1>7, <1>8, <1>9, <1>10, <1>11, <1>12 DEF Next
-------------------------------------------------------------------------------
(* The connections of a calm pool. *)

LEMMA PoolInit == Init => PoolInv
  BY DEF Init, PoolInv, UseInv, PathInv, SpareInv, Paths, UsePlaces

\* A call that begins: the pool is calm only when nobody else uses it, so that it has an
\* idle connection.
LEMMA CallPool ==
  ASSUME Base, PoolInv, NEW g \in Goroutines, NEW p \in Pools, CallTx(g, p) \/ CallQuery(g, p)
  PROVE  PoolInv'
<1> USE DEF Base
<1>1. PICK to \in {"begin", "query"} : pc' = [pc EXCEPT ![g] = to]
  BY DEF CallTx, CallQuery, Goto
<1>2. /\ pc[g] = "idle" /\ status[p] = "ok" /\ pool' = [pool EXCEPT ![g] = p]
      /\ UNCHANGED <<idle, status, conn, stmt>>
      /\ calm' = [calm EXCEPT ![p] = @ /\ ~ \E h \in Goroutines : Using(h, p)]
  BY DEF CallTx, CallQuery, Disturbs
<1>3. \A q \in Pools : calm'[q] => calm[q]
  BY <1>2, Zenon DEF TypeOK
<1>4. calm'[p] => \A h \in Goroutines : pc[h] \in UsePlaces => pool[h] # p
  BY <1>2, Zenon DEF TypeOK, Using, UsePlaces
<1>5. /\ pc'[g] = to /\ pool'[g] = p
      /\ \A h \in Goroutines \ {g} : pc'[h] = pc[h] /\ pool'[h] = pool[h]
  BY <1>1, <1>2 DEF TypeOK
<1>6. conn[g] = "none" /\ stmt[g] = "none"
  BY <1>2 DEF TypeOK, PlaceInv, Statements
<1>7. \A h \in Goroutines : pool'[h] \in Pools \/ (pc[h] = "idle" /\ h # g)
  <2>1. \A h \in Goroutines : pool[h] \in Pools \/ pc[h] = "idle"
    BY DEF TypeOK, PlaceInv
  <2> QED BY <1>5, <2>1
<1>8. UseInv'
  BY <1>2, <1>3, <1>4, <1>5, <1>7 DEF PoolInv, UseInv, UsePlaces
<1>9. PathInv'
  BY <1>2, <1>3, <1>5, <1>6 DEF PoolInv, PathInv
<1>10. SpareInv'
  <2>1. calm'[p] => idle[p]["own"] > 0
    BY <1>2, <1>3, <1>4 DEF PoolInv, SpareInv
  <2>2. ASSUME NEW q \in Pools, calm'[q], status'[q] = "ok",
               \A h \in Goroutines : pc'[h] \in UsePlaces => pool'[h] # q
        PROVE  idle'[q]["own"] > 0
    <3>1. q # p
      BY <1>5, <2>2 DEF UsePlaces
    <3>2. \A h \in Goroutines : pc[h] \in UsePlaces => pool[h] # q
      BY <1>2, <1>5, <2>2 DEF UsePlaces
    <3> QED BY <1>2, <1>3, <2>2, <3>2 DEF PoolInv, SpareInv
  <2>3. ASSUME NEW h \in Goroutines, pc'[h] \in {"begin", "query", "up", "configureSchema"},
               stmt'[h] = "none", calm'[pool'[h]]
        PROVE  idle'[pool'[h]]["own"] > 0
    BY <1>2, <1>3, <1>5, <1>7, <2>1, <2>3 DEF PoolInv, SpareInv
  <2> QED BY <2>2, <2>3 DEF SpareInv
<1> QED BY <1>8, <1>9, <1>10 DEF PoolInv

\* A statement takes a connection: in a calm pool the one that is there, and nobody else
\* is waiting for it.
LEMMA TakePool ==
  ASSUME Base, PoolInv, NEW g \in Goroutines, Take(g)
  PROVE  PoolInv'
<1> USE DEF Base
<1>1. /\ pool[g] \in Pools /\ idle' \in IdleType
      /\ \A q \in Pools \ {pool[g]} : idle'[q] = idle[q]
      /\ idle[pool[g]]["public"] = 0 => idle'[pool[g]]["public"] = 0
  BY TakeEffect
<1>2. PICK s \in Paths : /\ stmt' = [stmt EXCEPT ![g] = s]
                         /\ s = "public" => \/ idle[pool[g]]["public"] > 0
                                            \/ idle[pool[g]]["own"] = 0
  BY TakeEffect
<1>3. /\ pc[g] \in Statements /\ stmt[g] = "none"
      /\ UNCHANGED <<baseFS, status, migrated, alone, calm, pc, pool, at, conn>>
  BY DEF Take
<1>4. UseInv'
  BY <1>3 DEF PoolInv, UseInv
<1>5. PathInv'
  <2>1. \A p \in Pools : calm'[p] /\ status'[p] # "failed" => idle'[p]["public"] = 0
    BY <1>1, <1>3 DEF PoolInv, PathInv
  <2>2. ASSUME calm[pool[g]], pc[g] \in {"begin", "query", "up", "configureSchema"}
        PROVE  s # "public"
    <3>1. status[pool[g]] # "failed"
      BY <2>2 DEF PlaceInv, ConfigurePlaces, UsePlaces
    <3>2. idle[pool[g]]["public"] = 0 /\ idle[pool[g]]["own"] > 0
      BY <1>1, <1>3, <2>2, <3>1 DEF PoolInv, PathInv, SpareInv
    <3> QED BY <1>2, <3>2
  <2>3. stmt'[g] = s /\ \A h \in Goroutines \ {g} : stmt'[h] = stmt[h]
    BY <1>2 DEF TypeOK
  <2>4. \A h \in Goroutines :
          pool[h] \in Pools /\ calm[pool[h]] =>
            /\ conn[h] # "public"
            /\ pc[h] \in {"begin", "query", "up", "configureSchema"} => stmt'[h] # "public"
    BY <2>2, <2>3 DEF PoolInv, PathInv
  <2> QED BY <1>3, <2>1, <2>4 DEF PathInv
<1>6. SpareInv'
  <2>1. stmt'[g] # "none" /\ \A h \in Goroutines \ {g} : stmt'[h] = stmt[h]
    BY <1>2 DEF TypeOK, Paths
  <2>2. ASSUME NEW q \in Pools, calm[q], status[q] = "ok",
               \A h \in Goroutines : pc[h] \in UsePlaces => pool[h] # q
        PROVE  idle'[q]["own"] > 0
    <3>1. q # pool[g]
      BY <1>3, <2>2 DEF PlaceInv, UsePlaces, ConfigurePlaces, Statements
    <3> QED BY <1>1, <2>2, <3>1 DEF PoolInv, SpareInv
  <2>3. ASSUME NEW h \in Goroutines, pc[h] \in {"begin", "query", "up", "configureSchema"},
               stmt'[h] = "none", calm[pool[h]]
        PROVE  idle'[pool[h]]["own"] > 0
    <3>1. h # g /\ stmt[h] = "none"
      BY <2>1, <2>3
    <3>2. pool[h] \in Pools
      BY <2>3 DEF TypeOK, PlaceInv
    <3>3. pool[h] # pool[g]
      BY <1>3, <2>3, <3>1
         DEF PlaceInv, SoleInv, PoolInv, UseInv, ConfigurePlaces, UsePlaces, Statements
    <3> QED BY <1>1, <2>3, <3>1, <3>2, <3>3 DEF PoolInv, SpareInv
  <2> QED BY <1>3, <2>2, <2>3 DEF SpareInv
<1> QED BY <1>4, <1>5, <1>6 DEF PoolInv
\* A goroutine that is done with a connection of its pool, whatever it does next, leaves
\* the pool as it must be if it gives an own connection back, or if the pool is no longer
\* calm or has failed.
LEMMA EndPool ==
  ASSUME Base, PoolInv, NEW g \in Goroutines, NEW p \in Pools, pool[g] = p,
         idle' \in IdleType, \A q \in Pools \ {p} : idle'[q] = idle[q],
         idle'[p]["own"] >= idle[p]["own"],
         calm'[p] /\ status'[p] # "failed" => idle'[p]["public"] = 0,
         \A q \in Pools : calm'[q] => calm[q],
         \A q \in Pools \ {p} : status'[q] = status[q],
         \A h \in Goroutines \ {g} :
           pc'[h] = pc[h] /\ pool'[h] = pool[h] /\ conn'[h] = conn[h] /\ stmt'[h] = stmt[h],
         pool'[g] \in {p, NoPool}, stmt'[g] = "none",
         pool'[g] = NoPool => pc'[g] = "idle",
         pc'[g] \in UsePlaces => pc[g] \in UsePlaces,
         pool'[g] = p /\ calm'[p] => conn'[g] # "public",
         /\ pc'[g] \notin UsePlaces /\ calm'[p] /\ status'[p] = "ok"
         /\ pc[g] \in UsePlaces \/ status[p] # "ok"
         => idle'[p]["own"] > 0,
         pc'[g] \in {"begin", "query", "up", "configureSchema"} /\ calm'[p] => idle'[p]["own"] > 0
  PROVE  PoolInv'
<1> USE DEF Base
<1>1. \A h \in Goroutines : pc[h] # "idle" => pool[h] \in Pools
  BY DEF TypeOK, PlaceInv
<1>2. NoPool \notin Pools
  BY PoolAssumption
<1>3. UseInv'
  BY <1>1, <1>2 DEF PoolInv, UseInv, UsePlaces
<1>4. PathInv'
  <2>1. \A q \in Pools : calm'[q] /\ status'[q] # "failed" => idle'[q]["public"] = 0
    BY DEF PoolInv, PathInv
  <2>2. ASSUME NEW h \in Goroutines, pool'[h] \in Pools, calm'[pool'[h]]
        PROVE  /\ conn'[h] # "public"
               /\ pc'[h] \in {"begin", "query", "up", "configureSchema"} => stmt'[h] # "public"
    BY <1>2, <2>2 DEF PoolInv, PathInv
  <2> QED BY <2>1, <2>2 DEF PathInv
<1>5. SpareInv'
  <2>1. ASSUME NEW q \in Pools, calm'[q], status'[q] = "ok",
               \A h \in Goroutines : pc'[h] \in UsePlaces => pool'[h] # q
        PROVE  idle'[q]["own"] > 0
    <3>1. CASE q # p
      <4>1. \A h \in Goroutines : pc[h] \in UsePlaces => pool[h] # q
        BY <2>1, <3>1
      <4> QED BY <2>1, <3>1, <4>1 DEF PoolInv, SpareInv
    <3>2. CASE q = p /\ pc[g] \notin UsePlaces /\ status[p] = "ok"
      <4>1. \A h \in Goroutines : pc[h] \in UsePlaces => pool[h] # q
        BY <2>1, <3>2
      <4>2. idle[p]["own"] > 0
        BY <2>1, <3>2, <4>1 DEF PoolInv, SpareInv
      <4>3. idle[p]["own"] \in Nat /\ idle'[p]["own"] \in Nat
        BY PoolAssumption DEF TypeOK, IdleType, Paths
      <4> QED BY <3>2, <4>2, <4>3
    <3>3. CASE q = p /\ (pc[g] \in UsePlaces \/ status[p] # "ok")
      BY <1>2, <2>1, <3>3 DEF UsePlaces
    <3> QED BY <3>1, <3>2, <3>3
  <2>2. ASSUME NEW h \in Goroutines, pc'[h] \in {"begin", "query", "up", "configureSchema"},
               stmt'[h] = "none", calm'[pool'[h]]
        PROVE  idle'[pool'[h]]["own"] > 0
    <3>1. CASE h = g
      BY <2>2, <3>1
    <3>2. CASE h # g
      <4>1. idle[pool[h]]["own"] > 0 /\ pool[h] \in Pools
        BY <1>1, <2>2, <3>2 DEF PoolInv, SpareInv
      <4>2. idle[p]["own"] \in Nat /\ idle'[p]["own"] \in Nat
        BY PoolAssumption DEF TypeOK, IdleType, Paths
      <4> QED BY <2>2, <3>2, <4>1, <4>2
    <3> QED BY <3>1, <3>2
  <2> QED BY <2>1, <2>2 DEF SpareInv
<1> QED BY <1>3, <1>4, <1>5 DEF PoolInv
LEMMA PoolStep == ASSUME Base, PoolInv, Next PROVE PoolInv'
<1> USE DEF Base
<1>t. TypeOK /\ PlaceInv /\ SoleInv /\ idle \in IdleType
  BY DEF TypeOK, IdleType
<1>n. \A q \in Pools, t \in Paths : idle[q][t] \in Nat
  BY <1>t, PoolAssumption DEF IdleType
<1>1. ASSUME NEW g \in Goroutines, NEW p \in Pools, Configure(g, p) PROVE PoolInv'
  <2>1. /\ \A h \in Goroutines \ {g} : pc'[h] = pc[h] /\ pool'[h] = pool[h]
        /\ pc'[g] = "baseFS" /\ conn[g] = "none" /\ pc[g] = "idle"
        /\ \A q \in Pools : status'[q] = IF q = p THEN "busy" ELSE status[q]
        /\ status[p] = "new" /\ UNCHANGED <<idle, calm, conn, stmt>>
    <3>1. /\ pc[g] = "idle" /\ status[p] = "new"
          /\ pc' = [pc EXCEPT ![g] = "baseFS"] /\ pool' = [pool EXCEPT ![g] = p]
          /\ status' = [status EXCEPT ![p] = "busy"] /\ UNCHANGED <<idle, calm, conn, stmt>>
      BY <1>1 DEF Configure, Goto
    <3>2. conn[g] = "none"
      BY <3>1, Whereabouts
    <3> QED BY <1>t, <3>1, <3>2 DEF TypeOK
  <2>2. \A h \in Goroutines : pc[h] # "idle" => pool[h] \in Pools
    BY <1>t DEF TypeOK, PlaceInv
  <2>3. UseInv'
    BY <2>1 DEF PoolInv, UseInv, UsePlaces
  <2>4. PathInv'
    BY <2>1 DEF PoolInv, PathInv
  <2>5. SpareInv'
    <3>1. ASSUME NEW q \in Pools, calm'[q], status'[q] = "ok",
                 \A h \in Goroutines : pc'[h] \in UsePlaces => pool'[h] # q
          PROVE  idle'[q]["own"] > 0
      <4>1. \A h \in Goroutines : pc[h] \in UsePlaces => pool[h] # q
        BY <2>1, <3>1 DEF UsePlaces
      <4> QED BY <2>1, <3>1, <4>1 DEF PoolInv, SpareInv
    <3>2. ASSUME NEW h \in Goroutines, pc'[h] \in {"begin", "query", "up", "configureSchema"},
                 stmt'[h] = "none", calm'[pool'[h]]
          PROVE  idle'[pool'[h]]["own"] > 0
      BY <2>1, <3>2 DEF PoolInv, SpareInv
    <3> QED BY <3>1, <3>2 DEF SpareInv
  <2> QED BY <2>3, <2>4, <2>5 DEF PoolInv
<1>2. ASSUME NEW g \in Goroutines, NEW p \in Pools, CallTx(g, p) \/ CallQuery(g, p) PROVE PoolInv'
  BY <1>2, CallPool
<1>3. ASSUME NEW g \in Goroutines, Take(g) PROVE PoolInv'
  BY <1>3, TakePool
<1>4. ASSUME NEW p \in Pools, LoseConnection(p) PROVE PoolInv'
  <2>1. \A q \in Pools \ {p} : idle'[q] = idle[q]
    BY <1>t, <1>4, LossEffect DEF LoseConnection
  <2>2. UNCHANGED <<status, pc, pool, conn, stmt>>
    BY <1>4 DEF LoseConnection, goroutines
  <2>3. ~calm'[p] /\ \A q \in Pools : calm'[q] => q # p /\ calm[q]
    BY <1>t, <1>4 DEF LoseConnection, TypeOK
  <2>4. \A h \in Goroutines : pc[h] # "idle" => pool[h] \in Pools
    BY <1>t DEF TypeOK, PlaceInv
  <2>5. UseInv'
    BY <2>2, <2>3, <2>4 DEF PoolInv, UseInv, UsePlaces
  <2>6. PathInv'
    BY <2>1, <2>2, <2>3 DEF PoolInv, PathInv
  <2>7. SpareInv'
    BY <2>1, <2>2, <2>3, <2>4 DEF PoolInv, SpareInv
  <2> QED BY <2>5, <2>6, <2>7 DEF PoolInv
<1>5. ASSUME NEW g \in Goroutines, SetBaseFS(g) PROVE PoolInv'
  <2>1. pool[g] \in Pools /\ pc[g] = "baseFS" /\ stmt[g] = "none" /\ conn[g] = "none"
    BY <1>t, <1>5 DEF TypeOK, PlaceInv, SetBaseFS, Statements
  <2>2. /\ pc' = [pc EXCEPT ![g] = "migratePath"]
        /\ UNCHANGED <<idle, status, calm, pool, conn, stmt>>
    BY <1>5 DEF SetBaseFS, Goto
  <2>3. status[pool[g]] = "busy"
    BY <1>t, <2>1 DEF PlaceInv, ConfigurePlaces
  <2>4. pc'[g] = "migratePath" /\ \A h \in Goroutines \ {g} : pc'[h] = pc[h]
    BY <1>t, <2>2 DEF TypeOK
  <2>5. calm'[pool[g]] => idle'[pool[g]]["public"] = 0
    BY <2>1, <2>2, <2>3 DEF PoolInv, PathInv
  <2>6. idle'[pool[g]]["own"] >= idle[pool[g]]["own"]
    BY <1>n, <2>1, <2>2 DEF Paths
  <2>7. /\ idle' \in IdleType /\ \A q \in Pools \ {pool[g]} : idle'[q] = idle[q]
        /\ \A q \in Pools : calm'[q] => calm[q]
        /\ \A q \in Pools \ {pool[g]} : status'[q] = status[q]
        /\ \A h \in Goroutines \ {g} :
             pc'[h] = pc[h] /\ pool'[h] = pool[h] /\ conn'[h] = conn[h] /\ stmt'[h] = stmt[h]
        /\ pool'[g] = pool[g] /\ conn'[g] = "none" /\ stmt'[g] = "none"
        /\ status'[pool[g]] = "busy"
    BY <1>t, <2>1, <2>2, <2>3, <2>4
  <2>8. pool[g] # NoPool
    BY <2>1, PoolAssumption
  <2> QED BY <2>1, <2>4, <2>5, <2>6, <2>7, <2>8, EndPool DEF UsePlaces
<1>6. ASSUME NEW g \in Goroutines, MigratePath(g) PROVE PoolInv'
  <2>1. /\ pool[g] \in Pools /\ stmt[g] \in Paths /\ pc[g] = "migratePath" /\ conn[g] = "none"
        /\ status[pool[g]] = "busy"
    BY <1>t, <1>6 DEF TypeOK, PlaceInv, MigratePath, Running, ConfigurePlaces
  <2>2. UNCHANGED <<calm, conn>> /\ stmt' = [stmt EXCEPT ![g] = "none"]
    BY <1>6 DEF MigratePath, EndStatement
  <2>3. CASE Put(pool[g], "own") /\ Goto(g, "up") /\ UNCHANGED <<status, pool, at>>
    <3>1. /\ idle' \in IdleType /\ \A q \in Pools \ {pool[g]} : idle'[q] = idle[q]
          /\ idle'[pool[g]]["own"] >= idle[pool[g]]["own"]
          /\ idle'[pool[g]]["public"] = idle[pool[g]]["public"]
          /\ idle[pool[g]]["public"] = 0 => idle'[pool[g]]["own"] > 0
      BY <1>t, <2>1, <2>3, PutEffect DEF Paths
    <3>2. calm[pool[g]] => idle[pool[g]]["public"] = 0
      BY <2>1 DEF PoolInv, PathInv
    <3>3. /\ pc'[g] = "up" /\ stmt'[g] = "none"
          /\ \A h \in Goroutines \ {g} : pc'[h] = pc[h] /\ stmt'[h] = stmt[h]
      BY <1>t, <2>2, <2>3 DEF TypeOK, Goto
    <3>4. calm'[pool[g]] => idle'[pool[g]]["public"] = 0 /\ idle'[pool[g]]["own"] > 0
      BY <2>2, <3>1, <3>2
    <3>5. /\ \A q \in Pools : calm'[q] => calm[q]
          /\ \A q \in Pools : status'[q] = status[q]
          /\ \A h \in Goroutines : pool'[h] = pool[h] /\ conn'[h] = conn[h]
          /\ conn'[g] = "none"
      BY <2>1, <2>2, <2>3
    <3>6. pool[g] # NoPool
      BY <2>1, PoolAssumption
    <3> QED BY <2>1, <3>1, <3>3, <3>4, <3>5, <3>6, EndPool DEF UsePlaces
  <2>4. CASE Put(pool[g], stmt[g]) /\ Configured(g, "failed")
    <3>1. /\ idle' \in IdleType /\ \A q \in Pools \ {pool[g]} : idle'[q] = idle[q]
          /\ idle'[pool[g]]["own"] >= idle[pool[g]]["own"]
      BY <1>t, <2>1, <2>4, PutEffect DEF Paths
    <3>2. /\ pc'[g] = "idle" /\ stmt'[g] = "none" /\ pool'[g] = NoPool
          /\ status'[pool[g]] = "failed" /\ \A q \in Pools \ {pool[g]} : status'[q] = status[q]
          /\ \A h \in Goroutines \ {g} : pc'[h] = pc[h] /\ pool'[h] = pool[h] /\ stmt'[h] = stmt[h]
      BY <1>t, <2>1, <2>2, <2>4 DEF TypeOK, Goto, Configured
    <3> QED BY <1>t, <2>1, <2>2, <3>1, <3>2, EndPool, PoolAssumption DEF UsePlaces
  <2> QED BY <1>6, <2>3, <2>4 DEF MigratePath
<1>7. ASSUME NEW g \in Goroutines, Up(g) PROVE PoolInv'
  <2>1. /\ pool[g] \in Pools /\ stmt[g] \in Paths /\ pc[g] = "up" /\ conn[g] = "none"
        /\ status[pool[g]] = "busy" /\ pool[g] # NoPool
    BY <1>t, <1>7, PoolAssumption DEF TypeOK, PlaceInv, Up, Running, ConfigurePlaces
  <2>2. UNCHANGED <<calm, conn>> /\ stmt' = [stmt EXCEPT ![g] = "none"] /\ Put(pool[g], stmt[g])
    BY <1>7 DEF Up, EndStatement
  <2>3. calm[pool[g]] => idle[pool[g]]["public"] = 0 /\ stmt[g] = "own"
    BY <2>1 DEF PoolInv, PathInv, Paths
  <2>4. /\ idle' \in IdleType /\ \A q \in Pools \ {pool[g]} : idle'[q] = idle[q]
        /\ idle'[pool[g]]["own"] >= idle[pool[g]]["own"]
        /\ calm[pool[g]] => idle'[pool[g]]["public"] = 0 /\ idle'[pool[g]]["own"] > 0
    BY <1>t, <2>1, <2>2, <2>3, PutEffect DEF Paths
  <2>5. /\ \A q \in Pools : calm'[q] => calm[q]
        /\ \A h \in Goroutines \ {g} : conn'[h] = conn[h] /\ stmt'[h] = stmt[h]
        /\ conn'[g] = "none" /\ stmt'[g] = "none"
    BY <1>t, <2>1, <2>2 DEF TypeOK
  <2>6. CASE \/ Goto(g, "baseFS") /\ UNCHANGED <<status, pool>>
             \/ Goto(g, "configureSchema") /\ UNCHANGED <<status, pool>>
    <3>1. /\ pc'[g] \in {"baseFS", "configureSchema"}
          /\ \A h \in Goroutines \ {g} : pc'[h] = pc[h]
      BY <1>t, <2>6 DEF TypeOK, Goto
    <3> QED BY <2>1, <2>2, <2>4, <2>5, <2>6, <3>1, EndPool DEF UsePlaces
  <2>7. CASE Configured(g, "failed")
    <3>1. /\ pc'[g] = "idle" /\ pool'[g] = NoPool
          /\ status'[pool[g]] = "failed" /\ \A q \in Pools \ {pool[g]} : status'[q] = status[q]
          /\ \A h \in Goroutines \ {g} : pc'[h] = pc[h] /\ pool'[h] = pool[h]
      BY <1>t, <2>1, <2>7 DEF TypeOK, Goto, Configured
    <3> QED BY <2>1, <2>2, <2>4, <2>5, <3>1, EndPool DEF UsePlaces
  <2> QED BY <1>7, <2>6, <2>7 DEF Up
<1>8. ASSUME NEW g \in Goroutines, ConfigureSchema(g) PROVE PoolInv'
  <2>1. /\ pool[g] \in Pools /\ stmt[g] \in Paths /\ pc[g] = "configureSchema"
        /\ conn[g] = "none" /\ status[pool[g]] = "busy" /\ pool[g] # NoPool
    BY <1>8, Whereabouts DEF ConfigureSchema, Running, ConfigurePlaces
  <2>2. UNCHANGED <<calm, conn>> /\ stmt' = [stmt EXCEPT ![g] = "none"]
    BY <1>8 DEF ConfigureSchema, EndStatement
  <2>3. calm[pool[g]] => idle[pool[g]]["public"] = 0 /\ stmt[g] = "own"
    BY <2>1 DEF PoolInv, PathInv, Paths
  <2>4. PICK s \in Paths : Put(pool[g], s) /\ (s = "own" \/ s = stmt[g])
    BY <1>8, <2>1 DEF ConfigureSchema, Paths
  <2>5. /\ idle' \in IdleType /\ \A q \in Pools \ {pool[g]} : idle'[q] = idle[q]
        /\ idle'[pool[g]]["own"] >= idle[pool[g]]["own"]
        /\ calm[pool[g]] => idle'[pool[g]]["public"] = 0 /\ idle'[pool[g]]["own"] > 0
    BY <1>t, <2>1, <2>3, <2>4, PutEffect DEF Paths
  <2>6. /\ \A q \in Pools : calm'[q] => calm[q]
        /\ \A h \in Goroutines \ {g} : conn'[h] = conn[h] /\ stmt'[h] = stmt[h]
        /\ conn'[g] = "none" /\ stmt'[g] = "none"
    BY <1>t, <2>1, <2>2 DEF TypeOK
  <2>7. /\ pc'[g] = "idle" /\ pool'[g] = NoPool
        /\ \A q \in Pools \ {pool[g]} : status'[q] = status[q]
        /\ \A h \in Goroutines \ {g} : pc'[h] = pc[h] /\ pool'[h] = pool[h]
    BY <1>t, <1>8, <2>1 DEF TypeOK, ConfigureSchema, Goto, Configured
  <2> QED BY <2>1, <2>2, <2>5, <2>6, <2>7, EndPool DEF UsePlaces
<1>9. ASSUME NEW g \in Goroutines, Begin(g) PROVE PoolInv'
  <2>1. /\ pool[g] \in Pools /\ stmt[g] \in Paths /\ pc[g] = "begin"
        /\ conn[g] = "none" /\ status[pool[g]] = "ok" /\ pool[g] # NoPool
    BY <1>9, Whereabouts DEF Begin, Running, UsePlaces
  <2>2. /\ UNCHANGED <<status, calm, pool>> /\ stmt' = [stmt EXCEPT ![g] = "none"]
        /\ pc' = [pc EXCEPT ![g] = "txSchema"]
    BY <1>9 DEF Begin, EndStatement, Goto
  <2>3. calm[pool[g]] => idle[pool[g]]["public"] = 0 /\ stmt[g] = "own"
    BY <2>1 DEF PoolInv, PathInv, Paths
  <2>4. /\ idle' \in IdleType /\ \A q \in Pools \ {pool[g]} : idle'[q] = idle[q]
        /\ idle'[pool[g]]["own"] >= idle[pool[g]]["own"]
        /\ calm[pool[g]] => idle'[pool[g]]["public"] = 0
    <3>1. CASE Put(pool[g], stmt[g])
      BY <1>t, <2>1, <2>3, <3>1, PutEffect DEF Paths
    <3>2. CASE UNCHANGED idle
      BY <1>t, <1>n, <2>1, <2>3, <3>2 DEF Paths
    <3> QED BY <1>9, <3>1, <3>2 DEF Begin
  <2>5. /\ conn'[g] \in {"none", stmt[g]}
        /\ \A h \in Goroutines \ {g} : conn'[h] = conn[h]
    BY <1>t, <1>9, <2>1 DEF Begin, TypeOK
  <2>6. calm[pool[g]] => conn'[g] # "public"
    BY <2>3, <2>5
  <2>7. /\ \A q \in Pools : calm'[q] => calm[q]
        /\ \A h \in Goroutines \ {g} : pc'[h] = pc[h] /\ stmt'[h] = stmt[h]
        /\ pc'[g] = "txSchema" /\ stmt'[g] = "none"
    BY <1>t, <2>1, <2>2 DEF TypeOK
  <2> QED BY <2>1, <2>2, <2>4, <2>5, <2>6, <2>7, EndPool DEF UsePlaces
<1>10. ASSUME NEW g \in Goroutines, TxSchema(g) PROVE PoolInv'
  <2>1. /\ pool[g] \in Pools /\ stmt[g] \in Paths /\ pc[g] = "txSchema"
        /\ status[pool[g]] = "ok" /\ pool[g] # NoPool
    BY <1>10, Whereabouts DEF TxSchema, Running, UsePlaces
  <2>2. UNCHANGED <<status, conn>> /\ stmt' = [stmt EXCEPT ![g] = "none"]
    BY <1>10 DEF TxSchema, EndStatement
  <2>3. calm[pool[g]] => idle[pool[g]]["public"] = 0 /\ conn[g] # "public"
    BY <2>1 DEF PoolInv, PathInv
  <2>4. \/ Put(pool[g], "own") /\ UNCHANGED calm
        \/ Put(pool[g], stmt[g]) /\ calm' = [calm EXCEPT ![pool[g]] = FALSE]
    BY <1>10 DEF TxSchema
  <2>5. /\ \A q \in Pools : calm'[q] => calm[q]
        /\ calm'[pool[g]] => Put(pool[g], "own")
    BY <1>t, <2>1, <2>4 DEF TypeOK
  <2>6. /\ idle' \in IdleType /\ \A q \in Pools \ {pool[g]} : idle'[q] = idle[q]
        /\ idle'[pool[g]]["own"] >= idle[pool[g]]["own"]
    <3>1. CASE Put(pool[g], "own")
      BY <1>t, <2>1, <3>1, PutEffect DEF Paths
    <3>2. CASE Put(pool[g], stmt[g])
      BY <1>t, <2>1, <3>2, PutEffect DEF Paths
    <3> QED BY <2>4, <3>1, <3>2
  <2>7. calm'[pool[g]] => idle'[pool[g]]["public"] = 0 /\ idle'[pool[g]]["own"] > 0
    BY <1>t, <2>1, <2>3, <2>5, PutEffect DEF Paths
  <2>8. /\ \A h \in Goroutines \ {g} : pc'[h] = pc[h] /\ pool'[h] = pool[h] /\ stmt'[h] = stmt[h]
        /\ pc'[g] \in {"idle", "tx"} /\ stmt'[g] = "none"
        /\ pool'[g] \in {pool[g], NoPool} /\ (pool'[g] = NoPool => pc'[g] = "idle")
    BY <1>t, <1>10, <2>1, <2>2 DEF TypeOK, TxSchema, Goto
  <2>9. calm'[pool[g]] => conn'[g] # "public"
    BY <2>1, <2>2, <2>3, <2>5
  <2> QED BY <2>1, <2>2, <2>5, <2>6, <2>7, <2>8, <2>9, EndPool DEF UsePlaces
<1>11. ASSUME NEW g \in Goroutines, EndQuery(g) PROVE PoolInv'
  <2>1. /\ pool[g] \in Pools /\ stmt[g] \in Paths /\ pc[g] = "query"
        /\ conn[g] = "none" /\ status[pool[g]] = "ok" /\ pool[g] # NoPool
    BY <1>11, Whereabouts DEF EndQuery, Running, UsePlaces
  <2>2. /\ UNCHANGED <<status, calm, conn>> /\ stmt' = [stmt EXCEPT ![g] = "none"]
        /\ Put(pool[g], stmt[g]) /\ pc' = [pc EXCEPT ![g] = "idle"]
        /\ pool' = [pool EXCEPT ![g] = NoPool]
    BY <1>11 DEF EndQuery, EndStatement, Goto
  <2>3. calm[pool[g]] => idle[pool[g]]["public"] = 0 /\ stmt[g] = "own"
    BY <2>1 DEF PoolInv, PathInv, Paths
  <2>4. /\ idle' \in IdleType /\ \A q \in Pools \ {pool[g]} : idle'[q] = idle[q]
        /\ idle'[pool[g]]["own"] >= idle[pool[g]]["own"]
        /\ calm[pool[g]] => idle'[pool[g]]["public"] = 0 /\ idle'[pool[g]]["own"] > 0
    BY <1>t, <2>1, <2>2, <2>3, PutEffect DEF Paths
  <2>5. /\ \A q \in Pools : calm'[q] => calm[q]
        /\ \A h \in Goroutines \ {g} :
             pc'[h] = pc[h] /\ pool'[h] = pool[h] /\ conn'[h] = conn[h] /\ stmt'[h] = stmt[h]
        /\ pc'[g] = "idle" /\ pool'[g] = NoPool /\ conn'[g] = "none" /\ stmt'[g] = "none"
    BY <1>t, <2>1, <2>2 DEF TypeOK
  <2> QED BY <2>1, <2>2, <2>4, <2>5, EndPool DEF UsePlaces
<1>12. ASSUME NEW g \in Goroutines, EndTx(g) PROVE PoolInv'
  <2>1. /\ pool[g] \in Pools /\ stmt[g] = "none" /\ pc[g] = "tx"
        /\ conn[g] \in Paths /\ status[pool[g]] = "ok" /\ pool[g] # NoPool
    BY <1>t, <1>12, PoolAssumption DEF TypeOK, PlaceInv, EndTx, Statements
  <2>2. /\ UNCHANGED <<status, calm, stmt>> /\ conn' = [conn EXCEPT ![g] = "none"]
        /\ Put(pool[g], conn[g]) /\ pc' = [pc EXCEPT ![g] = "idle"]
        /\ pool' = [pool EXCEPT ![g] = NoPool]
    BY <1>12 DEF EndTx, Goto
  <2>3. calm[pool[g]] => idle[pool[g]]["public"] = 0 /\ conn[g] = "own"
    BY <2>1 DEF PoolInv, PathInv, Paths
  <2>4. /\ idle' \in IdleType /\ \A q \in Pools \ {pool[g]} : idle'[q] = idle[q]
        /\ idle'[pool[g]]["own"] >= idle[pool[g]]["own"]
        /\ calm[pool[g]] => idle'[pool[g]]["public"] = 0 /\ idle'[pool[g]]["own"] > 0
    BY <1>t, <2>1, <2>2, <2>3, PutEffect DEF Paths
  <2>5. /\ \A q \in Pools : calm'[q] => calm[q]
        /\ \A h \in Goroutines \ {g} :
             pc'[h] = pc[h] /\ pool'[h] = pool[h] /\ conn'[h] = conn[h] /\ stmt'[h] = stmt[h]
        /\ pc'[g] = "idle" /\ pool'[g] = NoPool /\ conn'[g] = "none" /\ stmt'[g] = "none"
    BY <1>t, <2>1, <2>2 DEF TypeOK
  <2> QED BY <2>1, <2>2, <2>4, <2>5, EndPool DEF UsePlaces
<1> QED BY <1>1, <1>2, <1>3, <1>4, <1>5, <1>6, <1>7, <1>8, <1>9, <1>10, <1>11, <1>12 DEF Next
-------------------------------------------------------------------------------
(* The migrations. *)

LEMMA MigrateInit == Init => MigrateInv
  BY DEF Init, MigrateInv, MigratingInv, NewInv, SoleConfigureMigratesAll, ConfigurePlaces

LEMMA ThroughNext ==
  ASSUME NEW n \in Nat \ {0}
  PROVE  Through(n - 1) \cup {[fs |-> n, path |-> "own"]} = Through(n)
<1>1. 1..n = 1..(n - 1) \cup {n}
  OBVIOUS
<1>2. [fs |-> n, path |-> "own"] \in Through(n)
  BY DEF Through
<1>3. \A x \in Through(n - 1) : x \in Through(n)
  BY <1>1 DEF Through
<1>4. ASSUME NEW x \in Through(n), x \notin Through(n - 1) PROVE x = [fs |-> n, path |-> "own"]
  <2>1. PICK i \in 1..n : x = [fs |-> i, path |-> "own"]
    BY DEF Through
  <2>2. CASE i \in 1..(n - 1)
    BY <1>4, <2>1, <2>2 DEF Through
  <2>3. CASE i = n
    BY <2>1, <2>3
  <2> QED BY <1>1, <2>2, <2>3
<1> QED BY <1>2, <1>3, <1>4

\* A step that migrates nothing and moves no goroutine within configure.
LEMMA MigrateFrame ==
  ASSUME Base, MigrateInv, UNCHANGED <<baseFS, migrated, alone>>,
         \A q \in Pools : calm'[q] => calm[q],
         \A q \in Pools : status'[q] \in {"new", "ok"} => status[q] = status'[q],
         \A h \in Goroutines : pc'[h] \in ConfigurePlaces =>
           pc'[h] = pc[h] /\ pool'[h] = pool[h] /\ at'[h] = at[h]
  PROVE  MigrateInv'
<1>1. \A h \in Goroutines : pc[h] \in ConfigurePlaces => pool[h] \in Pools
  BY DEF Base, TypeOK, PlaceInv, ConfigurePlaces
<1>2. MigratingInv'
  BY <1>1 DEF MigrateInv, MigratingInv
<1>3. NewInv' /\ SoleConfigureMigratesAll'
  BY DEF MigrateInv, NewInv, SoleConfigureMigratesAll
<1> QED BY <1>2, <1>3 DEF MigrateInv

\* A step within configure of one goroutine.
LEMMA MigrateMove ==
  ASSUME Base, MigrateInv, NEW g \in Goroutines, pc[g] \in ConfigurePlaces,
         pc'[g] \in ConfigurePlaces,
         UNCHANGED <<alone, calm, status, pool>>,
         \A h \in Goroutines \ {g} : pc'[h] = pc[h] /\ at'[h] = at[h],
         \A q \in Pools \ {pool[g]} : migrated'[q] = migrated[q],
         alone[pool[g]] =>
           /\ pc'[g] \in {"migratePath", "up"} => baseFS' = at'[g]
           /\ calm[pool[g]] =>
                migrated'[pool[g]] =
                  Through(IF pc'[g] = "configureSchema" THEN Sources ELSE at'[g] - 1)
  PROVE  MigrateInv'
<1>1. pool[g] \in Pools /\ status[pool[g]] = "busy"
  BY DEF Base, TypeOK, PlaceInv, ConfigurePlaces
<1>2. MigratingInv'
  <2> SUFFICES ASSUME NEW h \in Goroutines, pc'[h] \in ConfigurePlaces, alone[pool[h]]
               PROVE  /\ \A i \in Goroutines : pc'[i] \in ConfigurePlaces => i = h
                      /\ pc'[h] \in {"migratePath", "up"} => baseFS' = at'[h]
                      /\ calm[pool[h]] =>
                           migrated'[pool[h]] =
                             Through(IF pc'[h] = "configureSchema" THEN Sources ELSE at'[h] - 1)
    BY DEF MigratingInv
  <2>1. pc[h] \in ConfigurePlaces
    OBVIOUS
  <2>2. \A i \in Goroutines : pc[i] \in ConfigurePlaces => i = h
    BY <2>1 DEF MigrateInv, MigratingInv
  <2>3. h = g
    BY <2>2
  <2> QED BY <2>2, <2>3
<1>3. NewInv' /\ SoleConfigureMigratesAll'
  BY <1>1 DEF MigrateInv, NewInv, SoleConfigureMigratesAll
<1> QED BY <1>2, <1>3 DEF MigrateInv

LEMMA MigrateStep == ASSUME Base, PoolInv, MigrateInv, Next PROVE MigrateInv'
<1> USE DEF Base
<1>t. TypeOK /\ PlaceInv
  OBVIOUS
<1>1. ASSUME NEW g \in Goroutines, NEW p \in Pools, Configure(g, p) PROVE MigrateInv'
  <2>1. /\ pc'[g] = "baseFS" /\ pool'[g] = p /\ at'[g] = 1
        /\ \A h \in Goroutines \ {g} : pc'[h] = pc[h] /\ pool'[h] = pool[h] /\ at'[h] = at[h]
        /\ status[p] = "new" /\ \A q \in Pools : status'[q] = IF q = p THEN "busy" ELSE status[q]
        /\ UNCHANGED <<baseFS, calm, migrated>> /\ pc[g] = "idle"
    BY <1>t, <1>1, PoolAssumption DEF TypeOK, Configure, Goto
  <2>2. /\ alone'[p] => \A q \in Pools : status[q] # "busy"
        /\ \A q \in Pools \ {p} : alone'[q] => alone[q] /\ status[q] # "busy"
    <3>1. alone' = [q \in Pools |-> IF q = p THEN Configuring = {} ELSE alone[q] /\ q \notin Configuring]
      BY <1>1 DEF Configure
    <3>2. alone'[p] => Configuring = {}
      BY <3>1, Zenon
    <3>3. \A q \in Pools \ {p} : alone'[q] => alone[q] /\ q \notin Configuring
      BY <3>1, Zenon
    <3> QED BY <3>2, <3>3 DEF Configuring
  <2>3. \A h \in Goroutines : pc[h] \in ConfigurePlaces => pool[h] \in Pools /\ status[pool[h]] = "busy"
    BY <1>t DEF TypeOK, PlaceInv, ConfigurePlaces
  <2>4. MigratingInv'
    <3> SUFFICES ASSUME NEW h \in Goroutines, pc'[h] \in ConfigurePlaces, alone'[pool'[h]]
                 PROVE  /\ \A i \in Goroutines : pc'[i] \in ConfigurePlaces => i = h
                        /\ pc'[h] \in {"migratePath", "up"} => baseFS' = at'[h]
                        /\ calm'[pool'[h]] =>
                             migrated'[pool'[h]] =
                               Through(IF pc'[h] = "configureSchema" THEN Sources ELSE at'[h] - 1)
      BY DEF MigratingInv
    <3>1. h = g
      <4>1. ASSUME h # g PROVE FALSE
        <5>1. pc[h] \in ConfigurePlaces /\ pool'[h] = pool[h]
          BY <2>1, <4>1
        <5>2. pool[h] \in Pools /\ status[pool[h]] = "busy"
          BY <2>3, <5>1
        <5> QED BY <2>1, <2>2, <5>1, <5>2
      <4> QED BY <4>1
    <3>2. \A i \in Goroutines : pc'[i] \in ConfigurePlaces => i = h
      BY <2>1, <2>2, <2>3, <3>1
    <3>3. migrated'[p] = Through(0)
      <4>1. migrated[p] = {}
        BY <2>1 DEF MigrateInv, NewInv
      <4>2. Through(0) = {}
        BY DEF Through
      <4> QED BY <2>1, <4>1, <4>2
    <3> QED BY <2>1, <3>1, <3>2, <3>3
  <2>5. NewInv' /\ SoleConfigureMigratesAll'
    BY <2>1, <2>2 DEF MigrateInv, NewInv, SoleConfigureMigratesAll
  <2> QED BY <2>4, <2>5 DEF MigrateInv
<1>2. ASSUME NEW g \in Goroutines, NEW p \in Pools, CallTx(g, p) \/ CallQuery(g, p) PROVE MigrateInv'
  <2>1. calm' = [calm EXCEPT ![p] = @ /\ ~ \E h \in Goroutines : Using(h, p)]
    BY <1>2 DEF CallTx, CallQuery, Disturbs
  <2>2. \A q \in Pools : calm'[q] => calm[q]
    BY <1>t, <2>1, Zenon DEF TypeOK
  <2>3. /\ UNCHANGED <<baseFS, migrated, alone, status, at>> /\ pool' = [pool EXCEPT ![g] = p]
        /\ pc' = [pc EXCEPT ![g] = "begin"] \/ pc' = [pc EXCEPT ![g] = "query"]
    BY <1>2 DEF CallTx, CallQuery, Goto
  <2>4. \A h \in Goroutines : pc'[h] \in ConfigurePlaces => pc'[h] = pc[h] /\ pool'[h] = pool[h]
    BY <1>t, <2>3 DEF TypeOK, ConfigurePlaces
  <2> QED BY <2>2, <2>3, <2>4, MigrateFrame
<1>3. ASSUME NEW g \in Goroutines, Take(g) PROVE MigrateInv'
  BY <1>3, MigrateFrame DEF Take
<1>4. ASSUME NEW p \in Pools, LoseConnection(p) PROVE MigrateInv'
  <2>1. \A q \in Pools : calm'[q] => calm[q]
    BY <1>t, <1>4 DEF TypeOK, LoseConnection
  <2> QED BY <1>4, <2>1, MigrateFrame DEF LoseConnection, goroutines
<1>5. ASSUME NEW g \in Goroutines, SetBaseFS(g) PROVE MigrateInv'
  <2>1. /\ pc[g] \in ConfigurePlaces /\ pc'[g] = "migratePath" /\ pc[g] = "baseFS"
        /\ baseFS' = at[g] /\ UNCHANGED <<alone, calm, status, pool, at, migrated>>
        /\ \A h \in Goroutines \ {g} : pc'[h] = pc[h]
    BY <1>t, <1>5 DEF TypeOK, SetBaseFS, Goto, ConfigurePlaces
  <2>2. alone[pool[g]] /\ calm[pool[g]] => migrated[pool[g]] = Through(at[g] - 1)
    BY <2>1 DEF MigrateInv, MigratingInv
  <2> QED BY <2>1, <2>2, MigrateMove DEF ConfigurePlaces
<1>6. ASSUME NEW g \in Goroutines, MigratePath(g) PROVE MigrateInv'
  <2>1. /\ pc[g] = "migratePath" /\ UNCHANGED <<baseFS, migrated, alone, calm>>
    BY <1>6 DEF MigratePath, Running
  <2>2. CASE Goto(g, "up") /\ UNCHANGED <<status, pool, at>>
    <3>1. pc'[g] = "up" /\ \A h \in Goroutines \ {g} : pc'[h] = pc[h]
      BY <1>t, <2>2 DEF TypeOK, Goto
    <3>2. alone[pool[g]] => /\ baseFS = at[g]
                            /\ calm[pool[g]] => migrated[pool[g]] = Through(at[g] - 1)
      BY <2>1 DEF MigrateInv, MigratingInv, ConfigurePlaces
    <3> QED BY <2>1, <2>2, <3>1, <3>2, MigrateMove DEF ConfigurePlaces
  <2>3. CASE Configured(g, "failed")
    <3>1. /\ \A q \in Pools : status'[q] \in {"new", "ok"} => status[q] = status'[q]
          /\ \A h \in Goroutines : pc'[h] \in ConfigurePlaces =>
               pc'[h] = pc[h] /\ pool'[h] = pool[h] /\ at'[h] = at[h]
      BY <1>t, <2>3 DEF TypeOK, Configured, Goto, ConfigurePlaces
    <3> QED BY <2>1, <3>1, MigrateFrame
  <2> QED BY <1>6, <2>2, <2>3 DEF MigratePath
<1>7. ASSUME NEW g \in Goroutines, Up(g) PROVE MigrateInv'
  <2>1. /\ pc[g] = "up" /\ pool[g] \in Pools /\ at[g] \in 1..Sources
        /\ stmt[g] \in Paths /\ UNCHANGED <<baseFS, alone, calm>>
    BY <1>t, <1>7, PoolAssumption DEF TypeOK, PlaceInv, Up, Running, ConfigurePlaces
  <2>2. CASE /\ migrated' = [migrated EXCEPT ![pool[g]] = @ \cup {[fs |-> baseFS, path |-> stmt[g]]}]
             /\ IF at[g] < Sources THEN Goto(g, "baseFS") /\ at' = [at EXCEPT ![g] = @ + 1]
                ELSE Goto(g, "configureSchema") /\ UNCHANGED at
             /\ UNCHANGED <<status, pool>>
    <3>1. /\ \A h \in Goroutines \ {g} : pc'[h] = pc[h] /\ at'[h] = at[h]
          /\ \A q \in Pools \ {pool[g]} : migrated'[q] = migrated[q]
          /\ pc'[g] \in {"baseFS", "configureSchema"}
          /\ (IF pc'[g] = "configureSchema" THEN Sources ELSE at'[g] - 1) = at[g]
      <4>1. \A q \in Pools \ {pool[g]} : migrated'[q] = migrated[q]
        BY <1>t, <2>2 DEF TypeOK
      <4>2. CASE at[g] < Sources
        <5>1. pc' = [pc EXCEPT ![g] = "baseFS"] /\ at' = [at EXCEPT ![g] = @ + 1]
          BY <2>2, <4>2 DEF Goto
        <5>2. at'[g] - 1 = at[g]
          BY <1>t, <2>1, <5>1 DEF TypeOK
        <5> QED BY <1>t, <4>1, <5>1, <5>2 DEF TypeOK
      <4>3. CASE ~ at[g] < Sources
        <5>1. at[g] = Sources
          BY <2>1, <4>3, PoolAssumption
        <5> QED BY <1>t, <2>2, <4>1, <4>3, <5>1 DEF TypeOK, Goto
      <4> QED BY <4>2, <4>3
    <3>2. ASSUME alone[pool[g]], calm[pool[g]] PROVE migrated'[pool[g]] = Through(at[g])
      <4>1. baseFS = at[g] /\ migrated[pool[g]] = Through(at[g] - 1)
        BY <2>1, <3>2 DEF MigrateInv, MigratingInv, ConfigurePlaces
      <4>2. stmt[g] = "own"
        BY <2>1, <3>2 DEF PoolInv, PathInv, Paths
      <4>3. migrated'[pool[g]] = Through(at[g] - 1) \cup {[fs |-> at[g], path |-> "own"]}
        BY <1>t, <2>1, <2>2, <4>1, <4>2 DEF TypeOK
      <4> QED BY <2>1, <4>3, ThroughNext, PoolAssumption
    <3> QED BY <2>1, <2>2, <3>1, <3>2, MigrateMove DEF ConfigurePlaces
  <2>3. CASE Configured(g, "failed") /\ UNCHANGED migrated
    <3>1. /\ \A q \in Pools : status'[q] \in {"new", "ok"} => status[q] = status'[q]
          /\ \A h \in Goroutines : pc'[h] \in ConfigurePlaces =>
               pc'[h] = pc[h] /\ pool'[h] = pool[h] /\ at'[h] = at[h]
      BY <1>t, <2>3 DEF TypeOK, Configured, Goto, ConfigurePlaces
    <3> QED BY <2>1, <2>3, <3>1, MigrateFrame
  <2> QED BY <1>7, <2>2, <2>3 DEF Up
<1>8. ASSUME NEW g \in Goroutines, ConfigureSchema(g) PROVE MigrateInv'
  <2>1. /\ pc[g] = "configureSchema" /\ pool[g] \in Pools /\ status[pool[g]] = "busy"
        /\ UNCHANGED <<baseFS, migrated, alone, calm>>
    BY <1>t, <1>8 DEF TypeOK, PlaceInv, ConfigureSchema, Running, ConfigurePlaces
  <2>2. PICK s \in {"ok", "failed"} : Configured(g, s)
    BY <1>8 DEF ConfigureSchema
  <2>3. /\ \A q \in Pools : status'[q] = IF q = pool[g] THEN s ELSE status[q]
        /\ \A h \in Goroutines : pc'[h] \in ConfigurePlaces =>
             pc'[h] = pc[h] /\ pool'[h] = pool[h] /\ at'[h] = at[h]
    BY <1>t, <2>1, <2>2 DEF TypeOK, Configured, Goto, ConfigurePlaces
  <2>4. alone[pool[g]] /\ calm[pool[g]] => migrated[pool[g]] = Through(Sources)
    BY <2>1 DEF MigrateInv, MigratingInv, ConfigurePlaces
  <2>5. \A h \in Goroutines : pc[h] \in ConfigurePlaces => pool[h] \in Pools
    BY <1>t DEF TypeOK, PlaceInv, ConfigurePlaces
  <2>6. MigratingInv'
    BY <2>1, <2>3, <2>5 DEF MigrateInv, MigratingInv
  <2>7. NewInv'
    BY <2>1, <2>3 DEF MigrateInv, NewInv
  <2>8. ASSUME NEW q \in Pools, status'[q] = "ok", alone'[q], calm'[q]
        PROVE  migrated'[q] = Through(Sources)
    <3>1. CASE q = pool[g]
      BY <2>1, <2>4, <2>8, <3>1
    <3>2. CASE q # pool[g]
      <4>1. status[q] = "ok" /\ alone[q] /\ calm[q] /\ migrated'[q] = migrated[q]
        BY <2>1, <2>3, <2>8, <3>2
      <4> QED BY <4>1 DEF MigrateInv, SoleConfigureMigratesAll, Through
    <3> QED BY <3>1, <3>2
  <2>9. SoleConfigureMigratesAll'
    BY <2>8 DEF SoleConfigureMigratesAll, Through
  <2> QED BY <2>6, <2>7, <2>9 DEF MigrateInv
<1>9. ASSUME NEW g \in Goroutines, Begin(g) \/ TxSchema(g) \/ EndTx(g) \/ EndQuery(g) PROVE MigrateInv'
  <2>1. /\ UNCHANGED <<baseFS, migrated, alone, status, at>>
        /\ \A h \in Goroutines : pc'[h] \in ConfigurePlaces => pc'[h] = pc[h] /\ pool'[h] = pool[h]
    <3>1. CASE Begin(g)
      BY <1>t, <3>1 DEF TypeOK, Begin, Goto, ConfigurePlaces
    <3>2. CASE TxSchema(g)
      BY <1>t, <3>2 DEF TypeOK, TxSchema, Goto, ConfigurePlaces
    <3>3. CASE EndTx(g) \/ EndQuery(g)
      BY <1>t, <3>3 DEF TypeOK, EndTx, EndQuery, Goto, ConfigurePlaces
    <3> QED BY <1>9, <3>1, <3>2, <3>3
  <2>2. \A q \in Pools : calm'[q] => calm[q]
    BY <1>t, <1>9 DEF TypeOK, Begin, TxSchema, EndTx, EndQuery
  <2> QED BY <2>1, <2>2, MigrateFrame
<1> QED BY <1>1, <1>2, <1>3, <1>4, <1>5, <1>6, <1>7, <1>8, <1>9 DEF Next

-------------------------------------------------------------------------------
(* The inductive invariant holds in every reachable state. *)
THEOREM Invariance == Spec => []IInv
<1>1. Init => IInv
  BY BaseInit, PoolInit, MigrateInit DEF IInv
<1>2. IInv /\ [Next]_vars => IInv'
  <2> SUFFICES ASSUME IInv, [Next]_vars PROVE IInv'
    OBVIOUS
  <2>1. CASE Next
    BY <2>1, BaseStep, PoolStep, MigrateStep DEF IInv
  <2>2. CASE UNCHANGED vars
    BY <2>2 DEF IInv, Base, TypeOK, PlaceInv, SoleInv, PoolInv, UseInv, PathInv, SpareInv,
                MigrateInv, MigratingInv, NewInv, SoleConfigureMigratesAll, vars, goroutines
  <2> QED BY <2>1, <2>2
<1> QED BY <1>1, <1>2, PTL DEF Spec

(* SchemaPool is well typed.  That the types of migrated and at are kept means that    *)
(* goose never migrates from a file system not set yet, and that configure stops at    *)
(* the last one; the types alone are not inductive.                                    *)
THEOREM Typing == Spec => []TypeOK
<1>1. IInv => TypeOK
  BY DEF IInv, Base
<1> QED BY <1>1, Invariance, PTL

(* For any number of goroutines, pools and idle connections: while no two calls that   *)
(* take a connection overlap, none is lost and no SET fails, every transaction and     *)
(* every query runs in the schema of its tenant, though SetSchema never touches the    *)
(* transaction it is called for.                                                       *)
THEOREM CalmPool == Spec => []CalmPoolStaysInSchema
<1>1. IInv => CalmPoolStaysInSchema
  BY DEF IInv, PoolInv, PathInv, CalmPoolStaysInSchema
<1> QED BY <1>1, Invariance, PTL

(* For any number of file systems: as long as the pool is calm, a configure that        *)
(* overlapped no other one has applied the migrations of every file system to the       *)
(* schema of its tenant, and nothing else.                                              *)
THEOREM SoleConfigure == Spec => []SoleConfigureMigratesAll
<1>1. IInv => SoleConfigureMigratesAll
  BY DEF IInv, MigrateInv
<1> QED BY <1>1, Invariance, PTL
=============================================================================
