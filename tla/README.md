# TLA+ models and proofs for foundation-go

foundation-go is a Go library for multi-tenant services: an application builder, a
component registry, a router on top of echo, a data source with one database per tenant,
and adapters for messages, caches, jobs, secrets, tokens and email.  This directory models
the parts of it that have state and concurrency, checks them with TLC on small instances
and proves the most important results with TLAPS for every instance.

All paths below are relative to `src/`.

## 1. The system

| Part | Code | State it keeps | Operations |
|---|---|---|---|
| Request transactions | `adapters/router_impl.go` 333-417, `adapters/connection_impl.go` 54-92, `adapters/em_impl.go` | per request: two transactions, the tenant, the context | middlewares, begin, handler, deferred commit or rollback |
| Router | `adapters/router_impl.go` | routes; per request the tenant and the authentication | `Init` chooses the tenant, `wrapHandler`, `Group`, `MCP` |
| Data source | `adapters/ds_impl.go`, `core/events.go` | `tenants`: key -> connection, no lock | `Init`, `Connection`, `DefaultConnection`, listener of `TenantCreatedEvent` |
| Database connection | `adapters/connection_impl.go` | a pool or a transaction, the schema; goose's globals | `configure`, `migrate`, `SetSchema`, `Tx`, `Commit`, `Rollback`, queries |
| Tenant providers | `adapters/tenants_impl.go` | a map of tenants; the HTTP one also the local cache | `Load`, `GetTenantList`, `GetTenant` |
| Component registry | `core/di.go` | `registry` and `cache`, one `RWMutex` | `Provide`, `Lookup`, `Resolve`, `MustResolve`, `Clear` |
| Application | `app/app.go` | the builder's configuration; the registry it fills | `Init`, `Start`, `Shutdown` |
| Short identifiers | `h/ids.go` | two atomics and a shared buffer | `Generate`, `NewId` |
| Local cache | `h/cache.go`, `adapters/secrets_vault_impl.go` 77-89 | the global `defaultCache`: ristretto with a TTL | `DefaultCache`, `Get`, `Set`, `GetOrSet` |
| Publish and subscribe | `adapters/pubsub_impl.go` | Redis subscriptions, a goroutine each; the fake's maps, no lock | `Publish`, `Subscribe` |
| Cache providers, idempotency | `adapters/cache_impl.go`, `adapters/idempotency_store.go` | keys in Redis or in a map | `Get`, `Set` |
| Job queue | `adapters/asynq_queue.go` | jobs in Redis | `Enqueue`, `GetJobStatus` |
| Tokens and CSRF | `adapters/token_impl.go`, `h/crypto.go` 105-166, `h/jwt.go`, `core/tenant.go` 29-48 | per instance: keys, a secret drawn at the start | `Create`, `Verify`, the permission middlewares |
| Email, MCP, health, i18n, logging, helpers | `adapters/`, `core/`, `h/` | little or none | calls of libraries, conversions |

**How the parts interact.**  `AppBuilder.Init` orders the features, creates the providers in
a fixed order, registers each with `f.Provide`, gives the data source the tenant provider and
the router the data source, and calls the hooks of the features.  For every request the
router's middleware asks the tenant provider whether the tenant exists; `wrapHandler` then
asks the data source for the default connection and that of the tenant, begins a transaction
on each, puts both into the context, runs the handler, which finds them through
`EntityManager`, and commits or rolls back in a deferred function.  A data source that does
not know a key loads all tenants again, in the goroutine of the request.  Whoever creates a
tenant fires `TenantCreatedEvent`, whose listener opens the pool of the tenant in the
goroutine that fires.  The tenant provider and the secrets of Vault read through the local
cache; the router takes permissions from a token and the middlewares of a route ask for them.
Handlers publish messages, enqueue jobs and look idempotency keys up on their own.

**What is hard.**  Requests run concurrently and share the unlocked map of the data source,
the registry, the local cache and the identifier generator.  Clients disconnect while a handler or a commit is
under way, and database/sql reacts in goroutines of its own.  Begins, commits, provider calls
and migrations fail one by one.  Panics cross the deferred function with values that are
errors and values that are not.  Maps are iterated in an order nobody chose.  Redis answers late or not at all, client
libraries repeat commands, instances restart with other keys and their clocks differ.
`PROJECT.json`
lists each of these hazards at its line, with the properties that cover it.

**What makes each part correct.**

- Request transactions: a panic never commits; both transactions share one fate; what a
  handler that returned has written is durable; no transaction is left open; a handler never
  sees the context of one tenant and the transaction of another; every request is answered.
- Data source: a key leads to a database of a tenant with that ID or slug; a tenant that was
  reachable stays reachable whatever fails; every pool of a tenant comes from a race of first
  lookups or from an attempt to connect that failed.
- Registry: every call behaves as if it were atomic; a singleton is never replaced before
  `Clear`; no deadlock.
- Application start: a set of features is refused exactly when it cannot be ordered; hooks
  follow dependencies; a failed start initialises nothing.
- Identifiers: two calls return different identifiers.
- Local cache: no answer is older than the time to live allows; values do not go back.
- Publish and subscribe: what is handled was published and asked for; an acknowledged message
  reaches whoever is connected, and is taken from the connection before a later message (when
  the handlers of the two run is left to the scheduler); a subscription gets over errors.
- Idempotency and jobs: requests with one key make one job and get its ID; the status of a
  job does not deceive.
- Tokens: good where and while they should be and nowhere else; no request is served without
  the permission its route asks for.

## 2. The modules

| Module | What it is |
|---|---|
| `RequestTx` | the bracket of transactions around a handler |
| `RequestTx_proof` | its theorems |
| `TenantDataSource` | the map of tenants and its users |
| `TenantDataSource_proof` | its theorems |
| `SchemaPool` | a tenant's pool under the strategy "schema": configure, migrate, SetSchema, Tx |
| `SchemaPool_proof` | its theorems |
| `Tenancy` | from the names a request carries to the database of its handler: router, provider, data source |
| `Tenancy_proof` | its theorems |
| `Singletons` | what the registry promises, without locks (abstract) |
| `DIRegistry` | the registry with its maps, its lock and the steps of `Lookup` |
| `FeatureInit` | the application's start |
| `ShortId` | the generator of identifiers |
| `Start_proof` | the theorems of `DIRegistry` (the refinement of `Singletons` among them), `FeatureInit` and `ShortId` |
| `LocalCache` | the process-wide cache on one key, with those who read through it |
| `Delivery` | what publish and subscribe promise (abstract) |
| `PubSub` | both providers of publish and subscribe on one topic |
| `Services_proof` | the theorems of `LocalCache` and of `PubSub` (the refinement of `Delivery` among them) |
| `JobQueue` | requests with idempotency keys, the jobs they enqueue and the status of these |
| `JobQueue_proof` | its theorems |
| `Tokens` | tokens over several instances, and the requests that carry them |
| `Tokens_proof` | its theorems |
| `MC...` | the instances TLC checks, one `.cfg` per run |

In every module the definitions named *Mutant* in a comment are plausible bugs of the
definition below them.  They are not part of the specification: each shows that one
property can fail.  Three components share `Start_proof` and two `Services_proof`; where a proof
module extends several, the names that would clash carry a prefix (`RegistryInit`, `IdInit`,
`CacheInit` and so on; `FeatureInit` and `PubSub` have plain `Init` and `Next`).

### RequestTx

`pc[r]` is where the goroutine of request `r` is in `wrapHandler`; each call it makes is an
action, and an action that fails in the code is a second action (`BeginTenant` and
`FailTenant`).  `tx[r]` holds the two transactions; `dirty` and `durable` say which were
written in and which of those writes reached the database; `exit[r]` is the way the body was
left: a nil return, an error, a panic with an error, a panic with anything else.
`formatError` writes the answer and returns nil, so a handler that returned an error and one
that returned nil leave with the same exit.

Three points of the code shape the model.  The deferred function converts the value of
`recover()` with `err.(error)` before it looks at `inTx`: with any other value it panics
again (`DeferRepanics`) and nothing is rolled back.  The handler commits when it *returns*,
with an error too.  And the tenant used for the connection is read again from the context,
after the copy in `tenantId`.  `EchoEnds`, `ClientGone` and `DriverRollsBack` stand for echo,
net/http and database/sql; `Arrive` for the router's middleware, which gives the request
some tenant or none.

### TenantDataSource

A goroutine runs `Init`, `Connection` or the listener; `pc[g]` steps through `init` and
`initTenant`, one action for each access to the map, because the map has no lock.  A pool is
its position in `pools`, the list of pools ever opened; nothing closes one, not even `configure`
when a migration or the SET fails after it has opened the pool: the failing branch of `Connect`
may leave one (`LeavesPool`).  `failed` lists the attempts that failed, at most `MaxFailures` of
them.  `MapRace` is the
Go runtime's right to stop the process when two goroutines are at the map and one writes; the
properties say what holds as long as it has not.  The IDs and slugs are given by `naming`;
nothing in the code makes them distinct, so the checked instances include a slug that is
another tenant's ID and two equal slugs.

### SchemaPool

Under the strategy "schema" all tenants share one Postgres database, each with a pool of its
own, and nothing but the `search_path` of the physical connections keeps them apart.  A
connection is its `search_path` ("own", or "public" for a new one); `idle[p]` counts the idle
ones of a pool.  Every statement takes a connection (`Take`: an idle one, or a new one when
there is none), runs and gives it back (`Put`, which closes it when `MaxIdle` are idle);
`LoseConnection` is the server closing one.  These are database/sql, not `src/`.  A goroutine
runs `configure` (for each file system `SetBaseFS`, `MigratePath`, `Up`, then
`ConfigureSchema`), a transaction (`Begin`, `TxSchema`, `EndTx`) or a query.  `baseFS` is
goose's global.  `alone` and `calm` are histories: no other configure overlapped that of the
pool; no two calls that take a connection overlapped, none was lost, no SET failed.

What the code does is not what it seems to do.  `Tx` calls `SetSchema` after `BeginTx`, on
the pool and not on the transaction, so the SET lands on *another* connection: the first
transaction runs in its schema because `configure` left a connection prepared, and each
`Tx` prepares one for the next.  `CalmPoolStaysInSchema` is exactly what that guarantees.
When calls overlap, the pool opens a connection whose `search_path` is "public" and the
statement runs there; the tests leave the strategy out (`adapters/ds_impl_test.go:483`,
"PostgreSQL-specific features (schema strategy) are not tested here").

### Tenancy

Three parts know tenants and learn of them at different times: the service (or the file) that
lists them (`listed`), the provider the router asks (`known`) and the data source the
connection comes from (`served`).  `Arrive` is the router's middleware: the tenant is the
first name there is, in lower case, and it is dropped without an error when the provider does
not know it.  `Lookup` to `Relookup` are `Connection` with the two looks at the map and, in
between, `Load` in two steps, so that an answer can be late: by then another request may have
taken in a newer one.  An HTTP answer that is no success is not an error of the client library
and gives an empty list (`Answers`).  What is left of an answer is in `todo`, the tenant in hand
in `cur`: `CheckTenant` skips a tenant that is there under its ID, `StoreId` connects it and
stores it under its ID, `StoreSlug` under its slug, and between the two others look.  So does the
listener of an announced tenant, of which the provider is not told (`TenantCreated`,
`EventStoresId`, `EventStoresSlug`).  Only `InitDataSource` fills the map in one step, because
nobody looks before it has returned.  `delivered` and `changed` are histories.

Pools, failing connections with what they leave behind, and names that collide are the subject of
`TenantDataSource`, and transactions are the subject of `RequestTx`.  What a request carries
is a constant; the instance has requests whose names contradict each other, a tenant with an
upper-case ID, and one name (the host) no tenant has.  The keys of a file are IDs as they are
written, so with a file a request can give neither a slug nor an ID with upper-case letters: the
name is dropped and the handler gets the default database.  The properties say exactly when
that can and cannot happen.

### Singletons and DIRegistry

`Singletons` is the specification a caller wants: each operation takes effect in one step
between call and return, and the first component looked up is the one everybody gets until
`Clear`.  `DIRegistry` has the two maps, the read and the write lock with the announcement
that keeps new readers out, the fast path under the read lock, the gap between the two locks
and the second look under the write lock.  The refinement mapping is
`provided <- registry, resolved <- cache`; lock steps are stuttering steps.  A `Lookup` takes
effect where it reads the map that decides its answer.

### FeatureInit

`checkFeatures` and `orderFeatures` step by step, then the hooks and the providers; `next` and
`dep` are the indices of the outer loop and of the loop over the dependencies of one feature.
`SetToSeqs` in `CountDependencies` gives every order in which Go may iterate the map.
`Pop` decreases the counts of all dependents at once; the code does so in a loop, and since
`graph` lists dependents in the order of `loaded`, they join the queue in that order.
Nothing else reads the counts between.

### ShortId

Each atomic operation is an action, and so are the writes and the copy of each digit of the
shared buffer, which the code does not protect.  The widths of the code (36^8 and 12 bits of
counter) are constants; `WidthAssumption` states what the encoding must satisfy for
identifiers of one window to differ, and TLC evaluates it.  In the code the factor 2^22 in
front of the time shares 2^16 with 36^8 = 2^16 * 3^16, so identifiers repeat after 3^16 ms,
about twelve hours; the instance has 6^2 = 2^2 * 3^2 and a factor 2^2, so they repeat
after 3^2.

### LocalCache

One key, and goroutines that run Vault's `Get`, `GetTenantList` (both look into the cache
first) or `Load` (which does not).  `DefaultCache` is three actions because its global has no
lock: two goroutines that find it nil each make a cache, and the later assignment wins;
`TornRead` is the panic of a goroutine that reads the two words of the interface at that
moment.  `Miss`, `Fetch` and `Set` are the three moments of `GetOrSet`: between them the source
may change and others may read and set.  ristretto is external: `SetWithTTL` replaces an entry
at once, but a new one waits in a buffer until it is admitted or rejected, and may be dropped;
entries are evicted at any time.  Since the key names neither the mount nor the service, the
callers and sources of all of them are one.  `newest`, `floor`, `oldest`, `back` and `crossed`
are histories: what was answered so far, and whether reads and Sets overlapped.

### Delivery and PubSub

`Delivery` promises little: a message may be handed to any who have subscribed, each at most
once for every time it was sent out, in any order, and any delivery may be lost.  `PubSub` has
both providers.  With Redis, `Subscribe` starts a goroutine (`sub[s]`) that connects in its
first `ReceiveMessage`, takes messages from `queue[s]` and creates a goroutine for the handler
of each (`Spawn`; `spawned` counts those whose handler has not returned).  The scheduler runs
these goroutines in any order, so `HandlerReturns` takes any of them and no state says when a
handler began.  An error
sends it round again unless it is `context.Canceled`.  `Publish` sends, and go-redis sends again
when the answer does not come: `Execute` and `AttemptFails` alternate at most `Attempts` times.
`reach[m]` is a history: who was connected when `Publish(m)` began and has not lost the
connection since; `before[m]` is another: whose `Publish` had returned nil when it began.  The
fake calls handlers from maps without a lock: each update takes effect or is lost to another
(`Update`; `alone` says that none was).  A handler that returned counts in `handled`.  The
mapping to `Delivery` takes as due what is queued, has a goroutine, or is to get one.

### JobQueue

A request looks its key up, enqueues if it misses, and stores the ID of the job.  The
repository has the three calls and not the order; it is the one `core/idempotency.go` is for.  Each
call can fail after it took effect (`EnqueueFails`, `SetFails`) or before, and the process can
stop between two (`Crash`).  A missing key is an error with Redis and a panic with the map
(`GetMiss`).  `Work` is asynq: a task succeeds and is deleted, fails and is tried again, or is
archived after `MaxRetry`.  `GetJobStatus` asks the queue "default" and reads every error as "job
not found".  `disturbed` and `blind` are histories: keys to which one of the named accidents
happened, and jobs about which the inspector could not be asked.

### Tokens

Instances start with any of `Configs` and draw a CSRF secret, a new one at every start (`drawn`
counts the drawings and `secret[i]` is the number of the one that instance `i` has: 32 random
characters drawn twice are taken to differ).  A token is what its claims, times
and signing key are, and `VerifyCsrf` looks at these only; that a CSRF token also carries the
instance and the start that made it (`by`) is a history the property speaks of.  `SigningKey` and `VerifyingKey` follow the order in which `Create` and
`Verify` look for a key, which is not the order of the fields.  `Route` is the router's
middleware, `Middlewares` the two of `core/tenant.go`; a restart loses the requests of the
instance.  `carried` is a history: the token of the request if it was good when it arrived.
Clocks differ by `Skew`.

## 3. The runs

| Run | Instance | Shows |
|---|---|---|
| `RequestTx` | 1 request, 2 tenants, every kind of data source; 5 102 states | safety and liveness of the bracket |
| `TenantDataSource` | 2 callers and the starting goroutine, 2 tenants, 2 namings, 1 failed attempt, callers symmetric; 2.3 million states | routing, registration, where every pool comes from |
| `TenantNames` (violation) | the same, distinct names | a slug is answered with nil in mid-registration |
| `SchemaPool` | 2 goroutines, 2 pools, 2 file systems, 2 idle connections, both symmetric; 1.1 million states | the schema of statements and migrations |
| `Tenancy` | 2 requests (symmetric) used again and again, 2 tenants, 5 names, 4 inputs, 3 kinds of provider, 1 tenant that is announced; 2.6 million states | whose database a handler gets; what the provider keeps |
| `DIRegistry` | 2 goroutines, 2 types, 2 components; 62 000 states, deadlock checked | refinement of `Singletons`, singletons, exclusion, liveness |
| `FeatureInit` | 3 features, up to 2 dependencies each (also repeated and on itself), 6 lists, 2 providers; 500 000 states | ordering, hooks, all or nothing, termination |
| `ShortId` | 2 goroutines, 3 times, 4 calls, 1 setting back of the clock, 4 counts; 3.2 million states | races between calls leave no trace |
| `LocalCache` | 2 goroutines (symmetric) calling again and again, time to live 1, timeout 1, one waiting Set, clock up to 3, 1 change; 2.1 million states, deadlock checked | the age of answers, and when they go back |
| `PubSub` | 2 subscriptions (1 with Redis, 2 with the fake), 2 messages, 2 attempts, 3 faults; 79 000 states | delivery and the order in which messages are taken, refinement of `Delivery`, the fake's counters, liveness of a subscription |
| `JobQueue` | 2 requests, 2 keys, 3 retries, 3 faults, both cache providers; 791 000 states | one job per key; what "not found" means |
| `Tokens` | 2 instances, one clock a unit ahead, 2 starts each, 4 configurations, time to live 1, clock up to 2, 2 tokens, 1 request, 2 permissions; 3.7 million states | where tokens are good; who is served |

**Why the bounds are enough.**  Requests share no variable of `RequestTx` but the constant
`ds`, so one request shows every behaviour (the theorems hold for any number); two tenants
are needed for a middleware to change the tenant.  For the data source two callers suffice
for every race on one key and two tenants for one key to be claimed twice: the slug of one is the ID of the other, or its
ID and its slug (names without collisions are in `TenantNames` and in the theorems); `PoolsHaveACause`
names the bound in terms of the callers and the failed attempts, of which one (`MaxFailures`)
tells what it leaves from what the others open (the theorems hold for any number).  In `SchemaPool` two
goroutines make every overlap of two calls, two pools a goose global shared by two tenants,
two file systems a migration from the wrong one, and 2 is the number of idle connections
database/sql keeps (the theorems hold for any of these numbers).  In `Tenancy` two
requests make every overtaking of two answers, two tenants a request for one while the other is
loaded, and each goroutine serves one request after another; one announced tenant (`Announced`) gives
every order of a listener's two stores and the looks of both requests.  In the registry two goroutines are a
reader and a writer, or two first lookups; a second type is needed to tell that `Clear`
empties all of the map.  In `FeatureInit` three features give every shape of cycle and the
chain a -> b -> c that the violation needs; two providers, because all providers of the code
behave alike: not configured, registered, or failing.  In `ShortId` four calls are two
separate ones with an overlapping pair between them.  In `LocalCache` two goroutines make every crossing of two reads, of a read
with a Set that waits, and of two first calls; the clock reaches beyond the time to live plus
the timeout (the theorems hold for any).  In `PubSub` a Redis subscription touches no other
one, so one is enough, and two messages are needed for an order; the fake's subscriptions share
the list, hence two; three faults are a lost answer, a broken connection and an ended context.
In `JobQueue` two requests are an overlap or a repetition, and a third fault shows that two
accidents do not hide each other.  In `Tokens` two instances and two starts of each make every
change of keys and secrets between making, checking and deciding, and the clock goes past the
end of a token at both; a request touches no other one.

**Deadlock** is checked for `DIRegistry` and `LocalCache`, whose goroutines may call again for ever.  The other
systems stop by themselves: requests are used once, the process of the data source may be
stopped by the runtime, `Init` returns, the calls of `ShortId` are bounded, and when every
configure has failed nobody can use a pool; in `Tenancy` the application may not start; the
calls of `PubSub`, the requests of `JobQueue` and the tokens of `Tokens` are bounded.

**Fairness.**  `RequestTx`: a goroutine that can run is scheduled and a handler returns or
panics in the end (weak fairness of `Progress`, not of writing or answering); database/sql's
`awaitDone` goroutine notices a context that is done.  `DIRegistry`: goroutines are scheduled
(weak fairness), and `sync.RWMutex` starves neither side: readers that wait behind a writer
enter before the next writer and a starving writer is handed the lock, hence strong fairness
of `RLock` and `Announce`.  `FeatureInit` is one goroutine: weak fairness of `Next`.
`PubSub`: the receive loop of a subscription is scheduled and Redis can be reached again
(weak fairness of `Connect` and `Receive`; nothing is assumed of publishers, handlers or the
end of a context).  The other modules claim no liveness.

## 4. What the models show

One run checks a sentence of the repository that the code contradicts:

- **A listed tenant is answered with nil** (`TenantNames`).  `initTenant` stores ID and slug
  in two steps.  A request that looks the slug up in between does not find it, loads, skips
  the tenant because its ID is there, does not find the slug and gets nil.  `wrapHandler`
  then runs the handler without a tenant transaction, and `em.Current` falls back to the
  default database.  `Tenancy` follows the request to that end: it is the one exception
  `DefaultOnlyIfNotListed` makes for a request whose own answer has its tenant (`HalfStored`).

Others are visible in the exceptions the properties have to make:

- **A failed migration leaves its pool open** (`adapters/ds_impl.go:150`; the failed attempts in
  `PoolsHaveACause`): `configure` opens the pool before it migrates, no error closes it, and the
  next lookup of an unknown key tries again.
- **Two goroutines that miss a tenant open two pools** (`adapters/ds_impl.go:104`; the callers in
  `PoolsHaveACause`), one of which is lost without being closed.
- **Handlers do not begin in the order of publication** (`adapters/pubsub_impl.go:99`): the loop
  creates their goroutines in that order (`TakenInOrder`) and the scheduler runs them in any.
- **An empty answer leads to the default database** (`adapters/tenants_impl.go:147`;
  `DefaultOnlyIfNotListed` permits it): an HTTP answer that is no success counts as a list
  without tenants.
- **A lost connection migrates the wrong schema** ("calm" in `SoleConfigureMigratesAll`): when
  the server closes the connection that carries the search_path before `goose.Up` takes one, a
  configure that overlapped no other one migrates "public" and succeeds.
- **"cyclic dependency detected" without a cycle** (`app/app.go:479`; the exception of
  `SucceedsIffOrderable`).  Dependencies of dependencies are not loaded, because `range`
  evaluated the slice before the loop grew it.
- **"migrations completed" without migrations** (`adapters/connection_impl.go:216`; "sole" in
  `SoleConfigureMigratesAll`).  Two goroutines that configure two tenants share goose's global
  base file system: one is migrated from the file system the other has set, and `configure`
  succeeds.
- **The overflow test is dead** (`h/ids.go:63`, `count&0xFFF >= 4096`; a cause in
  `DuplicatesHaveACause`).  Overlapping calls of `Generate` may also return equal or torn
  identifiers.
- **A missing key is not the empty string** (`core/idempotency.go:11`, "Returns empty string if
  key doesn't exist"; `GetMiss` of `JobQueue`): it is an error with Redis, so that a caller has
  to take every error for a miss, and a panic with the map.
- **Idempotency is best effort** (`disturbed` in `OneJobPerKey`): two requests that overlap, a
  failed call after the job is there, or a crash before `Set` make a second job.
- **A job that is not found may be there** (`blind` in `NotFoundMeansDone`): a failed look is
  reported as "job not found".
- **The cache goes back** (`GoesBackOnlyIfCrossed`): the answer of a slow read is set over that of
  a later one and stays for an hour.
- **Published messages miss new subscribers** (`AckedReachesConnected`): `Subscribe` returns
  before the subscription exists.  After the deadline of its context the receive loop goes round
  without end (`StaysSubscribed` excludes contexts that ended).
- **CSRF tokens belong to one process** (`GoodWhereMade`): another instance refuses them, and so
  does the same one after a restart, because the secret is drawn at every start; the mutant that
  keeps the secret over a restart violates the property.

And without any sentence that says otherwise: a panic with a non-error leaves both
transactions open until the context ends; a handler that returns an error commits; a component
provided after its first lookup is never seen; permissions claimed as a list are none.

## 5. What is proved

Every invariant and every action property the passing runs check is a theorem, and so are both
refinements.  The theorems hold for any sets of requests, tenants, goroutines, types,
components, features and messages, from named assumptions alone:

- `NoTenantAssumption` and `RegistryAssumption`: the markers for "nothing" are not elements of
  the sets.
- `DataSourceAssumption`: finitely many callers and at least one, because `PoolsHaveACause`
  counts them and `Init` alone may open a pool; it also has the marker and the default key.  Namings are any functions, names
  that collide included.
- `PoolAssumption` and `TenancyAssumption`: the markers again, at least one file system and one
  idle connection kept, and no two tenants that share a name (what happens otherwise is in
  `TenantDataSource`).
- `FeatureAssumption`: the empty name is no name, and the worlds and lists are dependency
  functions and lists.
- `IdAssumption` (finitely many callers; the parameters are numbers), `PowerAssumption` (the
  powers of natural numbers that occur are natural numbers, which the provers do not know)
  and `WidthAssumption`: within a window two pairs of time and count differ in some digit that is
  kept.  The last is a fact about the widths, which TLC evaluates for those of the instance; for
  the code's it is the remark on 3^16 in section 2.
- `CacheAssumption`, `PubSubAssumption`, `JobQueueAssumption`: numbers are numbers.
- `TokensAssumption`: also, an instance with both keys of a pair has one pair, whose halves go
  by one name.

**RequestTx_proof.**  None of the safety properties is inductive: that a panic never commits
depends on how the body was left, which must be tied to where the goroutine is.  The
inductive invariant `IInv` has five parts per request: `ExitInv` (the exit is "none" exactly
while the body runs, a foreign panic never reaches the second half of the deferred function,
and the context has ended only when the request is over), `CommitInv` (a commit has been
tried, or a write is durable, only after a return), `FateInv` (a transaction is rolled back,
or still open past its turn in the deferred function, only after a panic or when the client
has left), `WriteInv` (writes are made in transactions that have begun and are durable once
those are committed) and `TenantInv` (the context's tenant is the one of the connection from
the first begin to the second, and there is no tenant transaction before the handler).
`Typing` gives the types; `StepInv` has a case per action; requests that do
not move are dealt with once (`SameInv`).  From `Invariance` follow `NoCommitAfterPanic`,
`OneFate`, `ReturnedDurable`, `NoLeak` and, for steps, `OneTenant`.

**TenantDataSource_proof.**  `HandInv` says that between `connect` and the last store the pool in
hand was opened for the tenant in hand; with it `Routes` is inductive, although keys are stored in
two steps, overwritten by others and claimed by several tenants.  `AllRegistered` needs the path:
what `Load` returned is still to be done, in hand or registered (`LoadedInv`), and an entry never
disappears.  `Served` needs that a call that found its key ends with its first look (`SeenInv`).
`Causes` is the one that counts.  Pools that lost their map entry, and those of failed attempts,
are never closed, so nothing in a single state bounds them; `PoolInv` does, with at most one pool
for each failed attempt set apart: as long as a tenant has no entry each other pool of it is
in the hands of a goroutine about to store it, and once it has one, its other pools and the
goroutines that have already looked and are about to open another are no more than the callers.
`MaxFailures` bounds the exploration and is any number in the proof.
`StartInv` (the data source is called once `Init` is over) keeps the starting goroutine out of
the count.

**SchemaPool_proof.**  From `PoolAssumption`: at least one file system and one idle
connection kept, and `NoPool` not a pool.  Neither property is inductive, and not even
`TypeOK` is: `Up` records the global file system, which is set only on the path through
`SetBaseFS`.  `Base` joins the types with `PlaceInv` (where a goroutine is agrees with its
locals and the status of its pool) and `SoleInv` (one goroutine configures a pool);
`PoolInv` joins `UseInv` (nobody overlaps in a calm pool), `PathInv` (its connections are
"own") and `SpareInv`, the heart of the argument: a calm pool has an own connection idle
whenever somebody is about to take one, so database/sql never opens a new one there.
`MigrateInv` says that while a pool is configured alone the global is the file system of its
configure and the migrations so far are exactly those of the file systems so far
(`Through`).  `PutEffect`, `LossEffect` and `TakeEffect` say what database/sql does to the
counts, `EndPool` and `MigrateMove` what an action must satisfy to keep the invariant, and
each action is an instance.  `CalmPool` and `SoleConfigure` follow; the second speaks, like the
first, of pools that are calm: without overlapping calls, lost connections and failed SETs.

**Tenancy_proof.**  `IInv` ties the three parts together: the keys of the provider are those of
the tenants it was told of (`KnownInv`), a key of the data source leads to its owner (`ServedInv`), a
tenant that is there under its ID is there under its slug but while somebody stands between the
two stores (`HalfInv`), nobody is served or announced before the application runs (`FreshInv`),
and with a file all three agree (`FileInv`).  Per
request, an unchanged tenant is the chosen one and known (`TenantInv`), each tenant of the answer is still to be
done, in hand or served under its ID (`LookInv`), and a tenant of the file that is asked for is never
looked for twice (`AskInv`).  `Connecting` proves what `Init` makes of the map
and `Storing` what one store does to it, `HalfStays` that only the goroutine between two stores
ends that moment;
with `Others` (nothing that only grows disturbs a request) each action needs to be examined
for the request that moves.  `RoutedToOwn`, `AcceptedIsKnown`, `NeverForgotten` and
`NoSilentDefault` follow for any requests, tenants and names.

**Start_proof, the registry.**  `RegistryTyping` carries `CallInv` (each goroutine is on the path of its call);
`Locking` proves that `readers` and `writer` are exactly the goroutines inside; `Replying`
that an answer is there exactly when the deciding map has been read.  With them `Exclusion`,
`CacheWithinRegistry` and `Sticky` follow, and `Refinement`: every step of `DIRegistry` is a
step of `Singletons` or stutters under the mapping.

**Start_proof, the features.**  `LoadInv`: the given features come first in `loaded`, no name is
there twice, and the direct dependencies of the features passed by the loop are there.
`SortInv` is the invariant of the sort: `indegree` counts the dependencies not yet in the order
(with repetition, which is why a feature may name another twice), the features with none left
are exactly those that wait or are ordered, once, and the order is closed under dependencies
from the left.  `PopSorts` carries it over one step, by `JoinNames` and the lemmas about names in
lists.  `Orders` has two halves.  If the sort stops early, the features left out each need one
that is unknown or left out too.  If it does not, any set of features has a first one in the order
(`LeastIndex`, by the well-ordering of the natural numbers), whose dependencies
come before it and are therefore outside the set.  `HookInv` says that the hooks run down the
order, `OnInit` after all of `BeforeInit`; `HooksInOrder` and `AllOrNone` follow.  That
`indegree` stays a natural number is part of `TypeOK` and needs the sort's count
(`FeatureInitTypes`).

**Start_proof, the identifiers.**  `AloneInv` describes a call that overlapped no other: it finds
`lastTime`, the counter and the buffer as it left them, so its identifier is the one of its
time and count.  `DuplicatesHaveACause` also has to survive what overlaps between two such calls,
where a stale `now` may set `lastTime` back and a counter may be reset after it was read.
`QuietInv` shows why that leaves no trace: when a call that overlapped no other returns,
nobody else is under way, so nobody holds an older time; as long as its millisecond lasts every
later call reads that same time, and the counter is exactly its count, plus the identifiers
issued since, plus the calls that have counted and not returned.  After the millisecond,
`Follows` keeps what a later call of its kind has to know, and `ClockInv` that no time is ahead of
a clock that was not set back.  Two equal identifiers then have equal times and, by `Round`,
counts a whole round of the counter apart, or they differ in a digit (`WidthAssumption`).
`CountInv` bounds the counter by the calls made.

**Services_proof, the cache.**  That no answer is old needs to be known of every value on its way to an
answer: `TimeInv` says that what is stored, waits or was read expires at most `TTL` after its
Set, that a Set follows its read within `Timeout` (which `Tick` respects while somebody reads)
and that an answer is given before the expiry.  `CacheInv` says that whoever looks, reads or sets
has a cache, `KnownInv` that no history runs ahead of the sources.  `GoesBackOnlyIfCrossed` has an
invariant of its own, `SerialInv`: as long as nothing crossed there is one cache, one reader at a time and no
waiting Set while somebody reads, so what is stored, waits or was just read is the newest.

**Services_proof, publish and subscribe.**  `ReachInv` strengthens `AckedReachesConnected` to the moment before Publish
returns: whoever is in `reach[m]` is connected, and has the message as soon as the server has
executed the command.  `TakenInOrder` needs where the messages are: `NewInv` says that one nobody
has published is nowhere, and `OrderInv` that a message is `Ahead` of those published after it was
acknowledged: it has been taken (there is or was a goroutine for its handler), or it stands before
every copy of theirs and none of them has been taken.  `TailElements` and `AppendElements` say what receiving and sending do to a queue.

The refinement counts: the deliveries of a message that are due at a subscription (`Due`: copies
in the queue, goroutines, and those the fake has still to create).  `CopiesInv` ties the copies sent to
the attempts made, `ListInv` says that nobody is twice in the fake's list, and `DueInv` that what
is due and what was handled are together no more than the copies, so that every delivery
has a copy of its own.  Lemmas say what each step of a provider does to `Due`
(sending, receiving, creating a goroutine, returning and losing the connection);
`Delivers` is then a case per action: a message executed is `Publish`, a handler that returns is
`Handle`, a lost connection is `Lose`, and receiving changes nothing.  `PubSubTypes` follows
with the bound on goroutines, and `Exact` from `ExactInv`, where the fake's counters are the
cardinalities of sets that grow by one element.

**JobQueue_proof.**  `AnswerInv`: IDs that are stored, about to be or answered are of jobs of the
key.  `Orderly(k)`, for every key that nothing disturbed: one request is under way, it enqueues
only if there is no job, there is at most one job, and it is stored unless it is about to be.
`Frame` shows that a step of a request concerns its own key only.  `TypeOK` is proved and
not checked by the run.

**Tokens_proof.**  `MadeInv` (running instances have a configuration that could start, tokens are
made by their maker's clock) gives the half of `Good` about JWTs with `Keys`: verifying and signing
key agree at every running instance.  The half about CSRF tokens needs `SecretInv` (`Secrets`): no
two processes have the same secret, and the secret of a token is that of a running process exactly
when that process, at this start, has made it; `VerifyCsrf` itself knows of no starts.  `AuthInv` and `DecidedInv` tie the Authentication to the token and the
outcome to the Authentication; `ClaimValues` says what `GetClaimValues` returns.

**Only model-checked**: liveness (`TxEnds`, `EveryRequestIsAnswered`, `CallsReturn`,
`InitEnds`, `StaysSubscribed`), because the prover has no fairness; and `ListedTenantIsNeverNil`,
which is false.

## 6. What is not modelled, and the plan

Left out for good: text, templates, wire formats, cryptography, logging, and code that only
calls a library (email, MCP, Sentry, i18n, the helpers of `h/`).  `test/` is used by tests
only.

Left out of the modules that are there:

- The runtime may stop the process when a map is written while another goroutine is at it.
  `TenantDataSource` has this (`MapRace`); for the maps of the tenant provider, of the memory
  cache and of the fake publisher it is left out, and `PubSub` has lost updates instead.
- `LocalCache` bounds a read of the source by `Timeout`, which Vault's client guarantees (30 s) and
  the client of the tenant service does not: there the theorem speaks of the reads that return
  within it.
- The handlers of the fake get the context of the publisher and those of Redis that of the
  subscription; what a handler does with it is the application's.
- `VerifyWithIssuer` also compares the issuer; nothing in the repository calls it.
- `em.Tenant` gives the pool and not the transaction of a request, and `SetTenant` in a handler
  changes the context and not the transaction: the properties of `RequestTx` stop at the start of
  the handler, where the two agree.
- `Shutdown` stops the router and leaves pools, subscriptions and the queue client; machine
  identifiers are 0 in every instance, so two servers issue equal identifiers.  Both can be read
  off the code and have no property.
- The tenant of a verified token is shadowed (`adapters/router_impl.go:197`) and reaches the
  Authentication only; `Tenancy` follows the code.

Planned: `RequestTx` composed with `Tenancy`, for the request that falls back to the default
database and commits there; `Init` after a failed one; that `RequestTx` and `TenantDataSource`
refine an abstract account of what a request and a data source promise.
