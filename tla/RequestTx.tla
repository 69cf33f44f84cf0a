------------------------------ MODULE RequestTx ------------------------------
(* The transaction bracket around every HTTP handler: wrapHandler of           *)
(* adapters/router_impl.go with the transactions of                            *)
(* adapters/connection_impl.go.  Several requests are served concurrently,     *)
(* each in its own goroutine.  A request owns at most two transactions: one on *)
(* the default database and one on the database of its tenant.                 *)
(*                                                                             *)
(* Abstracted: the contents of requests, answers and rows.  An answer is "ok"  *)
(* or "error"; a transaction remembers only whether the handler wrote in it.   *)
EXTENDS FiniteSets

CONSTANTS Requests,   \* requests being served, each used once
          Tenants,    \* tenant identifiers the router may resolve
          NoTenant    \* the empty tenant identifier ""

ASSUME NoTenantAssumption == NoTenant \notin Tenants

VARIABLES
  ds,         \* what the router was given: no data source, one without a default database, or a full one
  pc,         \* where the goroutine of each request is in wrapHandler
  tenant,     \* c.Get(_tenantIdKey): what ctx.TenantId() returns
  ctxTenant,  \* the local tenantId, which becomes the TenantKey value of the context
  cnxTenant,  \* the tenant whose connection the tenant transaction was begun on
  tx,         \* the transactions of each request
  dirty,      \* the transactions the handler wrote in
  durable,    \* the transactions whose writes reached the database
  exit,       \* how the body of wrapHandler ended
  ctx,        \* the context of the request: live, cancelled by the client, or ended by net/http
  answer      \* what the client was sent

vars == <<ds, pc, tenant, ctxTenant, cnxTenant, tx, dirty, durable, exit, ctx, answer>>

Keys == {"default", "tenant"}          \* DefaultCnxKey, TenantCnxKey
TxStates == {"none", "active", "committed", "failed", "rolledback"}
Sources == {"absent", "tenantsOnly", "full"}
Exits == {"none", "nil", "err", "panicError", "panicOther"}
Places == {"idle", "middlewares", "beginDefault", "lookupTenant", "beginTenant",
           "handler", "deferDefault", "deferTenant", "echo", "over"}

TypeOK ==
  /\ ds \in Sources
  /\ pc \in [Requests -> Places]
  /\ tenant \in [Requests -> Tenants \cup {NoTenant}]
  /\ ctxTenant \in [Requests -> Tenants \cup {NoTenant}]
  /\ cnxTenant \in [Requests -> Tenants \cup {NoTenant}]
  /\ tx \in [Requests -> [Keys -> TxStates]]
  /\ dirty \in [Requests -> SUBSET Keys]
  /\ durable \in [Requests -> SUBSET Keys]
  /\ exit \in [Requests -> Exits]
  /\ ctx \in [Requests -> {"live", "gone", "ended"}]
  /\ answer \in [Requests -> {"none", "ok", "error"}]

Init ==
  /\ ds \in Sources
  /\ pc = [r \in Requests |-> "idle"]
  /\ tenant = [r \in Requests |-> NoTenant]
  /\ ctxTenant = [r \in Requests |-> NoTenant]
  /\ cnxTenant = [r \in Requests |-> NoTenant]
  /\ tx = [r \in Requests |-> [k \in Keys |-> "none"]]
  /\ dirty = [r \in Requests |-> {}]
  /\ durable = [r \in Requests |-> {}]
  /\ exit = [r \in Requests |-> "none"]
  /\ ctx = [r \in Requests |-> "live"]
  /\ answer = [r \in Requests |-> "none"]

-------------------------------------------------------------------------------
(* Helpers *)

Goto(r, from, to) == pc[r] = from /\ pc' = [pc EXCEPT ![r] = to]

\* The status line is written once: a later body does not change it.
Send(r, a) == answer' = [answer EXCEPT ![r] = IF @ = "none" THEN a ELSE @]

\* The body of wrapHandler is left in the way e; the deferred function runs next.
Leave(r, from, e) ==
  /\ Goto(r, from, "deferDefault")
  /\ exit' = [exit EXCEPT ![r] = e]

\* Mutant: the flag is set in the tenant branch only.
InTxForTenantOnly(r) == tx[r]["tenant"] # "none"

\* The local inTx: set when the first of the two transactions has begun.
InTx(r) == \E k \in Keys : tx[r][k] # "none"

\* BeginTx fails when the database refuses or the context is already done.
Begin(r, k) == ctx[r] = "live" /\ tx' = [tx EXCEPT ![r][k] = "active"]

\* Commit (connection_impl.go).  database/sql refuses to commit once the context
\* is done; the error is dropped by the caller, so a commit whose acknowledgement
\* is lost behaves like one that succeeded.
CommitCanFail == {"committed", "failed"}
Commit(r, k) ==
  IF tx[r][k] = "active" /\ ctx[r] = "live"
  THEN \E s \in CommitCanFail :
         /\ tx' = [tx EXCEPT ![r][k] = s]
         /\ durable' = [durable EXCEPT ![r] = IF s = "committed" THEN @ \cup (dirty[r] \cap {k}) ELSE @]
  ELSE UNCHANGED <<tx, durable>>

Rollback(r, k) ==
  /\ tx' = [tx EXCEPT ![r][k] = IF @ = "active" THEN "rolledback" ELSE @]
  /\ UNCHANGED durable

-------------------------------------------------------------------------------
(* The body of wrapHandler *)

\* The router has resolved the tenant of the request (or none) and calls the handler.
Arrive(r) ==
  /\ Goto(r, "idle", "middlewares")
  /\ \E t \in Tenants \cup {NoTenant} : tenant' = [tenant EXCEPT ![r] = t]
  /\ UNCHANGED <<ds, ctxTenant, cnxTenant, tx, dirty, durable, exit, ctx, answer>>

\* Mutant: tenantId is read before the middlewares run.
PassMiddlewaresLate(r) ==
  /\ Goto(r, "middlewares", "beginDefault")
  /\ ctxTenant' = [ctxTenant EXCEPT ![r] = tenant[r]]
  /\ \E t \in Tenants \cup {tenant[r]} : tenant' = [tenant EXCEPT ![r] = t]
  /\ UNCHANGED <<ds, cnxTenant, tx, dirty, durable, exit, ctx, answer>>

\* Every middleware accepts; one of them may have called SetTenant.  tenantId is read after them.
PassMiddlewares(r) ==
  /\ Goto(r, "middlewares", "beginDefault")
  /\ \E t \in Tenants \cup {tenant[r]} :
       /\ tenant' = [tenant EXCEPT ![r] = t]
       /\ ctxTenant' = [ctxTenant EXCEPT ![r] = t]
  /\ UNCHANGED <<ds, cnxTenant, tx, dirty, durable, exit, ctx, answer>>

\* A middleware returns an error: it is answered by formatError, no transaction is opened.
RefuseInMiddleware(r) ==
  /\ Leave(r, "middlewares", "nil")
  /\ Send(r, "error")
  /\ UNCHANGED <<ds, tenant, ctxTenant, cnxTenant, tx, dirty, durable, ctx>>

PanicInMiddleware(r) ==
  /\ \E e \in {"panicError", "panicOther"} : Leave(r, "middlewares", e)
  /\ UNCHANGED <<ds, tenant, ctxTenant, cnxTenant, tx, dirty, durable, ctx, answer>>

SkipDefault(r) ==
  /\ ds # "full"
  /\ Goto(r, "beginDefault", IF ds = "absent" THEN "handler" ELSE "lookupTenant")
  /\ UNCHANGED <<ds, tenant, ctxTenant, cnxTenant, tx, dirty, durable, exit, ctx, answer>>

BeginDefault(r) ==
  /\ ds = "full"
  /\ Goto(r, "beginDefault", "lookupTenant")
  /\ Begin(r, "default")
  /\ UNCHANGED <<ds, tenant, ctxTenant, cnxTenant, dirty, durable, exit, ctx, answer>>

\* Tx returns an error, which wrapHandler returns to echo.
FailDefault(r) ==
  /\ ds = "full"
  /\ Leave(r, "beginDefault", "err")
  /\ UNCHANGED <<ds, tenant, ctxTenant, cnxTenant, tx, dirty, durable, ctx, answer>>

\* dataSource.Connection(ctx.TenantId()) found a connection, found none, or panicked with a string.
LookupTenant(r, found) ==
  /\ tenant[r] # NoTenant
  /\ \/ found = "cnx" /\ Goto(r, "lookupTenant", "beginTenant") /\ UNCHANGED exit
     \/ found = "nil" /\ Goto(r, "lookupTenant", "handler") /\ UNCHANGED exit
     \/ found = "panic" /\ Leave(r, "lookupTenant", "panicOther")
  /\ UNCHANGED <<ds, tenant, ctxTenant, cnxTenant, tx, dirty, durable, ctx, answer>>

SkipTenant(r) ==
  /\ tenant[r] = NoTenant
  /\ Goto(r, "lookupTenant", "handler")
  /\ UNCHANGED <<ds, tenant, ctxTenant, cnxTenant, tx, dirty, durable, exit, ctx, answer>>

BeginTenant(r) ==
  /\ Goto(r, "beginTenant", "handler")
  /\ Begin(r, "tenant")
  /\ cnxTenant' = [cnxTenant EXCEPT ![r] = tenant[r]]
  /\ UNCHANGED <<ds, tenant, ctxTenant, dirty, durable, exit, ctx, answer>>

\* The default transaction is already open: the deferred function will commit it.
FailTenant(r) ==
  /\ Leave(r, "beginTenant", "err")
  /\ UNCHANGED <<ds, tenant, ctxTenant, cnxTenant, tx, dirty, durable, ctx, answer>>

-------------------------------------------------------------------------------
(* The handler *)

\* em.Current: the tenant transaction of the context if there is one, else the default one.
CurrentKey(r) == IF tx[r]["tenant"] # "none" THEN "tenant" ELSE "default"

\* A write through em.Default or em.Current; it needs a transaction and a live context.
HandlerWrites(r) ==
  /\ pc[r] = "handler" /\ ctx[r] = "live"
  /\ \E k \in {"default", CurrentKey(r)} :
       /\ tx[r][k] = "active"
       /\ dirty' = [dirty EXCEPT ![r] = @ \cup {k}]
  /\ UNCHANGED <<ds, pc, tenant, ctxTenant, cnxTenant, tx, durable, exit, ctx, answer>>

\* The handler answers the client itself, before any commit.
HandlerAnswers(r) ==
  /\ pc[r] = "handler"
  /\ Send(r, "ok")
  /\ UNCHANGED <<ds, pc, tenant, ctxTenant, cnxTenant, tx, dirty, durable, exit, ctx>>

\* SetTenant changes the tenant of the context and leaves the transactions alone.
HandlerSetsTenant(r) ==
  /\ pc[r] = "handler"
  /\ \E t \in Tenants :
       /\ tenant' = [tenant EXCEPT ![r] = t]
       /\ ctxTenant' = [ctxTenant EXCEPT ![r] = t]
  /\ UNCHANGED <<ds, pc, cnxTenant, tx, dirty, durable, exit, ctx, answer>>

HandlerReturnsNil(r) ==
  /\ Leave(r, "handler", "nil")
  /\ UNCHANGED <<ds, tenant, ctxTenant, cnxTenant, tx, dirty, durable, ctx, answer>>

\* formatError answers and returns nil: the deferred function cannot tell this exit from success.
HandlerReturnsError(r) ==
  /\ Leave(r, "handler", "nil")
  /\ Send(r, "error")
  /\ UNCHANGED <<ds, tenant, ctxTenant, cnxTenant, tx, dirty, durable, ctx>>

HandlerPanics(r) ==
  /\ \E e \in {"panicError", "panicOther"} : Leave(r, "handler", e)
  /\ UNCHANGED <<ds, tenant, ctxTenant, cnxTenant, tx, dirty, durable, ctx, answer>>

-------------------------------------------------------------------------------
(* The deferred function *)

\* Mutant: the deferred function commits whatever happened.
FinishAlwaysCommits(r, k) == IF InTx(r) THEN Commit(r, k) ELSE UNCHANGED <<tx, durable>>

\* Mutant: a panic rolls back the default transaction only.
FinishRollsBackDefault(r, k) ==
  IF ~InTx(r) THEN UNCHANGED <<tx, durable>>
  ELSE IF exit[r] = "panicError" /\ k = "default" THEN Rollback(r, k) ELSE Commit(r, k)

\* Mutant: an error answer rolls back.
FinishByAnswer(r, k) ==
  IF ~InTx(r) THEN UNCHANGED <<tx, durable>>
  ELSE IF answer[r] = "error" THEN Rollback(r, k) ELSE Commit(r, k)

\* What the deferred function does with the transaction k of request r.
Finish(r, k) ==
  IF ~InTx(r) THEN UNCHANGED <<tx, durable>>
  ELSE IF exit[r] = "panicError" THEN Rollback(r, k) ELSE Commit(r, k)

\* recover() returned a value that is not an error: err.(error) panics at once,
\* before any rollback, and the middleware of echo recovers the second panic.
DeferRepanics(r) ==
  /\ exit[r] = "panicOther"
  /\ Goto(r, "deferDefault", "echo")
  /\ UNCHANGED <<ds, tenant, ctxTenant, cnxTenant, tx, dirty, durable, exit, ctx, answer>>

DeferDefault(r) ==
  /\ exit[r] # "panicOther"
  /\ Goto(r, "deferDefault", "deferTenant")
  /\ Finish(r, "default")
  /\ UNCHANGED <<ds, tenant, ctxTenant, cnxTenant, dirty, exit, ctx, answer>>

DeferTenant(r) ==
  /\ Goto(r, "deferTenant", "echo")
  /\ Finish(r, "tenant")
  /\ IF exit[r] = "panicError" THEN Send(r, "error") ELSE UNCHANGED answer
  /\ UNCHANGED <<ds, tenant, ctxTenant, cnxTenant, dirty, exit, ctx>>

-------------------------------------------------------------------------------
(* Outside wrapHandler: echo, net/http, database/sql, the client *)

\* Mutant: the transactions were begun with a context that nobody cancels.
EchoEndsBackground(r) ==
  /\ Goto(r, "echo", "over")
  /\ Send(r, IF exit[r] = "nil" THEN "ok" ELSE "error")
  /\ UNCHANGED <<ds, tenant, ctxTenant, cnxTenant, tx, dirty, durable, exit, ctx>>

\* Mutant: no middleware recovers the second panic.
EchoEndsWithoutRecover(r) ==
  /\ Goto(r, "echo", "over")
  /\ IF exit[r] = "panicOther" THEN UNCHANGED answer ELSE Send(r, IF exit[r] = "nil" THEN "ok" ELSE "error")
  /\ ctx' = [ctx EXCEPT ![r] = IF @ = "live" THEN "ended" ELSE @]
  /\ UNCHANGED <<ds, tenant, ctxTenant, cnxTenant, tx, dirty, durable, exit>>

\* echo answers a returned error and a recovered panic; net/http answers 200 when
\* nobody did, and cancels the context of the request when the handler chain is left.
EchoEnds(r) ==
  /\ Goto(r, "echo", "over")
  /\ Send(r, IF exit[r] = "nil" THEN "ok" ELSE "error")
  /\ ctx' = [ctx EXCEPT ![r] = IF @ = "live" THEN "ended" ELSE @]
  /\ UNCHANGED <<ds, tenant, ctxTenant, cnxTenant, tx, dirty, durable, exit>>

ClientGone(r) ==
  /\ ctx[r] = "live" /\ pc[r] \notin {"idle", "over"}
  /\ ctx' = [ctx EXCEPT ![r] = "gone"]
  /\ UNCHANGED <<ds, pc, tenant, ctxTenant, cnxTenant, tx, dirty, durable, exit, answer>>

\* database/sql rolls back a transaction whose context is done.
DriverRollsBack(r, k) ==
  /\ ctx[r] # "live" /\ tx[r][k] = "active"
  /\ tx' = [tx EXCEPT ![r][k] = "rolledback"]
  /\ UNCHANGED <<ds, pc, tenant, ctxTenant, cnxTenant, dirty, durable, exit, ctx, answer>>

-------------------------------------------------------------------------------
\* A step of wrapHandler that the goroutine of r takes without being asked to.
Progress(r) ==
  \/ PassMiddlewares(r) \/ RefuseInMiddleware(r) \/ PanicInMiddleware(r)
  \/ SkipDefault(r) \/ BeginDefault(r) \/ FailDefault(r)
  \/ \E found \in {"cnx", "nil", "panic"} : LookupTenant(r, found)
  \/ SkipTenant(r) \/ BeginTenant(r) \/ FailTenant(r)
  \/ HandlerReturnsNil(r) \/ HandlerReturnsError(r) \/ HandlerPanics(r)
  \/ DeferRepanics(r) \/ DeferDefault(r) \/ DeferTenant(r) \/ EchoEnds(r)

Next ==
  \E r \in Requests :
    \/ Arrive(r) \/ ClientGone(r) \/ Progress(r)
    \/ HandlerWrites(r) \/ HandlerAnswers(r) \/ HandlerSetsTenant(r)
    \/ \E k \in Keys : DriverRollsBack(r, k)

Spec == Init /\ [][Next]_vars

\* A goroutine that can run is scheduled and a handler returns or panics in the
\* end; database/sql's goroutine does react to a context that is done.
Fairness ==
  \A r \in Requests :
    WF_vars(Progress(r)) /\ \A k \in Keys : WF_vars(DriverRollsBack(r, k))

FairSpec == Spec /\ Fairness

-------------------------------------------------------------------------------
(* Properties *)

\* wrapHandler and the deferred function have been left.
Left(r) == pc[r] \in {"echo", "over"}

\* Nothing a request wrote in a transaction is in the database unless its handler
\* returned: a panic, whatever its value, at any point of wrapHandler, even between
\* the two transactions or after the handler answered, never commits.
PanicNeverCommits ==
  \A r \in Requests :
    durable[r] # {} \/ (\E k \in Keys : tx[r][k] = "committed")
      => exit[r] \in {"nil", "err"}

\* The two transactions of a request share one fate: both are committed or neither,
\* unless a commit failed or the client left meanwhile.  wrapHandler commits them one
\* after the other and drops the errors, so those two are the only ways to a half commit.
SharedFate ==
  \A r \in Requests :
    /\ Left(r) /\ ctx[r] # "gone"
    /\ \A k \in Keys : tx[r][k] \notin {"none", "failed"}
    => (tx[r]["default"] = "committed" <=> tx[r]["tenant"] = "committed")

\* A handler that returned, with an error or without, has its writes in the database:
\* only a failed commit or a client that left can lose them.
ReturnedIsDurable ==
  \A r \in Requests :
    Left(r) /\ exit[r] = "nil" /\ ctx[r] # "gone"
      => \A k \in dirty[r] : k \in durable[r] \/ tx[r][k] = "failed"

\* Every way out of wrapHandler ends the transactions it opened, but two: a panic
\* with a value that is no error, and a client that left before the commit.
NoTxOutlivesWrapHandler ==
  \A r \in Requests :
    Left(r) /\ (\E k \in Keys : tx[r][k] = "active")
      => exit[r] = "panicOther" \/ ctx[r] = "gone"

\* A handler starts with one tenant: the tenant of its context is the one whose
\* connection its tenant transaction was begun on, also when a middleware changed it.
StartsWithOneTenant ==
  \A r \in Requests :
    pc[r] # "handler" /\ pc'[r] = "handler"
      => /\ ctxTenant'[r] = tenant'[r]
         /\ tx'[r]["tenant"] # "none" => cnxTenant'[r] = ctxTenant'[r]

\* No handler ever starts with the context of one tenant and the transaction of another.
HandlerStartsWithOneTenant == [][StartsWithOneTenant]_vars

\* No transaction stays open for ever, whichever way its request ended: what
\* wrapHandler leaves open is rolled back once the context of the request is done.
TxEnds == \A r \in Requests, k \in Keys : tx[r][k] = "active" ~> tx[r][k] # "active"

\* Every request that arrived is answered, also after a panic of any kind, a failed
\* begin, or a handler that wrote no answer.
EveryRequestIsAnswered == \A r \in Requests : pc[r] # "idle" ~> answer[r] # "none"
=============================================================================
