------------------------------- MODULE Tenancy -------------------------------
(* The tenant of a request, from the names it carries to the database its      *)
(* handler gets: the middleware of routerImpl.Init, the tenant providers of    *)
(* adapters/tenants_impl.go, the lookup of wrapHandler and the entity manager. *)
(* Three parts know tenants and learn of them at different times: the service  *)
(* that lists them, the provider, the data source.                             *)
(*                                                                             *)
(* Abstracted: tokens (only an AuthProvider names the tenant of a request;     *)
(* that of a merely verified token stays in its Authentication), the pools and *)
(* the crash on a concurrent map access (see TenantDataSource) and             *)
(* transactions (see RequestTx).  The names of the tenants are distinct.       *)
EXTENDS Naturals

CONSTANTS Requests, Tenants,
          NoTenant,   \* the default database
          Names,      \* what a request may carry, NoName apart
          NoName,     \* the empty string
          Lower,      \* strings.ToLower
          Id, Slug,   \* the names of a tenant
          Inputs,     \* what requests carry
          SetTenants, \* what middlewares of routes pass to SetTenant
          Announced   \* bound of the exploration: the tenants whose creation is announced

Fields == {"path", "query", "header", "host", "auth"}

ASSUME TenancyAssumption ==
  /\ NoTenant \notin Tenants /\ NoName \notin Names
  /\ Lower \in [Names -> Names]
  /\ Id \in [Tenants -> Names] /\ Slug \in [Tenants -> Names]
  /\ \A t, u \in Tenants : t # u => {Id[t], Slug[t]} \cap {Id[u], Slug[u]} = {}
  /\ Inputs \subseteq [Fields -> Names \cup {NoName}]
  /\ SetTenants \subseteq Names /\ Announced \subseteq Tenants

VARIABLES
  kind,       \* of the provider: "http", "file" (or base64), "none"
  listed,     \* the tenants the service or the file lists
  phase,      \* of the application
  known,      \* the keys of the provider's map
  served,     \* the data source: key -> tenant whose pool it leads to
  event,      \* per tenant: where the listener is that was told of its creation
  delivered,  \* tenants in some answer the provider has taken in (history)
  pc, input,
  tenantId,   \* the tenant in the context of each request
  changed,    \* a middleware has set it (history)
  answer,     \* what Load returned
  todo,       \* the tenants of that list still to be initialised
  cur,        \* the tenant being initialised, NoTenant when none is
  cnx         \* whose database the handler has, NoTenant for the default one

locals == <<pc, input, tenantId, changed, answer, todo, cur, cnx>>
vars == <<kind, listed, phase, known, served, event, delivered, locals>>

NamesOf(t) == {Id[t], Slug[t]}

\* What a request carries before it arrives.
NoInput == [f \in Fields |-> NoName]

\* Where a request is looking for a tenant that Connection did not have.
Reloading == {"load", "learn", "register", "storeId", "storeSlug"}

TypeOK ==
  /\ kind \in {"http", "file", "none"}
  /\ listed \subseteq Tenants /\ delivered \subseteq Tenants
  /\ phase \in {"new", "provider", "running", "stopped"}
  /\ known \subseteq Names
  /\ served \in [Names -> Tenants \cup {NoTenant}]
  /\ event \in [Tenants -> {"idle", "storeId", "storeSlug"}]
  /\ pc \in [Requests -> {"idle", "middlewares", "lookup", "handler"} \cup Reloading]
  /\ input \in [Requests -> Inputs \cup {NoInput}]
  /\ tenantId \in [Requests -> Names \cup {NoName}]
  /\ changed \in [Requests -> BOOLEAN]
  /\ answer \in [Requests -> SUBSET Tenants] /\ todo \in [Requests -> SUBSET Tenants]
  /\ cur \in [Requests -> Tenants \cup {NoTenant}]
  /\ cnx \in [Requests -> Tenants \cup {NoTenant}]
  /\ \A r \in Requests : pc[r] \in Reloading => tenantId[r] # NoName /\ cnx[r] = NoTenant

Init ==
  /\ kind \in {"http", "file", "none"}
  /\ listed \in SUBSET Tenants
  /\ phase = "new"
  /\ known = {} /\ delivered = {}
  /\ served = [n \in Names |-> NoTenant]
  /\ event = [t \in Tenants |-> "idle"]
  /\ pc = [r \in Requests |-> "idle"]
  /\ input = [r \in Requests |-> NoInput]
  /\ tenantId = [r \in Requests |-> NoName]
  /\ changed = [r \in Requests |-> FALSE]
  /\ answer = [r \in Requests |-> {}] /\ todo = [r \in Requests |-> {}]
  /\ cur = [r \in Requests |-> NoTenant]
  /\ cnx = [r \in Requests |-> NoTenant]

-------------------------------------------------------------------------------
(* The provider *)

\* The keys under which a provider finds a tenant: files are keyed by ID only.
KeysOf(t) == IF kind = "http" THEN NamesOf(t) ELSE {Id[t]}

\* The answers of a Load that returns no error.  An HTTP answer that is not a success is
\* no error to resty: the list is then empty.
Answers ==
  CASE kind = "http" -> {listed, {}}
    [] kind = "file" -> {listed}
    [] kind = "none" -> {{}}

\* Mutant: Load makes a new map.
LearnAnew(ts) ==
  /\ known' = UNION {KeysOf(t) : t \in ts}
  /\ delivered' = delivered \cup ts

\* Load adds the tenants of the answer to the map; nothing is ever taken out.
Learn(ts) ==
  /\ known' = known \cup UNION {KeysOf(t) : t \in ts}
  /\ delivered' = delivered \cup ts

\* The constructors: the file is read once or the application does not start; of the first
\* HTTP Load a failure is only logged.
NewProvider ==
  /\ phase = "new"
  /\ \/ phase' = "provider" /\ \E ts \in Answers : Learn(ts)
     \/ kind = "http" /\ phase' = "provider" /\ UNCHANGED <<known, delivered>>
     \/ kind = "file" /\ phase' = "stopped" /\ UNCHANGED <<known, delivered>>
  /\ UNCHANGED <<kind, listed, served, event, locals>>

-------------------------------------------------------------------------------
(* The data source *)

\* The map with the tenants of ts under both of their names.
Connected(ts) ==
  [n \in Names |-> IF \E t \in ts : n \in NamesOf(t) THEN CHOOSE t \in ts : n \in NamesOf(t)
                   ELSE NoTenant]

\* Init: all tenants, or the application does not start.  Nobody else uses the map before.
InitDataSource ==
  /\ phase = "provider"
  /\ \/ \E ts \in Answers : Learn(ts) /\ served' = Connected(ts) /\ phase' = "running"
     \/ phase' = "stopped" /\ UNCHANGED <<known, delivered, served>>
  /\ UNCHANGED <<kind, listed, event, locals>>

EventAt(t, from, to) == event[t] = from /\ event' = [event EXCEPT ![t] = to]

\* TenantCreatedEvent: its listener runs initTenant, which skips a tenant that is there.  The
\* provider is not told.  (One listener for a tenant at a time.)
TenantCreated(t) ==
  /\ phase = "running" /\ served[Id[t]] = NoTenant /\ EventAt(t, "idle", "storeId")
  /\ UNCHANGED <<kind, listed, phase, known, served, delivered, locals>>

\* It connects the tenant and stores it under its ID, or fails;
EventStoresId(t) ==
  /\ \/ EventAt(t, "storeId", "storeSlug") /\ served' = [served EXCEPT ![Id[t]] = t]
     \/ EventAt(t, "storeId", "idle") /\ UNCHANGED served
  /\ UNCHANGED <<kind, listed, phase, known, delivered, locals>>

\* and then under its slug.
EventStoresSlug(t) ==
  /\ EventAt(t, "storeSlug", "idle") /\ served' = [served EXCEPT ![Slug[t]] = t]
  /\ UNCHANGED <<kind, listed, phase, known, delivered, locals>>

\* The service lists or drops a tenant.
ServiceChanges ==
  /\ kind = "http"
  /\ \E t \in Tenants : listed' \in {listed \cup {t}, listed \ {t}}
  /\ UNCHANGED <<kind, phase, known, served, event, delivered, locals>>

-------------------------------------------------------------------------------
(* The router's middleware *)

Goto(r, to) == pc' = [pc EXCEPT ![r] = to]

\* The request is over and its locals are gone.
Leave(r) ==
  /\ Goto(r, "idle")
  /\ input' = [input EXCEPT ![r] = NoInput]
  /\ tenantId' = [tenantId EXCEPT ![r] = NoName]
  /\ changed' = [changed EXCEPT ![r] = FALSE]
  /\ answer' = [answer EXCEPT ![r] = {}] /\ todo' = [todo EXCEPT ![r] = {}]
  /\ cur' = [cur EXCEPT ![r] = NoTenant]
  /\ cnx' = [cnx EXCEPT ![r] = NoTenant]

OrElse(a, b) == IF a = NoName THEN b ELSE a

\* Mutant: the tenant of the token is a last resort.
ChosenTokenLast(in) ==
  OrElse(in["path"], OrElse(in["query"], OrElse(in["header"], OrElse(in["host"], in["auth"]))))

\* The tenant of the token, or the first of path, query, header and host that is there.
Chosen(in) ==
  OrElse(in["auth"], OrElse(in["path"], OrElse(in["query"], OrElse(in["header"], in["host"]))))

\* Mutant: a tenant the provider does not know is kept.
CheckedNever(n) == IF n = NoName THEN NoName ELSE Lower[n]

\* The lower-case name, if there is no provider or the provider knows it.
Checked(n) ==
  IF n # NoName /\ (kind = "none" \/ Lower[n] \in known) THEN Lower[n] ELSE NoName

\* The middleware of Init: an unknown tenant is only logged.
Arrive(r) ==
  /\ phase = "running" /\ pc[r] = "idle"
  /\ Goto(r, "middlewares")
  /\ \E in \in Inputs :
       /\ input' = [input EXCEPT ![r] = in]
       /\ tenantId' = [tenantId EXCEPT ![r] = Checked(Chosen(in))]
  /\ UNCHANGED <<kind, listed, phase, known, served, event, delivered, changed, answer, todo, cur, cnx>>

-------------------------------------------------------------------------------
(* wrapHandler *)

\* The middlewares of the route, TenantMiddleware among them: they may refuse the request
\* or set another tenant.
Middlewares(r) ==
  /\ pc[r] = "middlewares"
  /\ \/ Leave(r)
     \/ Goto(r, "lookup") /\ UNCHANGED <<input, tenantId, changed, answer, todo, cur, cnx>>
     \/ /\ Goto(r, "lookup")
        /\ \E n \in SetTenants : tenantId' = [tenantId EXCEPT ![r] = n]
        /\ changed' = [changed EXCEPT ![r] = TRUE]
        /\ UNCHANGED <<input, answer, todo, cur, cnx>>
  /\ UNCHANGED <<kind, listed, phase, known, served, event, delivered>>

\* The handler starts with the database of t: em.Current, without a tenant the default.
Handle(r, t) == Goto(r, "handler") /\ cnx' = [cnx EXCEPT ![r] = t]

\* No tenant and no lookup; or Connection, its first look at the map.
Lookup(r) ==
  /\ pc[r] = "lookup"
  /\ \/ tenantId[r] = NoName /\ Handle(r, NoTenant)
     \/ /\ tenantId[r] # NoName /\ served[tenantId[r]] # NoTenant
        /\ Handle(r, served[tenantId[r]])
     \/ /\ tenantId[r] # NoName /\ served[tenantId[r]] = NoTenant
        /\ Goto(r, "load") /\ UNCHANGED cnx
  /\ UNCHANGED <<kind, listed, phase, known, served, event, delivered, input, tenantId, changed, answer,
                 todo, cur>>

\* Load, up to the answer of the service; an error ends the request in a panic.
Load(r) ==
  /\ pc[r] = "load"
  /\ \/ /\ \E ts \in Answers : answer' = [answer EXCEPT ![r] = ts]
        /\ Goto(r, "learn") /\ UNCHANGED <<input, tenantId, changed, todo, cur, cnx>>
     \/ kind = "http" /\ Leave(r)
  /\ UNCHANGED <<kind, listed, phase, known, served, event, delivered>>

\* Load, the rest: what was answered may no longer be what is listed.
LoadReturns(r) ==
  /\ pc[r] = "learn" /\ Goto(r, "register")
  /\ Learn(answer[r]) /\ todo' = [todo EXCEPT ![r] = answer[r]]
  /\ UNCHANGED <<kind, listed, phase, served, event, input, tenantId, changed, answer, cur, cnx>>

\* initTenant for the next tenant of the answer: one whose ID is in the map is skipped.
CheckTenant(r) ==
  /\ pc[r] = "register"
  /\ \E t \in todo[r] :
       /\ todo' = [todo EXCEPT ![r] = @ \ {t}]
       /\ \/ served[Id[t]] # NoTenant /\ UNCHANGED <<pc, cur>>
          \/ served[Id[t]] = NoTenant /\ Goto(r, "storeId") /\ cur' = [cur EXCEPT ![r] = t]
  /\ UNCHANGED <<kind, listed, phase, known, served, event, delivered, input, tenantId, changed, answer,
                 cnx>>

\* It is connected and stored under its ID, or the request panics.
StoreId(r) ==
  /\ pc[r] = "storeId"
  /\ \/ /\ Goto(r, "storeSlug") /\ served' = [served EXCEPT ![Id[cur[r]]] = cur[r]]
        /\ UNCHANGED <<input, tenantId, changed, answer, todo, cur, cnx>>
     \/ Leave(r) /\ UNCHANGED served
  /\ UNCHANGED <<kind, listed, phase, known, event, delivered>>

StoreSlug(r) ==
  /\ pc[r] = "storeSlug" /\ Goto(r, "register")
  /\ served' = [served EXCEPT ![Slug[cur[r]]] = cur[r]]
  /\ cur' = [cur EXCEPT ![r] = NoTenant]
  /\ UNCHANGED <<kind, listed, phase, known, event, delivered, input, tenantId, changed, answer, todo,
                 cnx>>

\* Mutant: Connection does not look again.
RelookupMissing(r) ==
  /\ pc[r] = "register" /\ todo[r] = {} /\ Handle(r, NoTenant)
  /\ UNCHANGED <<kind, listed, phase, known, served, event, delivered, input, tenantId, changed, answer,
                 todo, cur>>

\* After the last of them the second look: nil, and with it the default database, when the name
\* is still unknown.
Relookup(r) ==
  /\ pc[r] = "register" /\ todo[r] = {} /\ Handle(r, served[tenantId[r]])
  /\ UNCHANGED <<kind, listed, phase, known, served, event, delivered, input, tenantId, changed, answer,
                 todo, cur>>

EndRequest(r) ==
  /\ pc[r] = "handler" /\ Leave(r)
  /\ UNCHANGED <<kind, listed, phase, known, served, event, delivered>>

-------------------------------------------------------------------------------
Next ==
  \/ NewProvider \/ InitDataSource \/ ServiceChanges
  \/ \E t \in Announced : TenantCreated(t) \/ EventStoresId(t) \/ EventStoresSlug(t)
  \/ \E r \in Requests :
       \/ Arrive(r) \/ Middlewares(r) \/ Lookup(r) \/ Load(r)
       \/ LoadReturns(r) \/ CheckTenant(r) \/ StoreId(r) \/ StoreSlug(r) \/ Relookup(r) \/ EndRequest(r)

Spec == Init /\ [][Next]_vars

-------------------------------------------------------------------------------
(* Properties *)

\* A handler never gets the database of a tenant other than the one in its context, and
\* when the AuthProvider names a tenant it is that one, whatever path, query, header and
\* host say, unless a middleware has set another.
OwnDatabase ==
  \A r \in Requests :
    pc[r] = "handler" /\ cnx[r] # NoTenant =>
      /\ tenantId[r] \in NamesOf(cnx[r])
      /\ ~changed[r] /\ input[r]["auth"] # NoName => Lower[input[r]["auth"]] \in NamesOf(cnx[r])

\* With a provider, the tenant of a request that no middleware has changed is one that
\* the provider has been told of, under one of its keys.
AcceptedWasDelivered ==
  \A r \in Requests :
    kind # "none" /\ ~changed[r] /\ tenantId[r] # NoName =>
      \E t \in delivered : tenantId[r] \in KeysOf(t)

\* A tenant once delivered is not refused later: neither a stale answer that arrives after
\* a newer one nor an empty one of a service in trouble takes it out of the provider.
DeliveredStaysKnown == \A t \in delivered : KeysOf(t) \subseteq known

\* Somebody has stored t under its ID and not yet under its slug.
HalfStored(t) == event[t] = "storeSlug" \/ \E r \in Requests : pc[r] = "storeSlug" /\ cur[r] = t

\* A handler that has a tenant gets the default database only if the answer its own request
\* got from the provider lacked the tenant, or if the request goes by the slug and looks it up
\* while another goroutine stands between the two stores of that very tenant.  And with
\* tenants from a file, a request that is given the lower-case ID of one by its token or its
\* path always gets that one.
DefaultOnlyIfNotListed ==
  [][\A r \in Requests : pc[r] # "handler" /\ pc'[r] = "handler" =>
       /\ tenantId[r] # NoName /\ cnx'[r] = NoTenant =>
            \A t \in answer[r] : tenantId[r] \in NamesOf(t) => tenantId[r] # Id[t] /\ HalfStored(t)
       /\ kind = "file" /\ ~changed[r] =>
            \A t \in listed :
              OrElse(input[r]["auth"], input[r]["path"]) = Id[t] /\ Lower[Id[t]] = Id[t] => cnx'[r] = t
    ]_vars
=============================================================================
