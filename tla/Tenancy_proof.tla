---------------------------- MODULE Tenancy_proof ----------------------------
(* Proofs about Tenancy: for any requests and tenants, whose database a        *)
(* handler gets and what the provider keeps.                                   *)
EXTENDS Tenancy, TLAPS

-------------------------------------------------------------------------------
(* The inductive invariant *)

\* The keys of the provider are those of the tenants it has been told of.
KnownInv == known = UNION {KeysOf(t) : t \in delivered}

\* A key of the data source leads to a tenant of that name.
Sound(s) ==
  /\ s \in [Names -> Tenants \cup {NoTenant}]
  /\ \A n \in Names : s[n] # NoTenant => n \in NamesOf(s[n])

ServedInv == Sound(served)

\* A tenant that is there under its ID is there under its slug too, but for the moment in
\* which somebody stands between the two stores.
HalfInv == \A t \in Tenants : served[Id[t]] # NoTenant => served[Slug[t]] # NoTenant \/ HalfStored(t)

\* Before the application runs nobody is served, nor announced.
FreshInv ==
  phase # "running" =>
    (\A n \in Names : served[n] = NoTenant) /\ (\A t \in Tenants : event[t] = "idle")

\* The tenants of a file are all known once it is read, and all served once all is running.
FileInv ==
  kind = "file" =>
    /\ phase = "new" => delivered = {}
    /\ phase \in {"provider", "running"} => delivered = listed
    /\ phase = "running" => \A t \in listed : served[Id[t]] = t

\* The token or the path of r gives the ID of the tenant t.
Asks(r, t) == OrElse(input[r]["auth"], input[r]["path"]) = Id[t] /\ Lower[Id[t]] = Id[t]

\* The database is found last, a request has locals only while it is under way, and a file
\* answers with what it lists.
PlaceInv(r) ==
  /\ pc[r] # "idle" => phase = "running" /\ input[r] \in Inputs
  /\ pc[r] = "idle" => tenantId[r] = NoName /\ ~changed[r]
  /\ pc[r] # "handler" => cnx[r] = NoTenant
  /\ kind = "file" => answer[r] \subseteq listed

\* A tenant that no middleware has set is the chosen one, in lower case, and known.
TenantInv(r) ==
  ~changed[r] /\ tenantId[r] # NoName =>
    /\ Chosen(input[r]) # NoName /\ tenantId[r] = Lower[Chosen(input[r])]
    /\ kind # "none" => tenantId[r] \in known

\* Of the answer each tenant is still to be done, in hand, or served under its ID; what the
\* handler has is what was found.
LookInv(r) ==
  /\ pc[r] \in {"storeId", "storeSlug"} => cur[r] \in Tenants
  /\ pc[r] \in {"register", "storeId", "storeSlug"} =>
       \A t \in answer[r] :
         t \in todo[r] \/ (pc[r] = "storeId" /\ t = cur[r]) \/ served[Id[t]] # NoTenant
  /\ pc[r] = "handler" /\ cnx[r] # NoTenant => tenantId[r] \in NamesOf(cnx[r])

\* A tenant of the file that is asked for is accepted and found at the first look.
AskInv(r) ==
  kind = "file" /\ ~changed[r] /\ pc[r] # "idle" =>
    \A t \in listed : Asks(r, t) =>
      /\ tenantId[r] = Id[t] /\ pc[r] \notin Reloading
      /\ pc[r] = "handler" => cnx[r] = t

ReqInv(r) == PlaceInv(r) /\ TenantInv(r) /\ LookInv(r) /\ AskInv(r)

IInv == TypeOK /\ KnownInv /\ ServedInv /\ HalfInv /\ FreshInv /\ FileInv /\ \A r \in Requests : ReqInv(r)

-------------------------------------------------------------------------------
(* The data source and the requests that do not move *)

(* No two tenants share a name. *)
LEMMA OneOwner ==
  ASSUME NEW t \in Tenants, NEW u \in Tenants, NEW n \in NamesOf(t), n \in NamesOf(u)
  PROVE  t = u
BY TenancyAssumption DEF TenancyAssumption, NamesOf

LEMMA NamesAreNames == ASSUME NEW t \in Tenants PROVE NamesOf(t) \subseteq Names /\ KeysOf(t) \subseteq Names
BY TenancyAssumption DEF TenancyAssumption, NamesOf, KeysOf

(* Init of the data source serves every tenant of its list under both names. *)
LEMMA Connecting ==
  ASSUME NEW ts \in SUBSET Tenants
  PROVE  /\ Sound(Connected(ts))
         /\ \A t \in ts : \A n \in NamesOf(t) : Connected(ts)[n] = t
         /\ \A t \in Tenants : Connected(ts)[Id[t]] # NoTenant => Connected(ts)[Slug[t]] # NoTenant
<1> DEFINE s == Connected(ts)
<1>0. NoTenant \notin Tenants /\ \A t \in Tenants : Id[t] \in NamesOf(t) /\ Slug[t] \in NamesOf(t)
  BY TenancyAssumption DEF TenancyAssumption, NamesOf
<1>1. ASSUME NEW t \in ts, NEW n \in NamesOf(t) PROVE s[n] = t
  <2>1. n \in Names /\ \A u \in ts : n \in NamesOf(u) => u = t
    BY NamesAreNames, OneOwner
  <2>2. (CHOOSE u \in ts : n \in NamesOf(u)) = t
    BY <2>1
  <2> QED BY <2>1, <2>2 DEF Connected
<1>2. \A n \in Names : ~(\E t \in ts : n \in NamesOf(t)) => s[n] = NoTenant
  BY DEF Connected
<1>3. s \in [Names -> Tenants \cup {NoTenant}]
  <2>1. \A n \in Names : s[n] \in Tenants \cup {NoTenant}
    BY <1>1, <1>2
  <2> QED BY <2>1 DEF Connected
<1>4. \A n \in Names : s[n] # NoTenant => n \in NamesOf(s[n])
  BY <1>1, <1>2
<1>5. ASSUME NEW t \in Tenants, s[Id[t]] # NoTenant PROVE s[Slug[t]] # NoTenant
  <2>1. Id[t] \in Names
    BY <1>0, NamesAreNames
  <2>2. PICK u \in ts : Id[t] \in NamesOf(u)
    BY <1>2, <1>5, <2>1
  <2>3. t \in ts
    BY <1>0, <2>2, OneOwner
  <2>4. s[Slug[t]] = t
    BY <1>0, <1>1, <2>3
  <2> QED BY <1>0, <2>4
<1> HIDE DEF s
<1>6. Sound(s)
  BY <1>3, <1>4 DEF Sound
<1> QED BY <1>1, <1>5, <1>6 DEF s

(* A store under a name of a tenant keeps what is served, and the map sound. *)
LEMMA Storing ==
  ASSUME ServedInv, NEW t \in Tenants, NEW n \in NamesOf(t), served' = [served EXCEPT ![n] = t]
  PROVE  /\ ServedInv' /\ served'[n] = t
         /\ \A m \in Names : m # n => served'[m] = served[m]
         /\ \A m \in Names : served[m] # NoTenant => served'[m] = served[m]
<1>1. n \in Names
  BY NamesAreNames
<1>2. served'[n] = t /\ (\A m \in Names : m # n => served'[m] = served[m])
  BY <1>1 DEF ServedInv, Sound
<1>3. served' \in [Names -> Tenants \cup {NoTenant}]
  BY DEF ServedInv, Sound
<1>4. served[n] # NoTenant => served[n] = t
  BY <1>1, OneOwner DEF ServedInv, Sound
<1>5. \A m \in Names : served'[m] # NoTenant => m \in NamesOf(served'[m])
  BY <1>2 DEF ServedInv, Sound
<1>6. ServedInv'
  BY <1>3, <1>5 DEF ServedInv, Sound, NamesOf
<1> QED BY <1>2, <1>4, <1>6

Same(q) ==
  /\ pc'[q] = pc[q] /\ input'[q] = input[q] /\ tenantId'[q] = tenantId[q]
  /\ changed'[q] = changed[q] /\ answer'[q] = answer[q] /\ cnx'[q] = cnx[q]
  /\ todo'[q] = todo[q] /\ cur'[q] = cur[q]

\* Nothing is forgotten: by the provider, by the data source, by the file.
Kept ==
  /\ kind' = kind /\ (phase = "running" => phase' = "running")
  /\ known \subseteq known' /\ (kind = "file" => listed' = listed)
  /\ \A n \in Names : served[n] # NoTenant => served'[n] = served[n]

(* A request that does not move keeps its invariant, whatever the others do. *)
LEMMA Others ==
  ASSUME TypeOK, NEW q \in Requests, ReqInv(q), Same(q), Kept
  PROVE  ReqInv(q)'
<1>1. PlaceInv(q)' /\ TenantInv(q)'
  BY DEF ReqInv, PlaceInv, TenantInv, Same, Kept
<1>2. \A t \in Tenants : served[Id[t]] # NoTenant => served'[Id[t]] # NoTenant
  BY TenancyAssumption DEF TenancyAssumption, Kept
<1>3. answer[q] \subseteq Tenants
  BY DEF TypeOK
<1>4. LookInv(q)'
  BY <1>2, <1>3 DEF ReqInv, LookInv, Same
<1>5. AskInv(q)'
  BY DEF ReqInv, AskInv, Asks, Same, Kept
<1> QED BY <1>1, <1>4, <1>5 DEF ReqInv

(* Who stays between the two stores. *)
LEMMA HalfStays ==
  ASSUME NEW t \in Tenants, HalfStored(t),
         event[t] = "storeSlug" => event'[t] = "storeSlug",
         \A q \in Requests : pc[q] = "storeSlug" /\ cur[q] = t => pc'[q] = "storeSlug" /\ cur'[q] = t
  PROVE  HalfStored(t)'
BY DEF HalfStored

(* A request that is over satisfies its invariant. *)
LEMMA Leaving ==
  ASSUME TypeOK, NEW r \in Requests, Leave(r)
  PROVE  ReqInv(r)'
BY DEF TypeOK, Leave, Goto, ReqInv, PlaceInv, TenantInv, LookInv, AskInv

-------------------------------------------------------------------------------
(* The application's actions *)

(* An answer taken in keeps KnownInv. *)
LEMMA Learning ==
  ASSUME KnownInv, NEW ts, Learn(ts), UNCHANGED kind
  PROVE  KnownInv' /\ known \subseteq known'
BY DEF KnownInv, Learn, KeysOf

(* While no request is under way only the shared part can be disturbed. *)
LEMMA StartStep ==
  ASSUME IInv, NewProvider \/ InitDataSource
  PROVE  IInv'
<1> USE DEF IInv
<1>1. phase # "running" /\ UNCHANGED locals /\ kind' = kind /\ listed' = listed /\ event' = event
  BY DEF NewProvider, InitDataSource
<1>2. \A ts \in Answers : ts \subseteq Tenants /\ (kind = "file" => ts = listed)
  BY DEF Answers, TypeOK
<1>3. /\ known' \subseteq Names /\ delivered' \subseteq Tenants /\ KnownInv' /\ known \subseteq known'
  <2>1. CASE UNCHANGED <<known, delivered>>
    BY <1>1, <2>1 DEF KnownInv, KeysOf, TypeOK
  <2>2. CASE \E ts \in Answers : Learn(ts)
    <3>1. PICK ts \in Answers : Learn(ts)
      BY <2>2
    <3>2. UNION {KeysOf(t) : t \in ts} \subseteq Names
      BY <1>2, NamesAreNames
    <3> QED BY <3>1, <3>2, <1>1, <1>2, Learning DEF Learn, TypeOK
  <2> QED BY <2>1, <2>2 DEF NewProvider, InitDataSource
<1>4. ServedInv' /\ HalfInv' /\ Kept
  <2>0. \A n \in Names : served[n] = NoTenant
    BY <1>1 DEF FreshInv
  <2>1. CASE served' = served
    <3>1. ServedInv' /\ HalfInv'
      BY <2>0, <2>1, TenancyAssumption DEF TenancyAssumption, HalfInv, ServedInv, Sound
    <3> QED BY <1>1, <1>3, <2>0, <3>1 DEF Kept
  <2>2. CASE \E ts \in Answers : served' = Connected(ts)
    <3>1. Sound(served') /\ \A t \in Tenants : served'[Id[t]] # NoTenant => served'[Slug[t]] # NoTenant
      BY <1>2, <2>2, Connecting
    <3>2. ServedInv' /\ HalfInv'
      BY <3>1 DEF ServedInv, Sound, HalfInv, NamesOf
    <3> QED BY <1>1, <1>3, <2>0, <3>2 DEF Kept
  <2> QED BY <2>1, <2>2 DEF NewProvider, InitDataSource
<1>5. phase' \in {"provider", "running", "stopped"}
  BY DEF NewProvider, InitDataSource
<1>6. TypeOK'
  BY <1>1, <1>3, <1>4, <1>5 DEF TypeOK, locals, ServedInv, Sound
<1>f. FreshInv'
  BY <1>1 DEF FreshInv, NewProvider, InitDataSource
<1>7. FileInv'
  <2> SUFFICES ASSUME kind = "file" PROVE FileInv'
    BY <1>1 DEF FileInv
  <2>1. CASE phase' = "stopped"
    BY <2>1 DEF FileInv
  <2>2. CASE NewProvider /\ phase' = "provider" /\ Learn(listed)
    BY <1>1, <2>2 DEF FileInv, NewProvider, Learn
  <2>3. CASE InitDataSource /\ phase' = "running" /\ Learn(listed) /\ served' = Connected(listed)
    <3>1. \A t \in listed : served'[Id[t]] = t
      BY <2>3, Connecting DEF TypeOK, NamesOf
    <3> QED BY <1>1, <2>3, <3>1 DEF FileInv, InitDataSource, Learn
  <2> QED BY <1>2, <2>1, <2>2, <2>3 DEF NewProvider, InitDataSource
<1>8. ASSUME NEW q \in Requests PROVE ReqInv(q)'
  BY <1>1, <1>4, Others DEF Same, locals
<1> QED BY <1>3, <1>4, <1>6, <1>f, <1>7, <1>8

(* Steps of the surroundings: no request moves and nothing is forgotten. *)
LEMMA OutsideStep ==
  ASSUME IInv,
         ServiceChanges \/ \E t \in Tenants : TenantCreated(t) \/ EventStoresId(t) \/ EventStoresSlug(t)
  PROVE  IInv'
<1> USE DEF IInv
<1>1. UNCHANGED locals /\ UNCHANGED <<kind, phase, known, delivered>>
  BY DEF ServiceChanges, TenantCreated, EventStoresId, EventStoresSlug
<1>2. KnownInv' /\ listed' \subseteq Tenants /\ (kind = "file" => listed' = listed)
  <2>1. KnownInv'
    BY <1>1 DEF KnownInv, KeysOf
  <2> QED BY <2>1 DEF ServiceChanges, TenantCreated, EventStoresId, EventStoresSlug, TypeOK
<1>0. \A t \in Tenants : Id[t] \in NamesOf(t) /\ Slug[t] \in NamesOf(t) /\ NamesOf(t) \subseteq Names /\ t # NoTenant
  BY NamesAreNames, TenancyAssumption DEF TenancyAssumption, NamesOf
<1>3. ServedInv' /\ HalfInv' /\ FreshInv' /\ event' \in [Tenants -> {"idle", "storeId", "storeSlug"}]
      /\ \A n \in Names : served[n] # NoTenant => served'[n] = served[n]
  <2>e. event \in [Tenants -> {"idle", "storeId", "storeSlug"}]
    BY DEF TypeOK
  <2>1. CASE ServiceChanges
    <3>1. UNCHANGED <<served, event, phase, pc, cur>>
      BY <2>1 DEF ServiceChanges, locals
    <3> QED BY <2>e, <3>1 DEF ServedInv, Sound, NamesOf, HalfInv, HalfStored, FreshInv
  <2>2. ASSUME NEW t \in Tenants, TenantCreated(t)
        PROVE  ServedInv' /\ HalfInv' /\ FreshInv' /\ event' \in [Tenants -> {"idle", "storeId", "storeSlug"}]
               /\ \A n \in Names : served[n] # NoTenant => served'[n] = served[n]
    <3>1. /\ phase = "running" /\ UNCHANGED <<served, phase, pc, cur>>
          /\ event[t] = "idle" /\ event' = [event EXCEPT ![t] = "storeId"]
      BY <2>2 DEF TenantCreated, EventAt, locals
    <3>2. \A u \in Tenants : HalfStored(u) => HalfStored(u)'
      BY <2>e, <3>1, HalfStays
    <3>3. HalfInv'
      BY <3>1, <3>2 DEF HalfInv
    <3> QED BY <2>e, <3>1, <3>3 DEF ServedInv, Sound, NamesOf, FreshInv
  <2>3. ASSUME NEW t \in Tenants, EventStoresId(t)
        PROVE  ServedInv' /\ HalfInv' /\ FreshInv' /\ event' \in [Tenants -> {"idle", "storeId", "storeSlug"}]
               /\ \A n \in Names : served[n] # NoTenant => served'[n] = served[n]
    <3>0. /\ event[t] = "storeId" /\ UNCHANGED <<phase, pc, cur>> /\ phase = "running"
      BY <2>3 DEF EventStoresId, EventAt, locals, FreshInv
    <3>1. CASE event' = [event EXCEPT ![t] = "storeSlug"] /\ served' = [served EXCEPT ![Id[t]] = t]
      <4>1. /\ ServedInv' /\ \A m \in Names : m # Id[t] => served'[m] = served[m]
            /\ \A m \in Names : served[m] # NoTenant => served'[m] = served[m]
        <5>1. ServedInv /\ Id[t] \in NamesOf(t)
          BY <1>0
        <5> QED BY <3>1, <5>1, Storing
      <4>2. HalfStored(t)'
        BY <2>e, <3>1 DEF HalfStored
      <4>3. \A u \in Tenants : HalfStored(u) => HalfStored(u)'
        BY <2>e, <3>0, <3>1, HalfStays
      <4>4. ASSUME NEW u \in Tenants, u # t, served'[Id[u]] # NoTenant
            PROVE  served'[Slug[u]] # NoTenant \/ HalfStored(u)'
        <5>1. Id[u] # Id[t]
          BY <1>0, <4>4, OneOwner
        <5>2. served[Id[u]] # NoTenant
          BY <1>0, <4>1, <4>4, <5>1
        <5> QED BY <1>0, <4>1, <4>3, <5>2 DEF HalfInv
      <4>5. HalfInv'
        BY <4>2, <4>4 DEF HalfInv
      <4> QED BY <2>e, <3>0, <3>1, <4>1, <4>5 DEF FreshInv
    <3>2. CASE event' = [event EXCEPT ![t] = "idle"] /\ UNCHANGED served
      <4>1. \A u \in Tenants : HalfStored(u) => HalfStored(u)'
        BY <2>e, <3>0, <3>2, HalfStays
      <4>2. HalfInv'
        BY <3>2, <4>1 DEF HalfInv
      <4> QED BY <2>e, <3>0, <3>2, <4>2 DEF ServedInv, Sound, NamesOf, FreshInv
    <3> QED BY <2>3, <3>1, <3>2 DEF EventStoresId, EventAt
  <2>4. ASSUME NEW t \in Tenants, EventStoresSlug(t)
        PROVE  ServedInv' /\ HalfInv' /\ FreshInv' /\ event' \in [Tenants -> {"idle", "storeId", "storeSlug"}]
               /\ \A n \in Names : served[n] # NoTenant => served'[n] = served[n]
    <3>0. /\ event[t] = "storeSlug" /\ UNCHANGED <<phase, pc, cur>> /\ phase = "running"
          /\ event' = [event EXCEPT ![t] = "idle"] /\ served' = [served EXCEPT ![Slug[t]] = t]
      BY <2>4 DEF EventStoresSlug, EventAt, locals, FreshInv
    <3>1. /\ ServedInv' /\ served'[Slug[t]] = t /\ \A m \in Names : m # Slug[t] => served'[m] = served[m]
          /\ \A m \in Names : served[m] # NoTenant => served'[m] = served[m]
      <4> DEFINE n == Slug[t]
      <4>1. ServedInv /\ n \in NamesOf(t) /\ served' = [served EXCEPT ![n] = t]
        BY <1>0, <3>0
      <4> HIDE DEF n
      <4>2. /\ ServedInv' /\ served'[n] = t /\ (\A m \in Names : m # n => served'[m] = served[m])
            /\ \A m \in Names : served[m] # NoTenant => served'[m] = served[m]
        BY <4>1, Storing
      <4> QED BY <4>2 DEF n
    <3>2. \A u \in Tenants : u # t /\ HalfStored(u) => HalfStored(u)'
      BY <2>e, <3>0, HalfStays
    <3>3. ASSUME NEW u \in Tenants, u # t, served'[Id[u]] # NoTenant
          PROVE  served'[Slug[u]] # NoTenant \/ HalfStored(u)'
      <4>1. Id[u] # Slug[t]
        BY <1>0, <3>3, OneOwner
      <4>2. served[Id[u]] # NoTenant
        BY <1>0, <3>1, <3>3, <4>1
      <4> QED BY <1>0, <3>1, <3>2, <3>3, <4>2 DEF HalfInv
    <3>4. HalfInv'
      BY <1>0, <3>1, <3>3 DEF HalfInv
    <3> QED BY <2>e, <3>0, <3>1, <3>4 DEF FreshInv
  <2> QED BY <2>1, <2>2, <2>3, <2>4
<1>k. Kept
  BY <1>1, <1>2, <1>3 DEF Kept
<1>4. TypeOK'
  BY <1>1, <1>2, <1>3 DEF TypeOK, locals, ServedInv, Sound
<1>5. FileInv'
  <2> SUFFICES ASSUME kind = "file", phase = "running", NEW t \in listed PROVE served'[Id[t]] = t
    BY <1>1, <1>2 DEF FileInv
  <2> QED BY <1>3, TenancyAssumption DEF TenancyAssumption, FileInv, TypeOK
<1>6. ASSUME NEW q \in Requests PROVE ReqInv(q)'
  BY <1>1, <1>k, Others DEF Same, locals
<1> QED BY <1>2, <1>3, <1>4, <1>5, <1>6

-------------------------------------------------------------------------------
(* The actions of a request *)

AllButRequest == <<kind, listed, phase, known, served, event, delivered>>

(* When one request moves and nothing else does, only its own part is to be shown. *)
LEMMA OneMoves ==
  ASSUME IInv, NEW r \in Requests, UNCHANGED AllButRequest, TypeOK', ReqInv(r)', pc[r] # "storeSlug",
         \A q \in Requests \ {r} : Same(q)
  PROVE  IInv'
<1>0. HalfInv'
  <2>1. \A t \in Tenants : HalfStored(t) => HalfStored(t)'
    BY DEF HalfStored, Same, AllButRequest
  <2> QED BY <2>1 DEF IInv, HalfInv, AllButRequest
<1>1. Kept /\ KnownInv' /\ ServedInv' /\ FreshInv' /\ FileInv'
  BY DEF IInv, AllButRequest, Kept, KnownInv, KeysOf, ServedInv, Sound, NamesOf, FreshInv, FileInv
<1>2. \A q \in Requests \ {r} : ReqInv(q)'
  BY <1>1, Others DEF IInv
<1> QED BY <1>0, <1>1, <1>2 DEF IInv

(* What is chosen is a name or none; the token comes first and the path next. *)
LEMMA Choice ==
  ASSUME NEW in \in Inputs
  PROVE  /\ Chosen(in) \in Names \cup {NoName}
         /\ in["auth"] # NoName => Chosen(in) = in["auth"]
         /\ OrElse(in["auth"], in["path"]) # NoName => Chosen(in) = OrElse(in["auth"], in["path"])
BY TenancyAssumption DEF TenancyAssumption, Chosen, OrElse, Fields

LEMMA ArriveStep ==
  ASSUME IInv, NEW r \in Requests, Arrive(r)
  PROVE  IInv'
<1> USE DEF IInv
<1>1. PICK in \in Inputs : /\ input' = [input EXCEPT ![r] = in]
                           /\ tenantId' = [tenantId EXCEPT ![r] = Checked(Chosen(in))]
  BY DEF Arrive
<1>2. Checked(Chosen(in)) \in Names \cup {NoName}
  BY Choice, TenancyAssumption DEF TenancyAssumption, Checked
<1>3. TypeOK'
  BY <1>1, <1>2 DEF TypeOK, Arrive, Goto, Reloading
<1>4. PlaceInv(r)' /\ LookInv(r)'
  BY <1>1 DEF TypeOK, Arrive, Goto, ReqInv, PlaceInv, LookInv
<1>5. TenantInv(r)'
  BY <1>1 DEF TypeOK, Arrive, TenantInv, Checked
<1>6. AskInv(r)'
  <2> SUFFICES ASSUME kind = "file", NEW t \in listed, Asks(r, t)', ~changed[r]
               PROVE  tenantId'[r] = Id[t]
    BY DEF TypeOK, AskInv, Arrive, Goto, Reloading
  <2>1. Id[t] \in known /\ Id[t] # NoName
    BY TenancyAssumption DEF TenancyAssumption, TypeOK, FileInv, KnownInv, KeysOf, Arrive
  <2>2. Chosen(in) = Id[t] /\ Lower[Id[t]] = Id[t]
    BY <1>1, <2>1, Choice DEF Asks, TypeOK
  <2> QED BY <1>1, <2>1, <2>2 DEF Checked, TypeOK
<1>7. \A q \in Requests \ {r} : Same(q)
  BY <1>1 DEF Arrive, Goto, Same, TypeOK
<1> QED BY <1>3, <1>4, <1>5, <1>6, <1>7, OneMoves DEF Arrive, AllButRequest, ReqInv

(* A request that is over leaves everything else as it is. *)
LEMMA LeaveStep ==
  ASSUME IInv, NEW r \in Requests, Leave(r), pc[r] # "storeSlug", UNCHANGED AllButRequest
  PROVE  IInv'
<1>1. TypeOK'
  BY DEF IInv, TypeOK, Leave, Goto, AllButRequest, Reloading
<1>2. \A q \in Requests \ {r} : Same(q)
  BY DEF IInv, TypeOK, Leave, Goto, Same
<1> QED BY <1>1, <1>2, Leaving, OneMoves DEF IInv

LEMMA MiddlewaresStep ==
  ASSUME IInv, NEW r \in Requests, Middlewares(r)
  PROVE  IInv'
<1> USE DEF IInv
<1> SUFFICES ASSUME ~Leave(r) PROVE IInv'
  BY LeaveStep DEF Middlewares, AllButRequest
<1>1. SetTenants \subseteq Names
  BY TenancyAssumption DEF TenancyAssumption
<1>2. TypeOK'
  <2>1. /\ pc[r] = "middlewares" /\ pc' = [pc EXCEPT ![r] = "lookup"]
        /\ UNCHANGED <<kind, listed, phase, known, served, event, delivered, input, answer, todo, cur, cnx>>
    BY DEF Middlewares, Goto
  <2>2. \/ UNCHANGED <<tenantId, changed>>
        \/ /\ \E n \in SetTenants : tenantId' = [tenantId EXCEPT ![r] = n]
           /\ changed' = [changed EXCEPT ![r] = TRUE]
    BY DEF Middlewares
  <2>3. tenantId' \in [Requests -> Names \cup {NoName}] /\ changed' \in [Requests -> BOOLEAN]
    <3>1. CASE UNCHANGED <<tenantId, changed>>
      BY <3>1 DEF TypeOK
    <3>2. ASSUME NEW n \in SetTenants, tenantId' = [tenantId EXCEPT ![r] = n],
                 changed' = [changed EXCEPT ![r] = TRUE]
          PROVE  tenantId' \in [Requests -> Names \cup {NoName}] /\ changed' \in [Requests -> BOOLEAN]
      BY <1>1, <3>2 DEF TypeOK
    <3> QED BY <2>2, <3>1, <3>2
  <2>4. ASSUME NEW q \in Requests, pc'[q] \in Reloading
        PROVE  tenantId'[q] # NoName /\ cnx'[q] = NoTenant
    <3>1. q # r
      BY <2>1, <2>4 DEF TypeOK, Reloading
    <3>2. pc'[q] = pc[q] /\ tenantId'[q] = tenantId[q] /\ cnx'[q] = cnx[q]
      BY <2>1, <2>2, <3>1 DEF TypeOK
    <3> QED BY <2>4, <3>2 DEF TypeOK
  <2> QED BY <2>1, <2>3, <2>4 DEF TypeOK
<1>3. ReqInv(r)'
  <2>1. /\ pc[r] = "middlewares" /\ pc'[r] = "lookup" /\ UNCHANGED <<input, answer, cnx>>
        /\ ~changed'[r] => tenantId'[r] = tenantId[r] /\ ~changed[r]
    BY DEF TypeOK, Middlewares, Goto
  <2>2. PlaceInv(r)' /\ TenantInv(r)' /\ LookInv(r)'
    BY <2>1 DEF Middlewares, ReqInv, PlaceInv, TenantInv, LookInv
  <2>3. AskInv(r)'
    BY <2>1 DEF Middlewares, ReqInv, AskInv, Asks, Reloading
  <2> QED BY <2>2, <2>3 DEF ReqInv
<1>4. \A q \in Requests \ {r} : Same(q)
  BY DEF TypeOK, Middlewares, Goto, Same
<1> QED BY <1>2, <1>3, <1>4, OneMoves DEF Middlewares, AllButRequest

LEMMA LookupStep ==
  ASSUME IInv, NEW r \in Requests, Lookup(r)
  PROVE  IInv'
<1> USE DEF IInv
<1>1. TypeOK'
  BY DEF TypeOK, Lookup, Handle, Goto, Reloading, ReqInv, PlaceInv
<1>2. PlaceInv(r)' /\ TenantInv(r)'
  BY DEF TypeOK, Lookup, Handle, Goto, ReqInv, PlaceInv, TenantInv
<1>3. LookInv(r)'
  BY DEF TypeOK, Lookup, Handle, Goto, ReqInv, LookInv, ServedInv, Sound, NamesOf
<1>4. AskInv(r)'
  <2> SUFFICES ASSUME kind = "file", ~changed[r], NEW t \in listed, Asks(r, t)
               PROVE  tenantId[r] = Id[t] /\ pc'[r] = "handler" /\ cnx'[r] = t
    BY DEF TypeOK, AskInv, Asks, Lookup, Reloading
  <2>1. tenantId[r] = Id[t] /\ served[Id[t]] = t /\ t # NoTenant /\ Id[t] # NoName
    BY TenancyAssumption DEF TenancyAssumption, TypeOK, ReqInv, AskInv, PlaceInv, FileInv, Lookup
  <2> QED BY <2>1 DEF TypeOK, Lookup, Handle, Goto
<1>5. \A q \in Requests \ {r} : Same(q)
  BY DEF TypeOK, Lookup, Handle, Goto, Same
<1> QED BY <1>1, <1>2, <1>3, <1>4, <1>5, OneMoves DEF Lookup, AllButRequest, ReqInv

LEMMA LoadStep ==
  ASSUME IInv, NEW r \in Requests, Load(r)
  PROVE  IInv'
<1> USE DEF IInv
<1> SUFFICES ASSUME ~Leave(r) PROVE IInv'
  BY LeaveStep DEF Load, AllButRequest
<1>1. TypeOK'
  BY DEF TypeOK, Load, Goto, Answers, Reloading
<1>2. ReqInv(r)'
  BY DEF TypeOK, Load, Goto, Answers, ReqInv, PlaceInv, TenantInv, LookInv, AskInv, Asks, Reloading
<1>3. \A q \in Requests \ {r} : Same(q)
  BY DEF TypeOK, Load, Goto, Same
<1> QED BY <1>1, <1>2, <1>3, OneMoves DEF Load, AllButRequest

LEMMA LoadReturnsStep ==
  ASSUME IInv, NEW r \in Requests, LoadReturns(r)
  PROVE  IInv'
<1> USE DEF IInv
<1>1. KnownInv' /\ known \subseteq known'
  BY Learning DEF LoadReturns
<1>2. UNION {KeysOf(t) : t \in answer[r]} \subseteq Names
  BY NamesAreNames DEF TypeOK
<1>3. TypeOK'
  BY <1>2 DEF TypeOK, LoadReturns, Goto, Learn, Reloading
<1>7. \A q \in Requests \ {r} : Same(q)
  BY DEF TypeOK, LoadReturns, Goto, Same
<1>4. Kept /\ ServedInv' /\ FreshInv'
  BY <1>1 DEF Kept, LoadReturns, ServedInv, Sound, NamesOf, FreshInv
<1>h. HalfInv'
  <2>1. \A t \in Tenants : HalfStored(t) => HalfStored(t)'
    BY <1>7 DEF HalfStored, Same, LoadReturns
  <2> QED BY <2>1 DEF HalfInv, LoadReturns
<1>5. FileInv'
  <2> SUFFICES ASSUME kind = "file" PROVE delivered' = listed
    BY DEF FileInv, LoadReturns, ReqInv, PlaceInv
  <2>1. delivered = listed /\ answer[r] \subseteq listed
    BY DEF FileInv, LoadReturns, ReqInv, PlaceInv
  <2> QED BY <2>1 DEF LoadReturns, Learn
<1>6. ReqInv(r)'
  BY <1>1 DEF TypeOK, LoadReturns, Goto, ReqInv, PlaceInv, TenantInv, LookInv, AskInv, Asks, Reloading
<1> QED BY <1>1, <1>3, <1>4, <1>h, <1>5, <1>6, <1>7, Others

LEMMA CheckTenantStep ==
  ASSUME IInv, NEW r \in Requests, CheckTenant(r)
  PROVE  IInv'
<1> USE DEF IInv
<1>1. PICK t \in todo[r] :
        /\ todo' = [todo EXCEPT ![r] = @ \ {t}]
        /\ \/ served[Id[t]] # NoTenant /\ UNCHANGED <<pc, cur>>
           \/ served[Id[t]] = NoTenant /\ Goto(r, "storeId") /\ cur' = [cur EXCEPT ![r] = t]
  BY DEF CheckTenant
<1>2. pc[r] = "register" /\ t \in Tenants /\ UNCHANGED <<input, tenantId, changed, answer, cnx>>
  BY DEF CheckTenant, TypeOK
<1>3. TypeOK'
  <2>1. todo' \in [Requests -> SUBSET Tenants] /\ cur' \in [Requests -> Tenants \cup {NoTenant}]
    BY <1>1, <1>2 DEF TypeOK
  <2>2. /\ pc' \in [Requests -> {"idle", "middlewares", "lookup", "handler"} \cup Reloading]
        /\ \A q \in Requests : pc'[q] \in Reloading => pc[q] \in Reloading
    BY <1>1, <1>2 DEF TypeOK, Goto, Reloading
  <2> QED BY <2>1, <2>2, <1>2 DEF CheckTenant, TypeOK
<1>4. LookInv(r)'
  <2>1. \A u \in answer[r] : u \in todo[r] \/ served[Id[u]] # NoTenant
    BY <1>2 DEF ReqInv, LookInv
  <2>2. CASE served[Id[t]] # NoTenant /\ UNCHANGED <<pc, cur>>
    BY <1>1, <1>2, <2>1, <2>2 DEF CheckTenant, TypeOK, LookInv
  <2>3. CASE Goto(r, "storeId") /\ cur' = [cur EXCEPT ![r] = t]
    BY <1>1, <1>2, <2>1, <2>3 DEF CheckTenant, TypeOK, Goto, LookInv
  <2> QED BY <1>1, <2>2, <2>3
<1>5. pc'[r] \in {"register", "storeId"} /\ \A q \in Requests \ {r} : Same(q)
  BY <1>1, <1>2 DEF TypeOK, Goto, Same
<1>6. PlaceInv(r)' /\ TenantInv(r)' /\ AskInv(r)'
  BY <1>2, <1>5 DEF CheckTenant, ReqInv, PlaceInv, TenantInv, AskInv, Asks, Reloading
<1> QED BY <1>2, <1>3, <1>4, <1>5, <1>6, OneMoves DEF CheckTenant, AllButRequest, ReqInv

LEMMA StoreStep ==
  ASSUME IInv, NEW r \in Requests, StoreId(r) \/ StoreSlug(r)
  PROVE  IInv'
<1> USE DEF IInv
<1> SUFFICES ASSUME ~(pc[r] = "storeId" /\ Leave(r) /\ UNCHANGED served) PROVE IInv'
  BY LeaveStep DEF StoreId, StoreSlug, AllButRequest
<1>t. PICK t \in Tenants : t = cur[r]
  BY DEF ReqInv, LookInv, StoreId, StoreSlug
<1> DEFINE n == IF pc[r] = "storeId" THEN Id[t] ELSE Slug[t]
<1>0. /\ t \in Tenants /\ t # NoTenant /\ n \in NamesOf(t)
      /\ \A u \in Tenants : Id[u] \in NamesOf(u) /\ Slug[u] \in NamesOf(u) /\ NamesOf(u) \subseteq Names
  BY NamesAreNames, TenancyAssumption DEF TenancyAssumption, NamesOf
<1>1. /\ served' = [served EXCEPT ![n] = t]
      /\ UNCHANGED <<kind, listed, phase, known, event, delivered, input, tenantId, changed, answer, todo, cnx>>
      /\ \/ pc[r] = "storeId" /\ Goto(r, "storeSlug") /\ UNCHANGED cur
         \/ pc[r] = "storeSlug" /\ Goto(r, "register") /\ cur' = [cur EXCEPT ![r] = NoTenant]
  BY <1>t DEF StoreId, StoreSlug
<1> HIDE DEF n
<1>2. /\ ServedInv' /\ served'[n] = t /\ (\A m \in Names : m # n => served'[m] = served[m])
      /\ \A m \in Names : served[m] # NoTenant => served'[m] = served[m]
  <2>1. ServedInv /\ t \in Tenants /\ n \in NamesOf(t) /\ served' = [served EXCEPT ![n] = t]
    BY <1>0, <1>1
  <2> QED BY <2>1, Storing
<1>3. TypeOK'
  BY <1>1, <1>2 DEF TypeOK, Goto, Reloading, ServedInv, Sound
<1>4. \A q \in Requests \ {r} : Same(q)
  BY <1>1 DEF TypeOK, Goto, Same
<1>5. KnownInv' /\ Kept /\ FreshInv'
  <2>1. phase = "running"
    BY <1>1 DEF ReqInv, PlaceInv
  <2> QED BY <1>1, <1>2, <2>1 DEF KnownInv, KeysOf, Kept, FreshInv
<1>6. FileInv'
  BY <1>1, <1>2, TenancyAssumption DEF TenancyAssumption, FileInv, TypeOK
<1>7. HalfInv'
  <2>1. \A u \in Tenants : u # t /\ HalfStored(u) => HalfStored(u)'
    BY <1>1, <1>4, <1>t DEF HalfStored, Same
  <2>2. ASSUME NEW u \in Tenants, u # t, served'[Id[u]] # NoTenant
        PROVE  served'[Slug[u]] # NoTenant \/ HalfStored(u)'
    <3>1. Id[u] # n
      BY <1>0, <2>2, OneOwner
    <3>2. served[Id[u]] # NoTenant
      BY <1>0, <1>2, <2>2, <3>1
    <3> QED BY <1>0, <1>2, <2>1, <2>2, <3>2 DEF HalfInv
  <2>3. served'[Slug[t]] # NoTenant \/ HalfStored(t)'
    <3>1. CASE pc[r] = "storeId"
      BY <1>1, <1>t, <3>1 DEF HalfStored, Goto, TypeOK
    <3>2. CASE pc[r] = "storeSlug"
      BY <1>0, <1>2, <3>2 DEF n
    <3> QED BY <1>1, <3>1, <3>2
  <2>4. ASSUME NEW u \in Tenants, served'[Id[u]] # NoTenant
        PROVE  served'[Slug[u]] # NoTenant \/ HalfStored(u)'
    <3>1. CASE u = t
      BY <2>3, <3>1
    <3> QED BY <2>2, <2>4, <3>1
  <2> QED BY <2>4 DEF HalfInv
<1>8. LookInv(r)'
  <2>1. \A u \in answer[r] : u \in todo[r] \/ (pc[r] = "storeId" /\ u = t) \/ served[Id[u]] # NoTenant
    <3>1. LookInv(r) /\ pc[r] \in {"storeId", "storeSlug"}
      BY <1>1 DEF ReqInv, Goto
    <3> QED BY <1>t, <3>1 DEF LookInv
  <2>2. \A u \in answer[r] : u \in todo[r] \/ served'[Id[u]] # NoTenant
    <3> SUFFICES ASSUME NEW u \in answer[r], u \notin todo[r] PROVE served'[Id[u]] # NoTenant
      OBVIOUS
    <3>1. u \in Tenants
      BY DEF TypeOK
    <3>2. CASE pc[r] = "storeId" /\ u = t
      BY <1>0, <1>2, <3>2 DEF n
    <3>3. CASE served[Id[u]] # NoTenant
      BY <1>0, <1>2, <3>1, <3>3
    <3> QED BY <2>1, <3>2, <3>3
  <2>3. pc'[r] \in {"storeSlug", "register"} /\ (pc'[r] = "storeSlug" => cur'[r] \in Tenants)
    BY <1>0, <1>1, <1>t DEF Goto, TypeOK
  <2> QED BY <1>1, <2>2, <2>3 DEF LookInv
<1>9. PlaceInv(r)' /\ TenantInv(r)' /\ AskInv(r)'
  <2>1. pc[r] \in Reloading /\ pc'[r] \in {"storeSlug", "register"}
    BY <1>1 DEF Goto, TypeOK, Reloading
  <2> QED BY <1>1, <2>1 DEF ReqInv, PlaceInv, TenantInv, AskInv, Asks, Reloading
<1>10. \A q \in Requests : ReqInv(q)'
  BY <1>4, <1>5, <1>8, <1>9, Others DEF ReqInv
<1> QED BY <1>2, <1>3, <1>5, <1>6, <1>7, <1>10

LEMMA RelookupStep ==
  ASSUME IInv, NEW r \in Requests, Relookup(r)
  PROVE  IInv'
<1> USE DEF IInv
<1>1. pc[r] = "register" /\ tenantId[r] \in Names /\ tenantId[r] # NoName
  BY DEF Relookup, TypeOK, Reloading
<1>2. TypeOK'
  BY <1>1 DEF TypeOK, Relookup, Handle, Goto, Reloading
<1>3. PlaceInv(r)' /\ TenantInv(r)'
  BY DEF TypeOK, Relookup, Handle, Goto, ReqInv, PlaceInv, TenantInv
<1>4. LookInv(r)'
  <2>1. served[tenantId[r]] # NoTenant => tenantId[r] \in NamesOf(served[tenantId[r]])
    BY <1>1 DEF ServedInv, Sound
  <2> QED BY <2>1 DEF TypeOK, LookInv, Relookup, Handle, Goto, NamesOf
<1>5. AskInv(r)'
  BY <1>1 DEF TypeOK, Relookup, ReqInv, AskInv, Asks, Reloading
<1>6. \A q \in Requests \ {r} : Same(q)
  BY DEF TypeOK, Relookup, Handle, Goto, Same
<1> QED BY <1>2, <1>3, <1>4, <1>5, <1>6, OneMoves DEF Relookup, AllButRequest, ReqInv

-------------------------------------------------------------------------------
(* The theorems *)

(* The inductive invariant holds in every reachable state, for any requests, tenants, *)
(* names and inputs.                                                                  *)
THEOREM Invariance == Spec => []IInv
<1>1. Init => IInv
  <2> SUFFICES ASSUME Init PROVE IInv
    OBVIOUS
  <2>1. TypeOK
    BY DEF Init, TypeOK, Reloading
  <2>2. KnownInv /\ ServedInv /\ FileInv
    BY TenancyAssumption DEF TenancyAssumption, Init, KnownInv, ServedInv, Sound, FileInv
  <2>f. HalfInv /\ FreshInv
    BY TenancyAssumption DEF TenancyAssumption, Init, HalfInv, FreshInv
  <2>3. \A r \in Requests : ReqInv(r)
    BY DEF Init, ReqInv, PlaceInv, TenantInv, LookInv, AskInv
  <2> QED BY <2>1, <2>2, <2>f, <2>3 DEF IInv
<1>2. IInv /\ [Next]_vars => IInv'
  <2> SUFFICES ASSUME IInv, [Next]_vars PROVE IInv'
    OBVIOUS
  <2>1. CASE NewProvider \/ InitDataSource
    BY <2>1, StartStep
  <2>2. CASE ServiceChanges \/ \E t \in Tenants : TenantCreated(t) \/ EventStoresId(t) \/ EventStoresSlug(t)
    BY <2>2, OutsideStep
  <2>3. ASSUME NEW r \in Requests, Arrive(r) \/ Middlewares(r) \/ Lookup(r)
        PROVE  IInv'
    BY <2>3, ArriveStep, MiddlewaresStep, LookupStep
  <2>4. ASSUME NEW r \in Requests, Load(r) \/ LoadReturns(r) \/ Relookup(r)
        PROVE  IInv'
    BY <2>4, LoadStep, LoadReturnsStep, RelookupStep
  <2>7. ASSUME NEW r \in Requests, CheckTenant(r) \/ StoreId(r) \/ StoreSlug(r)
        PROVE  IInv'
    BY <2>7, CheckTenantStep, StoreStep
  <2>5. ASSUME NEW r \in Requests, EndRequest(r) PROVE IInv'
    BY <2>5, LeaveStep DEF EndRequest, AllButRequest
  <2>6. CASE UNCHANGED vars
    BY <2>6 DEF vars, locals, IInv, TypeOK, KnownInv, KeysOf, NamesOf, ServedInv, Sound, HalfInv,
                HalfStored, FreshInv, FileInv, ReqInv, PlaceInv, TenantInv, LookInv, AskInv, Asks
  <2> QED BY <2>1, <2>2, <2>3, <2>4, <2>5, <2>6, <2>7, TenancyAssumption DEF TenancyAssumption, Next
<1> QED BY <1>1, <1>2, PTL DEF Spec

(* Tenancy is well typed, and Connection is never asked for the empty name. *)
THEOREM Typing == Spec => []TypeOK
BY Invariance, PTL DEF IInv

(* A handler gets the database of the tenant in its context or the default one, and the *)
(* tenant the AuthProvider names comes before all others.                               *)
THEOREM RoutedToOwn == Spec => []OwnDatabase
<1>1. IInv => OwnDatabase
  <2> SUFFICES ASSUME IInv, NEW r \in Requests, pc[r] = "handler", cnx[r] # NoTenant
               PROVE  /\ tenantId[r] \in NamesOf(cnx[r])
                      /\ ~changed[r] /\ input[r]["auth"] # NoName =>
                           Lower[input[r]["auth"]] \in NamesOf(cnx[r])
    BY DEF OwnDatabase
  <2>1. tenantId[r] \in NamesOf(cnx[r]) /\ input[r] \in Inputs
    BY DEF IInv, ReqInv, PlaceInv, LookInv
  <2>2. tenantId[r] # NoName
    BY <2>1, NamesAreNames, TenancyAssumption DEF TenancyAssumption, IInv, TypeOK
  <2> QED BY <2>1, <2>2, Choice DEF IInv, ReqInv, TenantInv
<1> QED BY <1>1, Invariance, PTL

(* The router accepts only tenants that the provider has been told of. *)
THEOREM AcceptedIsKnown == Spec => []AcceptedWasDelivered
<1>1. IInv => AcceptedWasDelivered
  BY DEF IInv, ReqInv, TenantInv, KnownInv, AcceptedWasDelivered
<1> QED BY <1>1, Invariance, PTL

(* The provider never forgets a tenant, however answers overtake each other. *)
THEOREM NeverForgotten == Spec => []DeliveredStaysKnown
<1>1. IInv => DeliveredStaysKnown
  BY DEF IInv, KnownInv, DeliveredStaysKnown
<1> QED BY <1>1, Invariance, PTL

(* The default database is given to a request whose own answer has its tenant only at the *)
(* moment at which somebody has stored that tenant under its ID and not under the slug the  *)
(* request goes by; and never to one that asks for a tenant of the file by its lower-case   *)
(* ID.                                                                                      *)
THEOREM NoSilentDefault == Spec => DefaultOnlyIfNotListed
<1>1. IInv /\ IInv' /\ [Next]_vars =>
        [\A r \in Requests : pc[r] # "handler" /\ pc'[r] = "handler" =>
           /\ tenantId[r] # NoName /\ cnx'[r] = NoTenant =>
                \A t \in answer[r] : tenantId[r] \in NamesOf(t) => tenantId[r] # Id[t] /\ HalfStored(t)
           /\ kind = "file" /\ ~changed[r] =>
                \A t \in listed :
                  OrElse(input[r]["auth"], input[r]["path"]) = Id[t] /\ Lower[Id[t]] = Id[t] => cnx'[r] = t
        ]_vars
  <2> SUFFICES ASSUME IInv, IInv', Next, NEW r \in Requests, pc[r] # "handler", pc'[r] = "handler"
               PROVE  /\ tenantId[r] # NoName /\ cnx'[r] = NoTenant =>
                           \A t \in answer[r] : tenantId[r] \in NamesOf(t) => tenantId[r] # Id[t] /\ HalfStored(t)
                      /\ kind = "file" /\ ~changed[r] => \A t \in listed : Asks(r, t) => cnx'[r] = t
    BY DEF Asks, vars, locals
  <2>1. Lookup(r) \/ Relookup(r)
    <3>1. ASSUME NEW q \in Requests,
                 Arrive(q) \/ Middlewares(q) \/ Load(q) \/ LoadReturns(q) \/ CheckTenant(q) \/ StoreId(q)
                 \/ StoreSlug(q) \/ EndRequest(q)
          PROVE  FALSE
      BY <3>1 DEF IInv, TypeOK, Arrive, Middlewares, Load, LoadReturns, CheckTenant, StoreId, StoreSlug,
                  EndRequest, Leave, Goto
    <3>2. ASSUME NEW q \in Requests, q # r, Lookup(q) \/ Relookup(q) PROVE FALSE
      BY <3>2 DEF IInv, TypeOK, Lookup, Relookup, Handle, Goto
    <3> QED BY <3>1, <3>2 DEF Next, NewProvider, InitDataSource, ServiceChanges, TenantCreated, EventStoresId,
               EventStoresSlug, locals
  <2>2. UNCHANGED <<kind, listed, input, tenantId, changed>>
    BY <2>1 DEF Lookup, Relookup
  <2>3. kind = "file" /\ ~changed[r] => \A t \in listed : Asks(r, t) => cnx'[r] = t
    <3>1. AskInv(r)'
      BY DEF IInv, ReqInv
    <3> QED BY <2>2, <3>1 DEF AskInv, Asks
  <2>4. ASSUME tenantId[r] # NoName, cnx'[r] = NoTenant, NEW t \in answer[r], tenantId[r] \in NamesOf(t)
        PROVE  tenantId[r] # Id[t] /\ HalfStored(t)
    <3>1. pc[r] = "register" /\ todo[r] = {} /\ served[tenantId[r]] = NoTenant
      BY <2>1, <2>4 DEF IInv, TypeOK, Lookup, Relookup, Handle, Goto
    <3>2. t \in Tenants /\ served[Id[t]] # NoTenant
      BY <3>1 DEF IInv, TypeOK, ReqInv, LookInv
    <3>3. tenantId[r] = Slug[t]
      BY <2>4, <3>1, <3>2 DEF NamesOf
    <3> QED BY <3>1, <3>2, <3>3 DEF IInv, HalfInv
  <2> QED BY <2>3, <2>4
<1> QED BY <1>1, Invariance, PTL DEF Spec, DefaultOnlyIfNotListed
=============================================================================
