------------------------------ MODULE LocalCache ------------------------------
(* The process-wide cache of h/cache.go and those who read through it: the *)
(* Get of a Vault provider (GetOrSet under "vault:" and the path), and     *)
(* GetTenantList and Load of the HTTP tenant provider (Get and Set under   *)
(* "tenants").  The module is about one key.  A key names neither the      *)
(* mount nor the service its value comes from, so the callers here are     *)
(* those of every provider that shares the key, and a version is the state *)
(* of all their sources together.                                          *)
EXTENDS Integers, Sequences

CONSTANTS Procs,       \* goroutines that call
          TTL,         \* one hour
          Timeout,     \* from the start of a read of the source to the Set of its answer:
                       \* 30 s with Vault; with the tenant service, nothing bounds it
          Buffer,      \* how many Sets ristretto keeps until it admits them
          MaxTime,     \* bound of the exploration: the clock
          MaxVersion,  \* bound of the exploration: the changes of the sources
          None         \* no cache, no value

ASSUME CacheAssumption ==
  /\ TTL \in Nat /\ Timeout \in Nat /\ Buffer \in Nat /\ MaxTime \in Nat /\ MaxVersion \in Nat
  /\ None \notin Procs

VARIABLES now,           \* the clock
          version,       \* the version the sources hold
          defaultCache,  \* the global: a cache is named after the goroutine that made it
          stored,        \* per cache: its entry, or None
          setBuf,        \* per cache: ristretto's Sets that are not yet admitted
          pc,            \* per goroutine: its place
          looks,         \* per goroutine: whether the call looks into the cache (Load does not)
          cache, since,  \* per goroutine: its cache, and when it began to read the source
          answer,        \* per goroutine: what it has read and not yet set, or None
          newest,        \* history: the newest version anybody was answered with
          floor,         \* history: newest when the call began
          oldest,        \* history: the greatest age a value had when it was answered
          back,          \* history: somebody was answered with a version older than his floor
          crossed        \* history: two default caches were made, or a read began while
                         \* another was under way or a Set waited

calls == <<pc, looks, cache, since, answer, floor>>
caches == <<defaultCache, stored, setBuf>>
seen == <<newest, oldest, back>>
cacheVars == <<now, version, caches, calls, seen, crossed>>

\* A value: its version, when it was read, until when it is kept.
Entry == [version : 0..MaxVersion, read : 0..MaxTime, expires : 0..MaxTime+TTL]

CacheInit ==
  /\ now = 0 /\ version = 0
  /\ defaultCache = None
  /\ stored = [c \in Procs |-> None] /\ setBuf = [c \in Procs |-> <<>>]
  /\ pc = [g \in Procs |-> "idle"] /\ looks = [g \in Procs |-> TRUE]
  /\ cache = [g \in Procs |-> None]
  /\ since = [g \in Procs |-> 0] /\ answer = [g \in Procs |-> None]
  /\ newest = 0 /\ floor = [g \in Procs |-> 0]
  /\ oldest = 0 /\ back = FALSE /\ crossed = FALSE

Goto(g, where) == pc' = [pc EXCEPT ![g] = where]
Reading == {g \in Procs : pc[g] \in {"fetch", "set"}}

\* The goroutine returns, and forgets the call.
Return(g) ==
  /\ Goto(g, "idle")
  /\ looks' = [looks EXCEPT ![g] = TRUE]
  /\ cache' = [cache EXCEPT ![g] = None] /\ since' = [since EXCEPT ![g] = 0]
  /\ answer' = [answer EXCEPT ![g] = None]
  /\ floor' = [floor EXCEPT ![g] = 0]

\* It returns nil, an error of the read.
ReturnNil(g) == Return(g) /\ UNCHANGED seen

\* It returns the value of the entry e.
ReturnValue(g, e) ==
  /\ Return(g)
  /\ newest' = IF e.version > newest THEN e.version ELSE newest
  /\ oldest' = IF now - e.read > oldest THEN now - e.read ELSE oldest
  /\ back' = (back \/ e.version < floor[g])

-------------------------------------------------------------------------------
(* Outside the code: the clock, the sources, ristretto *)

\* A source answers, or fails, within Timeout; what follows takes no time to speak of.
Tick ==
  /\ now < MaxTime /\ \A g \in Reading : now - since[g] < Timeout
  /\ now' = now + 1 /\ UNCHANGED <<version, caches, calls, seen, crossed>>

Change ==
  /\ version < MaxVersion /\ version' = version + 1
  /\ UNCHANGED <<now, caches, calls, seen, crossed>>

\* ristretto admits the oldest waiting Set or rejects it.
Admit(c) ==
  /\ setBuf[c] # <<>> /\ setBuf' = [setBuf EXCEPT ![c] = Tail(@)]
  /\ stored' \in {stored, [stored EXCEPT ![c] = Head(setBuf[c])]}
  /\ UNCHANGED <<now, version, defaultCache, calls, seen, crossed>>

\* ristretto drops an entry, to make room or because it has expired.
Evict(c) ==
  /\ stored[c] # None /\ stored' = [stored EXCEPT ![c] = None]
  /\ UNCHANGED <<now, version, defaultCache, setBuf, calls, seen, crossed>>

\* SetWithTTL replaces an entry at once; a new one waits for admission, or is dropped.
SetWithTTL(c, e) ==
  IF stored[c] # None
  THEN stored' = [stored EXCEPT ![c] = e] /\ UNCHANGED setBuf
  ELSE /\ UNCHANGED stored
       /\ \/ Len(setBuf[c]) < Buffer /\ setBuf' = [setBuf EXCEPT ![c] = Append(@, e)]
          \/ UNCHANGED setBuf

-------------------------------------------------------------------------------
(* The calls *)

\* Vault's Get and GetTenantList look into the cache first, Load does not.  All begin with
\* DefaultCache; each goroutine that finds the global nil makes a cache.
Call(g, look) ==
  /\ pc[g] = "idle"
  /\ looks' = [looks EXCEPT ![g] = look]
  /\ floor' = [floor EXCEPT ![g] = newest] /\ cache' = [cache EXCEPT ![g] = defaultCache]
  /\ Goto(g, IF defaultCache = None THEN "new" ELSE "look")
  /\ UNCHANGED <<now, version, caches, since, answer, seen, crossed>>

\* DefaultCache assigns the cache it has made, in place of any other made meanwhile.
AssignDefault(g) ==
  /\ pc[g] = "new" /\ defaultCache' = g /\ Goto(g, "assigned")
  /\ crossed' = (crossed \/ defaultCache # None)
  /\ UNCHANGED <<now, version, stored, setBuf, looks, cache, since, answer, floor, seen>>

\* and returns what is in the global by then.
ReadDefault(g) ==
  /\ pc[g] = "assigned" /\ cache' = [cache EXCEPT ![g] = defaultCache] /\ Goto(g, "look")
  /\ UNCHANGED <<now, version, caches, looks, since, answer, floor, seen, crossed>>

\* The global is an interface of two words, assigned without a lock: who reads it at the
\* first assignment may get one word of it, and the call panics.
TornRead(g) ==
  /\ pc[g] = "idle" /\ defaultCache = None /\ \E o \in Procs : pc[o] = "new"
  /\ ReturnNil(g) /\ UNCHANGED <<now, version, caches, crossed>>

\* An entry is found until it has expired.
Has(c) == stored[c] # None /\ now <= stored[c].expires

\* A hit ends the call.
Hit(g) ==
  /\ pc[g] = "look" /\ looks[g] /\ Has(cache[g])
  /\ ReturnValue(g, stored[cache[g]]) /\ UNCHANGED <<now, version, caches, crossed>>

\* A miss, or a Load: the source is asked.
Miss(g) ==
  /\ pc[g] = "look" /\ ~(looks[g] /\ Has(cache[g]))
  /\ Goto(g, "fetch") /\ since' = [since EXCEPT ![g] = now]
  /\ crossed' = (crossed \/ Reading # {} \/ \E c \in Procs : setBuf[c] # <<>>)
  /\ UNCHANGED <<now, version, caches, looks, cache, answer, floor, seen>>

\* The source answers with what it holds now, or fails: nothing is stored then.
Fetch(g) ==
  /\ pc[g] = "fetch"
  /\ \/ /\ answer' = [answer EXCEPT ![g] = [version |-> version, read |-> now, expires |-> now]]
        /\ Goto(g, "set") /\ UNCHANGED <<looks, cache, since, floor, seen>>
     \/ ReturnNil(g)
  /\ UNCHANGED <<now, version, caches, crossed>>

\* Mutant: the value is kept for ever.
SetForever(g) ==
  /\ pc[g] = "set"
  /\ SetWithTTL(cache[g], [answer[g] EXCEPT !.expires = MaxTime + TTL])
  /\ ReturnValue(g, answer[g]) /\ UNCHANGED <<now, version, defaultCache, crossed>>

\* Mutant: what is in the cache already stays.
SetIfAbsent(g) ==
  /\ pc[g] = "set"
  /\ IF stored[cache[g]] = None
     THEN SetWithTTL(cache[g], [answer[g] EXCEPT !.expires = now + TTL])
     ELSE UNCHANGED <<stored, setBuf>>
  /\ ReturnValue(g, answer[g]) /\ UNCHANGED <<now, version, defaultCache, crossed>>

\* The answer is set for TTL and returned.
Set(g) ==
  /\ pc[g] = "set"
  /\ SetWithTTL(cache[g], [answer[g] EXCEPT !.expires = now + TTL])
  /\ ReturnValue(g, answer[g]) /\ UNCHANGED <<now, version, defaultCache, crossed>>

CacheNext ==
  \/ Tick \/ Change
  \/ \E c \in Procs : Admit(c) \/ Evict(c)
  \/ \E g \in Procs :
       \/ \E look \in BOOLEAN : Call(g, look)
       \/ AssignDefault(g) \/ ReadDefault(g) \/ TornRead(g)
       \/ Hit(g) \/ Miss(g) \/ Fetch(g) \/ Set(g)

CacheSpec == CacheInit /\ [][CacheNext]_cacheVars

-------------------------------------------------------------------------------
(* Properties *)

\* The types of the variables; in a cache are only entries that were read and set.
CacheTypeOK ==
  /\ now \in 0..MaxTime /\ version \in 0..MaxVersion
  /\ defaultCache \in Procs \union {None}
  /\ stored \in [Procs -> Entry \union {None}]
  /\ setBuf \in [Procs -> Seq(Entry)] /\ \A c \in Procs : Len(setBuf[c]) <= Buffer
  /\ pc \in [Procs -> {"idle", "new", "assigned", "look", "fetch", "set"}]
  /\ looks \in [Procs -> BOOLEAN]
  /\ cache \in [Procs -> Procs \union {None}] /\ since \in [Procs -> 0..MaxTime]
  /\ answer \in [Procs -> Entry \union {None}]
  /\ newest \in 0..MaxVersion /\ floor \in [Procs -> 0..MaxVersion]
  /\ oldest \in 0..MaxTime /\ back \in BOOLEAN /\ crossed \in BOOLEAN

\* Nobody is answered with a value that was read longer ago than the hour of SetWithTTL and
\* one read of the source, however often it is hit, set again or answered to the callers of
\* another mount, and whichever of two default caches it is in.
AnswerIsRecent == oldest <= TTL + Timeout

\* A call is answered with an older version than one that was known before it began only if
\* two reads of the source overlapped, one began while the Set of another was waiting, or two
\* goroutines made a default cache.
GoesBackOnlyIfCrossed == back => crossed

================================================================================
