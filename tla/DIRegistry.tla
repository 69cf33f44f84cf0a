------------------------------ MODULE DIRegistry ------------------------------
(* The component registry of core/di.go: two maps under one sync.RWMutex.      *)
(* Resolve and MustResolve only turn the answer of Lookup into an error or a   *)
(* panic, so their state changes are Lookup's.                                 *)
(*                                                                             *)
(* Abstracted: a reflect.Type is a model value; so is a component.  One of the  *)
(* components may stand for the nil interface: looking it up panics in the type *)
(* assertion, after the same state changes and with the lock released by the    *)
(* same code, so the answer "it" and that panic are one case here.              *)
EXTENDS FiniteSets

CONSTANTS Goroutines, Types, Components, Absent, Pending, Nobody

ASSUME RegistryAssumption ==
  /\ {Absent, Pending} \cap Components = {} /\ Absent # Pending
  /\ Nobody \notin Goroutines

VARIABLES
  registry,  \* type -> component registered, or Absent
  cache,     \* type -> component resolved, or Absent
  readers,   \* goroutines that hold the read lock
  writer,    \* the goroutine that has announced a write lock or holds it
  pc,        \* where each goroutine is
  call,      \* the call it has made
  reply      \* its answer, Pending until the state it depends on has been read

maps == <<registry, cache>>
lock == <<readers, writer>>
registryVars == <<maps, lock, pc, call, reply>>

Abstract == INSTANCE Singletons WITH provided <- registry, resolved <- cache

Entries == Components \cup {Absent}
NoCall == [op |-> "none"]
Calls == Abstract!Calls
Locked == {"provide", "slow", "clear"}   \* the write lock is held

RegistryTypeOK ==
  /\ registry \in [Types -> Entries]
  /\ cache \in [Types -> Entries]
  /\ readers \subseteq Goroutines
  /\ writer \in Goroutines \cup {Nobody}
  /\ pc \in [Goroutines -> {"idle", "rlock", "fast", "runlock", "lock", "wait", "unlock", "return"} \cup Locked]
  /\ call \in [Goroutines -> Calls]
  /\ reply \in [Goroutines -> Entries \cup {Pending}]

RegistryInit ==
  /\ registry = [t \in Types |-> Absent]
  /\ cache = [t \in Types |-> Absent]
  /\ readers = {} /\ writer = Nobody
  /\ pc = [g \in Goroutines |-> "idle"]
  /\ call = [g \in Goroutines |-> NoCall]
  /\ reply = [g \in Goroutines |-> Pending]

-------------------------------------------------------------------------------
(* sync.RWMutex: a writer first announces itself, which keeps new readers out, *)
(* and enters when the readers inside have left.                               *)

Goto(g, from, to) == pc[g] = from /\ pc' = [pc EXCEPT ![g] = to]

RLock(g) ==
  /\ Goto(g, "rlock", "fast")
  /\ writer = Nobody
  /\ readers' = readers \cup {g}
  /\ UNCHANGED <<maps, writer, call, reply>>

\* The write lock is requested with nothing held.
Announce(g) ==
  /\ Goto(g, "lock", "wait")
  /\ writer = Nobody
  /\ writer' = g
  /\ UNCHANGED <<maps, readers, call, reply>>

EnterAs(op) == CASE op = "provide" -> "provide" [] op = "lookup" -> "slow" [] op = "clear" -> "clear"

Lock(g) ==
  /\ Goto(g, "wait", EnterAs(call[g].op))
  /\ readers = {}
  /\ UNCHANGED <<maps, lock, call, reply>>

\* defer mu.Unlock(): also when the type assertion panics.
Unlock(g) ==
  /\ Goto(g, "unlock", "return")
  /\ writer' = Nobody
  /\ UNCHANGED <<maps, readers, call, reply>>

-------------------------------------------------------------------------------
(* The operations *)

Call(g, c) ==
  /\ c # NoCall
  /\ Goto(g, "idle", IF c.op = "lookup" THEN "rlock" ELSE "lock")
  /\ call' = [call EXCEPT ![g] = c]
  /\ UNCHANGED <<maps, lock, reply>>

Answer(g, r) == reply' = [reply EXCEPT ![g] = r]

\* Provide: the registry is written, the cache is not.
Provide(g) ==
  /\ Goto(g, "provide", "unlock")
  /\ registry' = [registry EXCEPT ![call[g].type] = call[g].arg]
  /\ Answer(g, call[g].arg)
  /\ UNCHANGED <<cache, lock, call>>

\* Lookup, the fast path: the cache is read under the read lock, which is then released.
LookupFast(g) ==
  /\ Goto(g, "fast", "runlock")
  /\ Answer(g, IF cache[call[g].type] # Absent THEN cache[call[g].type] ELSE Pending)
  /\ UNCHANGED <<maps, lock, call>>

\* Mutant: the read lock is kept on a miss.
RUnlockOnHit(g) ==
  /\ Goto(g, "runlock", IF reply[g] # Pending THEN "return" ELSE "lock")
  /\ readers' = IF reply[g] # Pending THEN readers \ {g} ELSE readers
  /\ UNCHANGED <<maps, writer, call, reply>>

RUnlock(g) ==
  /\ Goto(g, "runlock", IF reply[g] # Pending THEN "return" ELSE "lock")
  /\ readers' = readers \ {g}
  /\ UNCHANGED <<maps, writer, call, reply>>

\* Mutant: the cache is not looked at again under the write lock.
LookupSlowNoRecheck(g) ==
  LET t == call[g].type IN
  /\ Goto(g, "slow", "unlock")
  /\ Answer(g, registry[t])
  /\ cache' = [cache EXCEPT ![t] = registry[t]]
  /\ UNCHANGED <<registry, lock, call>>

\* Mutant: the answer comes from the registry, the cache from its first reader.
LookupSlowFresh(g) ==
  LET t == call[g].type IN
  /\ Goto(g, "slow", "unlock")
  /\ Answer(g, registry[t])
  /\ cache' = [cache EXCEPT ![t] = IF @ # Absent THEN @ ELSE registry[t]]
  /\ UNCHANGED <<registry, lock, call>>

\* Lookup, the slow path: the cache again, because another goroutine may have
\* filled it, then the registry; what is found there is cached.
LookupSlow(g) ==
  LET t == call[g].type
      c == IF cache[t] # Absent THEN cache[t] ELSE registry[t]
  IN /\ Goto(g, "slow", "unlock")
     /\ Answer(g, c)
     /\ cache' = [cache EXCEPT ![t] = c]
     /\ UNCHANGED <<registry, lock, call>>

Clear(g) ==
  /\ Goto(g, "clear", "unlock")
  /\ registry' = [t \in Types |-> Absent]
  /\ cache' = [t \in Types |-> Absent]
  /\ Answer(g, Absent)
  /\ UNCHANGED <<lock, call>>

Return(g) ==
  /\ Goto(g, "return", "idle")
  /\ call' = [call EXCEPT ![g] = NoCall]
  /\ reply' = [reply EXCEPT ![g] = Pending]
  /\ UNCHANGED <<maps, lock>>

-------------------------------------------------------------------------------
Inside(g) ==
  \/ LookupFast(g) \/ RUnlock(g) \/ LookupSlow(g) \/ Provide(g) \/ Clear(g) \/ Unlock(g) \/ Return(g)

RegistryNext ==
  \E g \in Goroutines :
    \/ \E c \in Calls : Call(g, c)
    \/ RLock(g) \/ Announce(g) \/ Lock(g) \/ Inside(g)

RegistrySpec == RegistryInit /\ [][RegistryNext]_registryVars

\* Goroutines are scheduled; sync.RWMutex starves neither readers nor writers
\* (blocked readers enter before the next writer, a starving writer is handed the lock).
RegistryFairSpec ==
  /\ RegistrySpec
  /\ \A g \in Goroutines :
       /\ WF_registryVars(Inside(g) \/ Lock(g))
       /\ SF_registryVars(RLock(g)) /\ SF_registryVars(Announce(g))

-------------------------------------------------------------------------------
(* Properties *)

\* A goroutine about to write a map is alone: no other one is between taking and
\* releasing the lock in either mode, on every path of Lookup, Provide and Clear.
WritersAreAlone ==
  \A g, h \in Goroutines :
    g # h /\ pc[g] \in Locked => pc[h] \notin Locked \cup {"fast", "runlock"}

\* What has been resolved was provided and stays provided: a cached type is never
\* missing from the registry, across any interleaving of Lookup, Provide and Clear.
CachedIsRegistered == \A t \in Types : cache[t] # Absent => registry[t] # Absent

\* A cache entry changes only when Clear empties both maps.
KeepsSingletons ==
  \A t \in Types :
    cache[t] # Absent /\ cache'[t] # cache[t]
      => \A u \in Types : cache'[u] = Absent /\ registry'[u] = Absent

\* A resolved singleton is never replaced by another one, whatever is provided
\* meanwhile and however many goroutines look it up for the first time, until Clear.
SingletonUntilClear == [][KeepsSingletons]_registryVars

\* The registry behaves as if every call took effect at once (Singletons).
Implements == Abstract!Spec

\* Every call returns: the locks are always released and never upgraded.
CallsReturn == \A g \in Goroutines : call[g] # NoCall ~> call[g] = NoCall
=============================================================================
