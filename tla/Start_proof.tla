----------------------------- MODULE Start_proof -----------------------------
(* Proofs about what an application is started from and shares: the component    *)
(* registry of core/di.go (DIRegistry), the features of app/app.go (FeatureInit) *)
(* and the identifiers of h/ids.go (ShortId), for any number of goroutines,      *)
(* types and components, any features, dependencies and lists of them, and any   *)
(* widths of the fields of an identifier.                                        *)
EXTENDS DIRegistry, FeatureInit, ShortId, FiniteSetTheorems, WellFoundedInduction, TLAPS

-------------------------------------------------------------------------------
(* DIRegistry.  The inductive invariant, as named parts. *)

Reading == {"fast", "runlock"}
Writing == {"wait", "unlock"} \cup Locked

\* The lock variables say what the goroutines are doing, and writers are alone.
LockInv ==
  /\ readers = {g \in Goroutines : pc[g] \in Reading}
  /\ \A g \in Goroutines : writer = g <=> pc[g] \in Writing
  /\ \A g \in Goroutines : pc[g] \in Locked => readers = {}

\* A goroutine is on the path of its call.
CallInv ==
  \A g \in Goroutines :
    /\ pc[g] = "idle" <=> call[g] = NoCall
    /\ pc[g] \in {"rlock", "slow"} \cup Reading => call[g].op = "lookup"
    /\ pc[g] = "provide" => call[g].op = "provide"
    /\ pc[g] = "clear" => call[g].op = "clear"

\* It has an answer when the state its answer depends on has been read, and not before.
ReplyInv ==
  \A g \in Goroutines :
    /\ pc[g] \in {"unlock", "return"} => reply[g] # Pending
    /\ pc[g] \in {"idle", "rlock", "fast", "lock", "wait"} \cup Locked => reply[g] = Pending

-------------------------------------------------------------------------------
\* A call is one of Provide, Lookup or Clear, or none.
LEMMA CallTypes ==
  ASSUME NEW c \in Calls
  PROVE  /\ c.op \in {"provide", "lookup", "clear", "none"}
         /\ c.op \in {"provide", "lookup"} => c.type \in Types
         /\ c.op = "provide" => c.arg \in Components
         /\ c.op = "none" => c = NoCall
  BY DEF Calls, Abstract!Calls, NoCall, Abstract!NoCall

\* Making no call is one of the calls.
LEMMA NoCallIsCall == NoCall \in Calls
  BY DEF Calls, Abstract!Calls, NoCall, Abstract!NoCall

(* DIRegistry is well typed, and every goroutine is on the path of its call. *)
THEOREM RegistryTyping == RegistrySpec => [](RegistryTypeOK /\ CallInv)
<1>1. RegistryInit => RegistryTypeOK
  BY NoCallIsCall DEF RegistryInit, RegistryTypeOK, Entries
<1>2. RegistryTypeOK /\ CallInv /\ [RegistryNext]_registryVars => RegistryTypeOK' /\ CallInv'
  <2> SUFFICES ASSUME RegistryTypeOK, CallInv, [RegistryNext]_registryVars PROVE RegistryTypeOK' /\ CallInv'
    OBVIOUS
  <2> USE DEF RegistryTypeOK, CallInv, Goto, Locked, Reading
  <2>1. CASE UNCHANGED registryVars
    BY <2>1 DEF registryVars, maps, lock
  <2>2. ASSUME NEW g \in Goroutines, NEW c \in Calls, Call(g, c) PROVE RegistryTypeOK' /\ CallInv'
    BY <2>2, CallTypes DEF Call, maps, lock, NoCall
  <2>3. ASSUME NEW g \in Goroutines, RLock(g) PROVE RegistryTypeOK' /\ CallInv'
    BY <2>3 DEF RLock, maps
  <2>4. ASSUME NEW g \in Goroutines, Announce(g) PROVE RegistryTypeOK' /\ CallInv'
    BY <2>4 DEF Announce, maps
  <2>5. ASSUME NEW g \in Goroutines, Lock(g) PROVE RegistryTypeOK' /\ CallInv'
    <3>1. call[g].op \in {"provide", "lookup", "clear"}
      BY <2>5, CallTypes DEF Lock
    <3> QED BY <2>5, <3>1 DEF Lock, EnterAs, maps, lock
  <2>6. ASSUME NEW g \in Goroutines, LookupFast(g) PROVE RegistryTypeOK' /\ CallInv'
    BY <2>6, CallTypes DEF LookupFast, Answer, maps, lock
  <2>7. ASSUME NEW g \in Goroutines, RUnlock(g) PROVE RegistryTypeOK' /\ CallInv'
    BY <2>7 DEF RUnlock, maps
  <2>8. ASSUME NEW g \in Goroutines, LookupSlow(g) PROVE RegistryTypeOK' /\ CallInv'
    BY <2>8, CallTypes DEF LookupSlow, Answer, lock
  <2>9. ASSUME NEW g \in Goroutines, Provide(g) PROVE RegistryTypeOK' /\ CallInv'
    BY <2>9, CallTypes DEF Provide, Answer, lock, Entries
  <2>10. ASSUME NEW g \in Goroutines, Clear(g) PROVE RegistryTypeOK' /\ CallInv'
    BY <2>10 DEF Clear, Answer, lock, Entries
  <2>11. ASSUME NEW g \in Goroutines, Unlock(g) PROVE RegistryTypeOK' /\ CallInv'
    BY <2>11 DEF Unlock, maps
  <2>12. ASSUME NEW g \in Goroutines, Return(g) PROVE RegistryTypeOK' /\ CallInv'
    BY <2>12, NoCallIsCall DEF Return, maps, lock
  <2> QED BY <2>1, <2>2, <2>3, <2>4, <2>5, <2>6, <2>7, <2>8, <2>9, <2>10, <2>11, <2>12
          DEF RegistryNext, Inside
<1>3. RegistryInit => CallInv
  BY DEF RegistryInit, CallInv, NoCall, Locked, Reading
<1> QED BY <1>1, <1>2, <1>3, PTL DEF RegistrySpec

(* The read and write locks exclude each other, on every path. *)
THEOREM Locking == RegistrySpec => []LockInv
<1>1. RegistryInit => LockInv
  BY RegistryAssumption DEF RegistryAssumption, RegistryInit, LockInv, Reading, Writing, Locked
<1>2. RegistryTypeOK /\ CallInv /\ LockInv /\ [RegistryNext]_registryVars => LockInv'
  <2> SUFFICES ASSUME RegistryTypeOK, CallInv, LockInv, [RegistryNext]_registryVars PROVE LockInv'
    OBVIOUS
  <2> USE RegistryAssumption DEF RegistryAssumption, RegistryTypeOK, LockInv, Goto, Locked, Reading, Writing
  <2>1. CASE UNCHANGED registryVars
    BY <2>1 DEF registryVars, maps, lock
  <2>2. ASSUME NEW g \in Goroutines, NEW c \in Calls, Call(g, c) PROVE LockInv'
    BY <2>2 DEF Call, maps, lock
  <2>3. ASSUME NEW g \in Goroutines, RLock(g) PROVE LockInv'
    BY <2>3 DEF RLock, maps
  <2>4. ASSUME NEW g \in Goroutines, Announce(g) PROVE LockInv'
    BY <2>4 DEF Announce, maps
  <2>5. ASSUME NEW g \in Goroutines, Lock(g) PROVE LockInv'
    <3>1. EnterAs(call[g].op) \in Locked
      <4>1. call[g] \in Calls /\ call[g] # NoCall
        BY <2>5 DEF Lock, CallInv
      <4>2. call[g].op \in {"provide", "lookup", "clear"}
        BY <4>1, CallTypes
      <4> QED BY <4>2 DEF EnterAs
    <3>2. readers = {} /\ UNCHANGED <<readers, writer>> /\ pc[g] = "wait"
          /\ pc' = [pc EXCEPT ![g] = EnterAs(call[g].op)]
      BY <2>5 DEF Lock, lock
    <3> HIDE DEF Goto
    <3> QED BY <3>1, <3>2
  <2>6. ASSUME NEW g \in Goroutines, LookupFast(g) PROVE LockInv'
    BY <2>6 DEF LookupFast, Answer, maps, lock
  <2>7. ASSUME NEW g \in Goroutines, RUnlock(g) PROVE LockInv'
    BY <2>7 DEF RUnlock, maps
  <2>8. ASSUME NEW g \in Goroutines, LookupSlow(g) PROVE LockInv'
    BY <2>8 DEF LookupSlow, Answer, lock
  <2>9. ASSUME NEW g \in Goroutines, Provide(g) PROVE LockInv'
    BY <2>9 DEF Provide, Answer, lock
  <2>10. ASSUME NEW g \in Goroutines, Clear(g) PROVE LockInv'
    BY <2>10 DEF Clear, Answer, lock
  <2>11. ASSUME NEW g \in Goroutines, Unlock(g) PROVE LockInv'
    BY <2>11 DEF Unlock, maps
  <2>12. ASSUME NEW g \in Goroutines, Return(g) PROVE LockInv'
    BY <2>12 DEF Return, maps, lock
  <2> QED BY <2>1, <2>2, <2>3, <2>4, <2>5, <2>6, <2>7, <2>8, <2>9, <2>10, <2>11, <2>12 DEF RegistryNext, Inside
<1> QED BY <1>1, <1>2, RegistryTyping, PTL DEF RegistrySpec

(* Every answer is given while the lock it depends on is held. *)
THEOREM Replying == RegistrySpec => []ReplyInv
<1>1. RegistryInit => ReplyInv
  BY RegistryAssumption DEF RegistryInit, ReplyInv, Locked
<1>2. RegistryTypeOK /\ CallInv /\ ReplyInv /\ [RegistryNext]_registryVars => ReplyInv'
  <2> SUFFICES ASSUME RegistryTypeOK, CallInv, ReplyInv, [RegistryNext]_registryVars PROVE ReplyInv'
    OBVIOUS
  <2>0. Pending \notin Entries
    BY RegistryAssumption DEF RegistryAssumption, Entries
  <2> USE DEF RegistryTypeOK, ReplyInv, Goto, Locked
  <2>1. CASE UNCHANGED registryVars
    BY <2>1 DEF registryVars, maps, lock
  <2>2. ASSUME NEW g \in Goroutines, NEW c \in Calls, Call(g, c) PROVE ReplyInv'
    BY <2>2, <2>0, CallTypes DEF Call, maps, lock
  <2>3. ASSUME NEW g \in Goroutines, RLock(g) PROVE ReplyInv'
    BY <2>3, <2>0, CallTypes DEF RLock, maps
  <2>4. ASSUME NEW g \in Goroutines, Announce(g) PROVE ReplyInv'
    BY <2>4, <2>0, CallTypes DEF Announce, maps
  <2>5. ASSUME NEW g \in Goroutines, Lock(g) PROVE ReplyInv'
    BY <2>5, <2>0, CallTypes DEF Lock, maps, lock, EnterAs, CallInv
  <2>6. ASSUME NEW g \in Goroutines, LookupFast(g) PROVE ReplyInv'
    BY <2>6, <2>0, CallTypes DEF LookupFast, Answer, maps, lock, CallInv, Reading
  <2>7. ASSUME NEW g \in Goroutines, RUnlock(g) PROVE ReplyInv'
    BY <2>7, <2>0, CallTypes DEF RUnlock, maps
  <2>8. ASSUME NEW g \in Goroutines, LookupSlow(g) PROVE ReplyInv'
    BY <2>8, <2>0, CallTypes DEF LookupSlow, Answer, lock, CallInv, Reading
  <2>9. ASSUME NEW g \in Goroutines, Provide(g) PROVE ReplyInv'
    BY <2>9, <2>0, CallTypes DEF Provide, Answer, lock, CallInv, Entries
  <2>10. ASSUME NEW g \in Goroutines, Clear(g) PROVE ReplyInv'
    BY <2>10, <2>0, CallTypes DEF Clear, Answer, lock, Entries
  <2>11. ASSUME NEW g \in Goroutines, Unlock(g) PROVE ReplyInv'
    BY <2>11, <2>0, CallTypes DEF Unlock, maps
  <2>12. ASSUME NEW g \in Goroutines, Return(g) PROVE ReplyInv'
    BY <2>12, <2>0, CallTypes DEF Return, maps, lock
  <2> QED BY <2>1, <2>2, <2>3, <2>4, <2>5, <2>6, <2>7, <2>8, <2>9, <2>10, <2>11, <2>12 DEF RegistryNext, Inside
<1> QED BY <1>1, <1>2, RegistryTyping, PTL DEF RegistrySpec

-------------------------------------------------------------------------------
(* Only these three steps change a map; each belongs to the goroutine that holds the *)
(* write lock.                                                                       *)
LEMMA MapSteps ==
  ASSUME RegistryTypeOK, CallInv, [RegistryNext]_registryVars
  PROVE  \/ UNCHANGED <<registry, cache>>
         \/ \E g \in Goroutines : pc[g] \in Locked /\ (Provide(g) \/ LookupSlow(g) \/ Clear(g))
  BY DEF registryVars, maps, RegistryNext, Inside, Call, RLock, Announce, Lock, LookupFast, RUnlock, Unlock, Return,
         Provide, LookupSlow, Clear, Goto, Locked

(* A goroutine that is about to write a map is alone with the lock, on the paths of *)
(* Lookup, Provide and Clear.                                                       *)
THEOREM Exclusion == RegistrySpec => []WritersAreAlone
<1>1. RegistryTypeOK /\ LockInv => WritersAreAlone
  BY DEF RegistryTypeOK, LockInv, WritersAreAlone, Reading, Writing, Locked
<1> QED BY <1>1, RegistryTyping, Locking, PTL

(* What is cached is registered, whatever Lookup, Provide and Clear do concurrently. *)
THEOREM CacheWithinRegistry == RegistrySpec => []CachedIsRegistered
<1>1. RegistryInit => CachedIsRegistered
  BY DEF RegistryInit, CachedIsRegistered
<1>2. RegistryTypeOK /\ CallInv /\ CachedIsRegistered /\ [RegistryNext]_registryVars => CachedIsRegistered'
  <2> SUFFICES ASSUME RegistryTypeOK, CallInv, CachedIsRegistered, [RegistryNext]_registryVars PROVE CachedIsRegistered'
    OBVIOUS
  <2>1. CASE UNCHANGED <<registry, cache>>
    BY <2>1 DEF CachedIsRegistered
  <2>2. ASSUME NEW g \in Goroutines, Provide(g) PROVE CachedIsRegistered'
    <3>1. call[g].type \in Types /\ call[g].arg # Absent
      BY <2>2, CallTypes, RegistryAssumption DEF Provide, Goto, RegistryTypeOK, CallInv, RegistryAssumption
    <3> QED BY <2>2, <3>1 DEF Provide, RegistryTypeOK, CachedIsRegistered
  <2>3. ASSUME NEW g \in Goroutines, LookupSlow(g) PROVE CachedIsRegistered'
    BY <2>3 DEF LookupSlow, RegistryTypeOK, CachedIsRegistered
  <2>4. ASSUME NEW g \in Goroutines, Clear(g) PROVE CachedIsRegistered'
    BY <2>4 DEF Clear, CachedIsRegistered
  <2> QED BY <2>1, <2>2, <2>3, <2>4, MapSteps
<1> QED BY <1>1, <1>2, RegistryTyping, PTL DEF RegistrySpec

(* A resolved singleton stays what it is until Clear empties both maps. *)
THEOREM Sticky == RegistrySpec => SingletonUntilClear
<1>1. RegistryTypeOK /\ CallInv /\ [RegistryNext]_registryVars => [KeepsSingletons]_registryVars
  <2> SUFFICES ASSUME RegistryTypeOK, CallInv, [RegistryNext]_registryVars, NEW t \in Types,
                      cache[t] # Absent, cache'[t] # cache[t]
               PROVE  \A u \in Types : cache'[u] = Absent /\ registry'[u] = Absent
    BY DEF KeepsSingletons
  <2>1. PICK g \in Goroutines : Provide(g) \/ LookupSlow(g) \/ Clear(g)
    BY MapSteps
  <2>2. ~Provide(g)
    BY DEF Provide
  <2>3. ~LookupSlow(g)
    BY DEF LookupSlow, RegistryTypeOK
  <2> QED BY <2>1, <2>2, <2>3 DEF Clear
<1> QED BY <1>1, RegistryTyping, PTL DEF RegistrySpec, SingletonUntilClear

-------------------------------------------------------------------------------
(* The registry implements Singletons: an operation takes effect with the one step  *)
(* that reads or writes the maps for it, every other step changes nothing a caller  *)
(* can see.                                                                         *)
THEOREM Refinement == RegistrySpec => Implements
<1>1. RegistryInit => Abstract!Init
  BY DEF RegistryInit, Abstract!Init, NoCall, Abstract!NoCall
<1>2. RegistryTypeOK /\ CallInv /\ ReplyInv /\ [RegistryNext]_registryVars => [Abstract!Next]_(Abstract!vars)
  <2> SUFFICES ASSUME RegistryTypeOK, CallInv, ReplyInv, [RegistryNext]_registryVars
               PROVE  Abstract!Next \/ UNCHANGED Abstract!vars
    OBVIOUS
  <2> USE DEF Abstract!vars
  <2>1. CASE UNCHANGED registryVars
    BY <2>1 DEF registryVars, maps
  <2>2. ASSUME NEW g \in Goroutines, NEW c \in Calls, Call(g, c) PROVE Abstract!Next
    <3>1. Abstract!Call(g, c)
      BY <2>2 DEF Call, Abstract!Call, CallInv, Goto, maps, NoCall, Abstract!NoCall
    <3> QED BY <3>1 DEF Abstract!Next, Calls
  <2>3. ASSUME NEW g \in Goroutines, RLock(g) \/ Announce(g) \/ Lock(g) \/ RUnlock(g) \/ Unlock(g)
        PROVE  UNCHANGED Abstract!vars
    BY <2>3 DEF RLock, Announce, Lock, RUnlock, Unlock, maps
  <2>4. ASSUME NEW g \in Goroutines, LookupFast(g) PROVE Abstract!Next \/ UNCHANGED Abstract!vars
    <3> DEFINE t == call[g].type
    <3>1. reply[g] = Pending /\ call[g].op = "lookup" /\ t \in Types
      BY <2>4, CallTypes DEF LookupFast, Goto, RegistryTypeOK, CallInv, ReplyInv, Reading
    <3>2. UNCHANGED <<registry, cache, call>>
      BY <2>4 DEF LookupFast, maps
    <3>3. CASE cache[t] = Absent
      BY <2>4, <3>1, <3>2, <3>3 DEF LookupFast, Answer, RegistryTypeOK
    <3>4. CASE cache[t] # Absent
      <4>1. reply' = [reply EXCEPT ![g] = cache[t]]
        BY <2>4, <3>4 DEF LookupFast, Answer
      <4>2. cache' = [cache EXCEPT ![t] = cache[t]]
        BY <3>1, <3>2 DEF RegistryTypeOK
      <4>3. Abstract!Lookup(g)
        BY <3>1, <3>2, <3>4, <4>1, <4>2 DEF Abstract!Lookup, Abstract!Answer
      <4> QED BY <4>3 DEF Abstract!Next
    <3> QED BY <3>3, <3>4
  <2>5. ASSUME NEW g \in Goroutines, LookupSlow(g) PROVE Abstract!Next
    <3>1. reply[g] = Pending /\ call[g].op = "lookup"
      BY <2>5 DEF LookupSlow, Goto, RegistryTypeOK, CallInv, ReplyInv, Locked
    <3>2. Abstract!Lookup(g)
      BY <2>5, <3>1 DEF LookupSlow, Answer, Abstract!Lookup, Abstract!Answer
    <3> QED BY <3>2 DEF Abstract!Next
  <2>6. ASSUME NEW g \in Goroutines, Provide(g) PROVE Abstract!Next
    <3>1. Abstract!Provide(g)
      BY <2>6 DEF Provide, Answer, Goto, RegistryTypeOK, CallInv, ReplyInv, Locked, Abstract!Provide, Abstract!Answer
    <3> QED BY <3>1 DEF Abstract!Next
  <2>7. ASSUME NEW g \in Goroutines, Clear(g) PROVE Abstract!Next
    <3>1. Abstract!Clear(g)
      BY <2>7 DEF Clear, Answer, Goto, RegistryTypeOK, CallInv, ReplyInv, Locked, Abstract!Clear, Abstract!Answer
    <3> QED BY <3>1 DEF Abstract!Next
  <2>8. ASSUME NEW g \in Goroutines, Return(g) PROVE Abstract!Next
    <3>1. Abstract!Return(g)
      BY <2>8 DEF Return, Goto, RegistryTypeOK, ReplyInv, maps, Abstract!Return, NoCall, Abstract!NoCall
    <3> QED BY <3>1 DEF Abstract!Next
  <2> QED BY <2>1, <2>2, <2>3, <2>4, <2>5, <2>6, <2>7, <2>8 DEF RegistryNext, Inside
<1> QED BY <1>1, <1>2, RegistryTyping, Replying, PTL DEF RegistrySpec, Implements, Abstract!Spec

-------------------------------------------------------------------------------
(* FeatureInit                                                                  *)

\* The dependencies of m, counted with repetition, that are not in S.
Unmet(m, S) == Cardinality({i \in DOMAIN deps[m] : deps[m][i] \notin S})

-------------------------------------------------------------------------------
(* The inductive invariants of FeatureInit, as named parts. *)

\* The names in the given list were found to be in order.
Checked == phase # "check" /\ error \notin {"unnamed", "duplicate"}
\* orderFeatures has counted the dependencies.
Counting == Checked /\ phase \notin {"load", "count"}

\* The types of FeatureInit, but for indegree, and what phase, error and indices say of each other.
FeatureTypes ==
  /\ deps \in [Names -> Seq(Names)] /\ given \in Seq(Names \union {NoName})
  /\ phase \in Phases /\ error \in Errors /\ next \in Nat \ {0} /\ dep \in Nat \ {0}
  /\ loaded \in Seq(Names) /\ queue \in Seq(Names) /\ order \in Seq(Names)
  /\ before \in Seq(Names) /\ inits \in Seq(Names)
  /\ phase # "over" => error = "none"
  /\ ~Counting => indegree = <<>> /\ queue = <<>> /\ order = <<>>
  /\ error = "cyclic" => phase = "over"
  /\ phase = "check" => Len(loaded) = next - 1 /\ next - 1 <= Len(given)
  /\ Checked => Len(given) <= Len(loaded)

\* The given features come first, then their dependencies, as far as the loop has got.
LoadInv ==
  /\ IsInjective(loaded)
  /\ \A i \in 1..Len(given) : i <= Len(loaded) => loaded[i] = given[i]
  /\ phase = "check" => dep = 1
  /\ Checked => \A i \in 1..Len(given) : \A k \in DOMAIN deps[loaded[i]] :
       (phase = "load" => i < next \/ (i = next /\ k < dep)) => deps[loaded[i]][k] \in ToSet(loaded)

\* The sort: indegree counts the dependencies that are not yet in the order, and where none is
\* left, the feature waits or is in the order, once.
SortInv ==
  Counting =>
    /\ indegree = [m \in ToSet(loaded) |-> Unmet(m, ToSet(order))]
    /\ ToSet(queue) \union ToSet(order) = {m \in ToSet(loaded) : Unmet(m, ToSet(order)) = 0}
    /\ ToSet(queue) \cap ToSet(order) = {} /\ IsInjective(queue) /\ IsInjective(order)
    /\ \A i \in DOMAIN order : ToSet(deps[order[i]]) \subseteq {order[j] : j \in 1..(i - 1)}
    /\ phase # "sort" => queue = <<>> /\ (error = "cyclic" <=> ToSet(order) # ToSet(loaded))

\* The hooks run down the order, OnInit after all of BeforeInit.
HookInv ==
  /\ Len(before) <= Len(order) /\ \A i \in 1..Len(before) : before[i] = order[i]
  /\ Len(inits) <= Len(order) /\ \A i \in 1..Len(inits) : inits[i] = order[i]
  /\ phase = "before" => Len(before) = next - 1
  /\ phase \in {"providers", "init"} \/ inits # <<>> \/ (phase = "over" /\ error = "none") => Len(before) = Len(order)
  /\ phase = "init" => Len(inits) = next - 1
  /\ phase = "over" /\ error = "none" => Len(inits) = Len(order)
  /\ phase \notin {"init", "over"} \/ error # "none" => inits = <<>>
  /\ phase \in {"check", "load", "count", "sort"} \/ error = "cyclic" => before = <<>>

-------------------------------------------------------------------------------
\* Ordering n meets Edges(n, m) of them.
LEMMA UnmetLess ==
  ASSUME NEW m, deps[m] \in Seq(Names), NEW S, NEW n
  PROVE  /\ Unmet(m, S) \in Nat /\ Edges(n, m) \in Nat
         /\ Unmet(m, S) = 0 <=> ToSet(deps[m]) \subseteq S
         /\ n \notin S => Unmet(m, S) = Unmet(m, S \union {n}) + Edges(n, m)
<1> DEFINE D == {i \in DOMAIN deps[m] : deps[m][i] \notin S}
           A == {i \in DOMAIN deps[m] : deps[m][i] \notin S \union {n}}
           E == {i \in DOMAIN deps[m] : deps[m][i] = n}
<1>1. DOMAIN deps[m] = 1..Len(deps[m]) /\ Len(deps[m]) \in Nat
  OBVIOUS
<1>2. IsFiniteSet(DOMAIN deps[m])
  BY <1>1, FS_Interval
<1>3. /\ IsFiniteSet(D) /\ IsFiniteSet(A) /\ IsFiniteSet(E)
      /\ Cardinality(D) \in Nat /\ Cardinality(A) \in Nat /\ Cardinality(E) \in Nat
  BY <1>2, FS_Subset, FS_CardinalityType
<1>4. Cardinality(D) = 0 <=> ToSet(deps[m]) \subseteq S
  <2>1. D = {} <=> ToSet(deps[m]) \subseteq S
    BY DEF ToSet
  <2> QED BY <2>1, <1>3, FS_EmptySet
<1>5. ASSUME n \notin S PROVE Cardinality(D) = Cardinality(A) + Cardinality(E)
  <2>1. D = A \union E /\ A \cap E = {}
    BY <1>5
  <2> HIDE DEF A, D, E
  <2>2. Cardinality(D) = Cardinality(A) + Cardinality(E) - Cardinality(A \cap E)
    BY <2>1, <1>3, FS_Union
  <2>3. Cardinality(A \cap E) = 0
    BY <2>1, FS_EmptySet
  <2> QED BY <1>3, <2>2, <2>3, <2>1
<1> QED BY <1>3, <1>4, <1>5 DEF Unmet, Edges

\* A name joins a list.
LEMMA AppendNames ==
  ASSUME NEW S, NEW q \in Seq(S), NEW x \in S
  PROVE  /\ Append(q, x) \in Seq(S) /\ ToSet(Append(q, x)) = ToSet(q) \union {x}
         /\ Len(Append(q, x)) = Len(q) + 1 /\ Append(q, x)[Len(q) + 1] = x
         /\ \A i \in 1..Len(q) : Append(q, x)[i] = q[i]
         /\ IsInjective(q) /\ x \notin ToSet(q) => IsInjective(Append(q, x))
<1>1. /\ Append(q, x) \in Seq(S) /\ Len(q) \in Nat
      /\ Len(Append(q, x)) = Len(q) + 1 /\ Append(q, x)[Len(q) + 1] = x
      /\ \A i \in 1..Len(q) : Append(q, x)[i] = q[i]
  OBVIOUS
<1>2. DOMAIN q = 1..Len(q) /\ DOMAIN Append(q, x) = 1..(Len(q) + 1)
  BY <1>1
<1> DEFINE a == Append(q, x)
<1> HIDE DEF a
<1>3. ToSet(a) = ToSet(q) \union {x}
  BY <1>1, <1>2 DEF ToSet, a
<1>4. IsInjective(q) /\ x \notin ToSet(q) => IsInjective(a)
  BY <1>1, <1>2 DEF ToSet, IsInjective, a
<1> QED BY <1>1, <1>3, <1>4 DEF a

\* The head of a queue leaves it.
LEMMA TailNames ==
  ASSUME NEW S, NEW q \in Seq(S), q # <<>>
  PROVE  /\ Tail(q) \in Seq(S) /\ Head(q) \in S /\ ToSet(q) = ToSet(Tail(q)) \union {Head(q)}
         /\ IsInjective(q) => IsInjective(Tail(q)) /\ Head(q) \notin ToSet(Tail(q))
<1>1. /\ Tail(q) \in Seq(S) /\ Head(q) \in S /\ Len(q) \in Nat /\ Len(q) >= 1 /\ Len(Tail(q)) = Len(q) - 1
      /\ Head(q) = q[1] /\ \A i \in 1..Len(Tail(q)) : Tail(q)[i] = q[i + 1]
  OBVIOUS
<1>2. DOMAIN q = 1..Len(q) /\ DOMAIN Tail(q) = 1..(Len(q) - 1)
  BY <1>1
<1>3. \A i \in 2..Len(q) : i - 1 \in 1..(Len(q) - 1) /\ Tail(q)[i - 1] = q[i]
  BY <1>1
<1>4. ToSet(q) \subseteq ToSet(Tail(q)) \union {Head(q)}
  <2> SUFFICES ASSUME NEW i \in 1..Len(q) PROVE q[i] \in ToSet(Tail(q)) \union {Head(q)}
    BY <1>2 DEF ToSet
  <2>1. i = 1 \/ i \in 2..Len(q)
    BY <1>1
  <2> QED BY <2>1, <1>1, <1>2, <1>3 DEF ToSet
<1>5. ToSet(Tail(q)) \union {Head(q)} \subseteq ToSet(q)
  <2>1. \A i \in 1..(Len(q) - 1) : i + 1 \in 1..Len(q) /\ Tail(q)[i] = q[i + 1]
    BY <1>1
  <2> QED BY <2>1, <1>1, <1>2 DEF ToSet
<1>6. ASSUME IsInjective(q) PROVE IsInjective(Tail(q)) /\ Head(q) \notin ToSet(Tail(q))
  <2>1. \A i \in 1..(Len(q) - 1) : i + 1 \in 1..Len(q) /\ Tail(q)[i] = q[i + 1] /\ i + 1 # 1
    BY <1>1
  <2>2. \A i, j \in 1..Len(q) : q[i] = q[j] => i = j
    BY <1>2, <1>6 DEF IsInjective
  <2>3. Head(q) \notin ToSet(Tail(q))
    BY <2>1, <2>2, <1>1, <1>2 DEF ToSet
  <2>4. \A i, j \in 1..(Len(q) - 1) : Tail(q)[i] = Tail(q)[j] => i = j
    BY <2>1, <2>2
  <2> QED BY <2>3, <2>4, <1>2 DEF IsInjective
<1> QED BY <1>1, <1>4, <1>5, <1>6

\* Names join a queue.
LEMMA ConcatNames ==
  ASSUME NEW S, NEW p \in Seq(S), NEW q \in Seq(S)
  PROVE  /\ p \o q \in Seq(S) /\ ToSet(p \o q) = ToSet(p) \union ToSet(q)
         /\ IsInjective(p) /\ IsInjective(q) /\ ToSet(p) \cap ToSet(q) = {} => IsInjective(p \o q)
<1> DEFINE c == p \o q
<1>1. /\ c \in Seq(S) /\ Len(p) \in Nat /\ Len(q) \in Nat /\ Len(c) = Len(p) + Len(q)
      /\ \A i \in 1..Len(c) : c[i] = IF i <= Len(p) THEN p[i] ELSE q[i - Len(p)]
  OBVIOUS
<1>2. DOMAIN p = 1..Len(p) /\ DOMAIN q = 1..Len(q) /\ DOMAIN c = 1..(Len(p) + Len(q))
  BY <1>1
<1> HIDE DEF c
<1>3. \A i \in 1..Len(p) : i \in DOMAIN c /\ c[i] = p[i]
  BY <1>1, <1>2
<1>4. \A i \in 1..Len(q) : i + Len(p) \in DOMAIN c /\ c[i + Len(p)] = q[i]
  BY <1>1, <1>2
<1>5. \A i \in DOMAIN c :
        \/ i \in 1..Len(p) /\ c[i] = p[i]
        \/ i - Len(p) \in 1..Len(q) /\ c[i] = q[i - Len(p)]
  <2> TAKE i \in DOMAIN c
  <2>1. i \in Int /\ i >= 1 /\ i <= Len(p) + Len(q) /\ c[i] = IF i <= Len(p) THEN p[i] ELSE q[i - Len(p)]
    BY <1>1, <1>2
  <2>2. CASE i <= Len(p)
    <3>1. i \in 1..Len(p)
      BY <2>1, <2>2, <1>1
    <3>2. c[i] = p[i]
      BY <2>1, <2>2
    <3> QED BY <3>1, <3>2
  <2>3. CASE ~(i <= Len(p))
    <3>1. i - Len(p) \in 1..Len(q)
      BY <2>1, <2>3, <1>1
    <3> QED BY <3>1, <2>1, <2>3
  <2> QED BY <2>2, <2>3
<1>6. ToSet(c) = ToSet(p) \union ToSet(q)
  <2>1. ToSet(c) \subseteq ToSet(p) \union ToSet(q)
    BY <1>2, <1>5 DEF ToSet
  <2>2. ToSet(p) \subseteq ToSet(c)
    BY <1>2, <1>3 DEF ToSet
  <2>3. ToSet(q) \subseteq ToSet(c)
    BY <1>2, <1>4 DEF ToSet
  <2> QED BY <2>1, <2>2, <2>3
<1>7. ASSUME IsInjective(p), IsInjective(q), ToSet(p) \cap ToSet(q) = {} PROVE IsInjective(c)
  <2> SUFFICES ASSUME NEW i \in DOMAIN c, NEW j \in DOMAIN c, c[i] = c[j] PROVE i = j
    BY DEF IsInjective
  <2>1. CASE i \in 1..Len(p) /\ j \in 1..Len(p)
    <3>1. p[i] = p[j]
      BY <1>3, <2>1
    <3> QED BY <3>1, <2>1, <1>2, <1>7 DEF IsInjective
  <2>2. CASE i - Len(p) \in 1..Len(q) /\ c[i] = q[i - Len(p)] /\ j - Len(p) \in 1..Len(q) /\ c[j] = q[j - Len(p)]
    <3>1. i - Len(p) = j - Len(p)
      BY <2>2, <1>2, <1>7 DEF IsInjective
    <3> QED BY <3>1, <1>1, <1>2
  <2>3. \A k, l \in DOMAIN c :
          k \in 1..Len(p) /\ c[k] = p[k] /\ l - Len(p) \in 1..Len(q) /\ c[l] = q[l - Len(p)] => c[k] # c[l]
    BY <1>2, <1>7 DEF ToSet
  <2> QED BY <1>5, <2>1, <2>2, <2>3
<1> QED BY <1>1, <1>6, <1>7 DEF c

\* A set in any order.
LEMMA SetInOrder ==
  ASSUME NEW N, NEW S \in SUBSET N, IsFiniteSet(S), NEW q \in SetToSeqs(S)
  PROVE  q \in Seq(N) /\ ToSet(q) = S /\ IsInjective(q)
<1> DEFINE D == 1..Cardinality(S)
<1>1. Cardinality(S) \in Nat
  BY FS_CardinalityType
<1>2. q \in [D -> S] /\ \A i, j \in D : i # j => q[i] # q[j]
  BY DEF SetToSeqs
<1>3. IsFiniteSet(D) /\ Cardinality(D) = Cardinality(S)
  BY <1>1, FS_Interval
<1>4. q \in Injection(D, S)
  BY <1>2 DEF Injection, IsInjective
<1>5. q \in Surjection(D, S)
  BY <1>3, <1>4, FS_Injection
<1>6. \A x \in S : \E i \in D : q[i] = x
  BY <1>5 DEF Surjection
<1>7. DOMAIN q = D
  BY <1>2
<1>8. ToSet(q) = S
  BY <1>2, <1>6, <1>7 DEF ToSet
<1>9. q \in Seq(N)
  BY <1>1, <1>2
<1> QED BY <1>2, <1>7, <1>8, <1>9 DEF IsInjective

\* The names of a list are finitely many; two lists without repetition are of one length
\* exactly if one has all the names of the other.
LEMMA SameLength ==
  ASSUME NEW S, NEW p \in Seq(S), NEW q \in Seq(S), IsInjective(p), IsInjective(q), ToSet(p) \subseteq ToSet(q)
  PROVE  IsFiniteSet(ToSet(q)) /\ (Len(p) = Len(q) <=> ToSet(p) = ToSet(q))
<1>1. ASSUME NEW l \in Seq(S), IsInjective(l)
      PROVE  IsFiniteSet(ToSet(l)) /\ Cardinality(ToSet(l)) = Len(l)
  <2>0. Len(l) \in Nat /\ DOMAIN l = 1..Len(l)
    OBVIOUS
  <2>1. IsFiniteSet(1..Len(l)) /\ Cardinality(1..Len(l)) = Len(l)
    <3>1. \A n \in Nat : IsFiniteSet(1..n) /\ Cardinality(1..n) = n
      BY FS_Interval
    <3> QED BY <2>0, <3>1
  <2>2. l \in Bijection(1..Len(l), ToSet(l))
    <3>1. l \in [1..Len(l) -> ToSet(l)] /\ \A x \in ToSet(l) : \E i \in 1..Len(l) : l[i] = x
      BY <2>0 DEF ToSet
    <3> QED BY <2>0, <3>1, <1>1 DEF Bijection, Injection, Surjection, IsInjective
  <2>3. ExistsBijection(1..Len(l), ToSet(l))
    BY <2>2 DEF ExistsBijection
  <2> QED BY <2>1, <2>3, FS_Bijection
<1>2. /\ IsFiniteSet(ToSet(q)) /\ Cardinality(ToSet(q)) = Len(q)
      /\ IsFiniteSet(ToSet(p)) /\ Cardinality(ToSet(p)) = Len(p)
  BY <1>1
<1>3. Cardinality(ToSet(q)) = Cardinality(ToSet(p)) => ToSet(p) = ToSet(q)
  BY <1>2, FS_Subset
<1> QED BY <1>2, <1>3

\* Every set of indices has a least one.
LEMMA LeastIndex ==
  ASSUME NEW T \in SUBSET Nat, T # {}
  PROVE  \E i \in T : \A j \in T : i <= j
<1>1. PICK i \in T : \A j \in T : ~(<<j, i>> \in OpToRel(<, Nat))
  BY NatLessThanWellFounded, WFMin
<1>2. \A j \in T : ~(j < i)
  BY <1>1 DEF OpToRel
<1> QED BY <1>2

\* The names of a list are finitely many.
LEMMA ListFinite ==
  ASSUME NEW S, NEW q \in Seq(S)
  PROVE  IsFiniteSet(ToSet(q)) /\ ToSet(q) \subseteq S
<1>1. Len(q) \in Nat /\ DOMAIN q = 1..Len(q) /\ \A i \in 1..Len(q) : q[i] \in S
  OBVIOUS
<1>2. IsFiniteSet(1..Len(q))
  BY <1>1, FS_Interval
<1>3. q \in Surjection(1..Len(q), ToSet(q))
  BY <1>1 DEF Surjection, ToSet
<1>4. IsFiniteSet(ToSet(q))
  BY <1>2, <1>3, FS_Surjection
<1> QED BY <1>1, <1>4 DEF ToSet

\* Whatever joins the queue keeps it one.
LEMMA JoinNames ==
  ASSUME FeatureTypes, queue # <<>>, NEW ready \in SUBSET ToSet(loaded), Join(ready)
  PROVE  \E q \in Seq(Names) :
           /\ ToSet(q) = ready /\ IsInjective(q) /\ queue' = Tail(queue) \o q
           /\ queue' \in Seq(Names) /\ ToSet(queue') = ToSet(Tail(queue)) \union ready
<1>1. IsFiniteSet(ToSet(loaded)) /\ ToSet(loaded) \subseteq Names
  BY ListFinite DEF FeatureTypes
<1>2. IsFiniteSet(ready) /\ ready \in SUBSET Names
  BY <1>1, FS_Subset
<1>3. PICK q \in SetToSeqs(ready) : queue' = Tail(queue) \o q
  BY DEF Join
<1>4. q \in Seq(Names) /\ ToSet(q) = ready /\ IsInjective(q)
  BY <1>2, SetInOrder
<1>5. Tail(queue) \in Seq(Names)
  BY TailNames DEF FeatureTypes
<1>6. Tail(queue) \o q \in Seq(Names) /\ ToSet(Tail(queue) \o q) = ToSet(Tail(queue)) \union ToSet(q)
  <2> DEFINE t == Tail(queue)
  <2>1. t \in Seq(Names) /\ q \in Seq(Names)
    BY <1>4, <1>5
  <2> HIDE DEF t
  <2>2. t \o q \in Seq(Names) /\ ToSet(t \o q) = ToSet(t) \union ToSet(q)
    BY <2>1, ConcatNames
  <2> QED BY <2>2 DEF t
<1>7. queue' \in Seq(Names) /\ ToSet(queue') = ToSet(Tail(queue)) \union ready
  <2>1. queue' = Tail(queue) \o q
    BY <1>3
  <2>2. ToSet(q) = ready
    BY <1>4
  <2> QED BY <1>6, <2>1, <2>2
<1> QED BY <1>3, <1>4, <1>7

-------------------------------------------------------------------------------
(* The variables of FeatureInit, but for indegree, keep their types. *)
THEOREM FeatureTyping == Spec => []FeatureTypes
<1>1. Init => FeatureTypes
  BY FeatureAssumption DEF Init, FeatureTypes, Phases, Errors, Counting, Checked
<1>2. FeatureTypes /\ [Next]_vars => FeatureTypes'
  <2> SUFFICES ASSUME FeatureTypes, [Next]_vars PROVE FeatureTypes'
    OBVIOUS
  <2> USE DEF world, Phases, Errors, Enter, Fail, Advance, Counting, Checked
  <2>0. next + 1 \in Nat \ {0} /\ dep + 1 \in Nat \ {0}
    BY DEF FeatureTypes
  <2>1. CASE UNCHANGED vars
    BY <2>1 DEF vars, FeatureTypes
  <2>2. CASE CheckName
    <3>1. next \in 1..Len(given) /\ given \in Seq(Names \union {NoName})
      BY <2>2 DEF CheckName, FeatureTypes
    <3> DEFINE n == given[next]
    <3>2. n # NoName => n \in Names
      BY <3>1
    <3>3. \/ UNCHANGED loaded /\ \E e \in {"unnamed", "duplicate"} : Fail(e)
          \/ n # NoName /\ loaded' = Append(loaded, n) /\ Advance /\ UNCHANGED error
      BY <2>2 DEF CheckName
    <3>4. loaded \in Seq(Names) /\ Len(loaded) = next - 1 /\ next \in Nat /\ Len(given) \in Nat
      BY <2>2, <3>1 DEF CheckName, FeatureTypes
    <3> HIDE DEF n
    <3>5. CASE \E e \in {"unnamed", "duplicate"} : UNCHANGED loaded /\ Fail(e)
      BY <2>2, <3>5 DEF CheckName, FeatureTypes
    <3>6. CASE n # NoName /\ loaded' = Append(loaded, n) /\ Advance /\ UNCHANGED error
      <4>1. loaded' \in Seq(Names) /\ Len(loaded') = next' - 1 /\ next' - 1 <= Len(given)
        BY <3>1, <3>2, <3>4, <3>6, AppendNames
      <4> QED BY <2>0, <2>2, <3>6, <4>1 DEF CheckName, FeatureTypes
    <3> QED BY <3>3, <3>5, <3>6
  <2>3. CASE NamesChecked
    BY <2>3 DEF NamesChecked, FeatureTypes
  <2>4. CASE LoadDependency
    <3> DEFINE d == deps[loaded[next]][dep]
    <3>1. /\ next \in 1..Len(loaded) /\ loaded \in Seq(Names)
          /\ Len(given) <= Len(loaded) /\ Len(given) \in Nat /\ Len(loaded) \in Nat
      BY <2>4 DEF LoadDependency, FeatureTypes
    <3>2. loaded[next] \in Names
      BY <3>1
    <3>3. deps[loaded[next]] \in Seq(Names) /\ dep \in 1..Len(deps[loaded[next]])
      BY <2>4, <3>2 DEF LoadDependency, FeatureTypes
    <3>4. d \in Names
      BY <3>3
    <3>5. loaded' = loaded \/ loaded' = Append(loaded, d)
      BY <2>4 DEF LoadDependency
    <3> HIDE DEF d
    <3>6. loaded' \in Seq(Names) /\ Len(given) <= Len(loaded')
      BY <3>1, <3>4, <3>5, AppendNames
    <3> QED BY <2>0, <2>4, <3>6 DEF LoadDependency, FeatureTypes
  <2>5. CASE FeatureLoaded
    BY <2>0, <2>5 DEF FeatureLoaded, FeatureTypes
  <2>6. CASE DependenciesLoaded
    BY <2>6 DEF DependenciesLoaded, FeatureTypes
  <2>7. CASE CountDependencies
    <3> DEFINE S == {m \in ToSet(loaded) : deps[m] = <<>>}
    <3>1. IsFiniteSet(ToSet(loaded)) /\ ToSet(loaded) \subseteq Names
      BY ListFinite DEF FeatureTypes
    <3>2. IsFiniteSet(S) /\ S \in SUBSET Names
      BY <3>1, FS_Subset
    <3>3. queue' \in SetToSeqs(S)
      BY <2>7 DEF CountDependencies
    <3> HIDE DEF S
    <3>4. queue' \in Seq(Names)
      BY <3>2, <3>3, SetInOrder
    <3> QED BY <2>7, <3>4 DEF CountDependencies, FeatureTypes
  <2>8. CASE Pop
    <3>1. queue \in Seq(Names) /\ queue # <<>>
      BY <2>8 DEF Pop, FeatureTypes
    <3>2. Head(queue) \in Names
      BY <3>1, TailNames
    <3>3. \E ready \in SUBSET ToSet(loaded) : Join(ready)
      BY <2>8 DEF Pop
    <3>4. queue' \in Seq(Names)
      BY <3>1, <3>3, JoinNames
    <3>5. order' \in Seq(Names)
      BY <2>8, <3>2, AppendNames DEF Pop, FeatureTypes
    <3> QED BY <2>8, <3>4, <3>5 DEF Pop, FeatureTypes
  <2>9. CASE Sorted
    BY <2>9 DEF Sorted, FeatureTypes
  <2>10. CASE BeforeHook
    <3>1. next \in 1..Len(order) /\ order \in Seq(Names)
      BY <2>10 DEF BeforeHook, FeatureTypes
    <3> DEFINE n == order[next]
    <3>2. n \in Names
      BY <3>1
    <3>3. before' = before \/ before' = Append(before, n)
      BY <2>10 DEF BeforeHook
    <3> HIDE DEF n
    <3>4. before \in Seq(Names)
      BY DEF FeatureTypes
    <3>5. before' \in Seq(Names)
      BY <3>2, <3>3, <3>4, AppendNames
    <3>6. phase' \in {phase, "over"} /\ next' \in {next, next + 1} /\ dep' \in {dep, 1}
          /\ error' \in Errors /\ error' \notin {"unnamed", "duplicate", "cyclic"}
          /\ (phase' # "over" => error' = "none")
      BY <2>10 DEF BeforeHook, FeatureTypes
    <3>7. UNCHANGED <<world, loaded, indegree, queue, order, inits>> /\ phase = "before" /\ error = "none"
      BY <2>10 DEF BeforeHook, FeatureTypes
    <3>8. next' \in Nat \ {0} /\ dep' \in Nat \ {0}
      BY <2>0, <3>6 DEF FeatureTypes
    <3>9. phase' \in {"before", "over"} /\ error' # "cyclic"
      BY <3>6, <3>7
    <3>10. Checked' /\ Counting' /\ Checked /\ phase' \in Phases /\ next' \in Nat \ {0} /\ dep' \in Nat \ {0}
          /\ (phase' # "over" => error' = "none") /\ phase' # "check" /\ error' # "cyclic"
      BY <3>6, <3>7, <3>8, <3>9
    <3>11. Len(given) <= Len(loaded) /\ error' \in Errors
      BY <3>6, <3>10 DEF FeatureTypes
    <3>12. /\ deps \in [Names -> Seq(Names)] /\ given \in Seq(Names \union {NoName})
           /\ loaded \in Seq(Names) /\ queue \in Seq(Names) /\ order \in Seq(Names) /\ inits \in Seq(Names)
      BY DEF FeatureTypes
    <3>13. UNCHANGED <<deps, given, loaded, queue, order, inits>>
      BY <3>7 DEF world
    <3>14. /\ (deps \in [Names -> Seq(Names)] /\ given \in Seq(Names \union {NoName}))'
           /\ (loaded \in Seq(Names) /\ queue \in Seq(Names) /\ order \in Seq(Names) /\ inits \in Seq(Names))'
           /\ (Checked => Len(given) <= Len(loaded))'
      BY <3>11, <3>12, <3>13
    <3>15. /\ (~Counting => indegree = <<>> /\ queue = <<>> /\ order = <<>>)'
           /\ (error = "cyclic" => phase = "over")'
           /\ (phase = "check" => Len(loaded) = next - 1 /\ next - 1 <= Len(given))'
      BY <3>10
    <3>16. (phase \in Phases /\ error \in Errors /\ next \in Nat \ {0} /\ dep \in Nat \ {0})'
      BY <3>10, <3>11
    <3>17. (phase # "over" => error = "none")'
      BY <3>10
    <3> HIDE DEF Checked, Counting, Phases, Errors
    <3> QED BY <3>5, <3>14, <3>15, <3>16, <3>17 DEF FeatureTypes
  <2>11. CASE BeforeDone
    BY <2>11 DEF BeforeDone, FeatureTypes
  <2>12. CASE SetUpProvider
    <3>1. /\ UNCHANGED <<deps, given, loaded, indegree, queue, order, before, inits>> /\ phase = "providers"
          /\ phase' \in {"providers", "over"} /\ next' \in {next, next + 1} /\ dep' \in {dep, 1}
          /\ error' \in {error, "provider"} /\ (phase' # "over" => error' = error)
      BY <2>12 DEF SetUpProvider
    <3>2. error = "none" /\ Len(given) <= Len(loaded)
      BY <3>1 DEF FeatureTypes
    <3>3. /\ (phase \in Phases /\ error \in Errors /\ next \in Nat \ {0} /\ dep \in Nat \ {0})'
          /\ (phase # "over" => error = "none")' /\ Counting' /\ (Checked => Len(given) <= Len(loaded))'
          /\ error' # "cyclic" /\ phase' # "check"
      BY <2>0, <3>1, <3>2 DEF FeatureTypes
    <3> HIDE DEF Checked, Counting, Phases, Errors
    <3> QED BY <3>1, <3>3 DEF FeatureTypes
  <2>13. CASE ProvidersDone
    BY <2>13 DEF ProvidersDone, FeatureTypes
  <2>14. CASE InitHook
    <3>1. next \in 1..Len(order) /\ order \in Seq(Names)
      BY <2>14 DEF InitHook, FeatureTypes
    <3> DEFINE n == order[next]
    <3>2. n \in Names
      BY <3>1
    <3>3. inits' = inits \/ inits' = Append(inits, n)
      BY <2>14 DEF InitHook
    <3> HIDE DEF n
    <3>4. inits \in Seq(Names)
      BY DEF FeatureTypes
    <3>5. inits' \in Seq(Names)
      BY <3>2, <3>3, <3>4, AppendNames
    <3>6. phase' \in {phase, "over"} /\ next' \in {next, next + 1} /\ dep' \in {dep, 1}
          /\ error' \in Errors /\ error' \notin {"unnamed", "duplicate", "cyclic"}
          /\ (phase' # "over" => error' = "none")
      BY <2>14 DEF InitHook, FeatureTypes
    <3> QED BY <2>0, <2>14, <3>5, <3>6 DEF InitHook, FeatureTypes
  <2>15. CASE InitReturns
    BY <2>15 DEF InitReturns, FeatureTypes
  <2> QED BY <2>1, <2>2, <2>3, <2>4, <2>5, <2>6, <2>7, <2>8, <2>9, <2>10, <2>11, <2>12, <2>13, <2>14, <2>15 DEF Next
<1> QED BY <1>1, <1>2, PTL DEF Spec

-------------------------------------------------------------------------------
(* Every given feature is loaded, and all its dependencies once the loop is over; none twice. *)
THEOREM Closing == Spec => []LoadInv
<1>1. Init => LoadInv
  BY FeatureAssumption DEF Init, LoadInv, IsInjective, Checked
<1>2. FeatureTypes /\ FeatureTypes' /\ LoadInv /\ [Next]_vars => LoadInv'
  <2> SUFFICES ASSUME FeatureTypes, FeatureTypes', LoadInv, [Next]_vars PROVE LoadInv'
    OBVIOUS
  <2> USE DEF world, Enter, Fail, Advance, Checked
  <2>1. /\ given \in Seq(Names \union {NoName}) /\ Len(given) \in Nat /\ next \in Nat \ {0} /\ dep \in Nat \ {0}
        /\ loaded \in Seq(Names) /\ Len(loaded) \in Nat /\ DOMAIN loaded = 1..Len(loaded)
        /\ phase # "over" => error = "none"
        /\ phase = "check" => Len(loaded) = next - 1 /\ next - 1 <= Len(given)
        /\ Checked => Len(given) <= Len(loaded)
    <3>1. given \in Seq(Names \union {NoName}) /\ loaded \in Seq(Names)
      BY DEF FeatureTypes
    <3>2. Len(given) \in Nat /\ Len(loaded) \in Nat /\ DOMAIN loaded = 1..Len(loaded)
      BY <3>1
    <3> QED BY <3>1, <3>2 DEF FeatureTypes
  <2>2. ASSUME UNCHANGED <<deps, given, loaded, phase, error, next, dep>> PROVE LoadInv'
    BY <2>2 DEF LoadInv
  <2>3. CASE CheckName
    <3> DEFINE n == given[next]
    <3>1. next \in 1..Len(given) /\ phase = "check" /\ UNCHANGED <<deps, given>>
      BY <2>1, <2>3 DEF CheckName
    <3>2. \/ UNCHANGED loaded /\ \E e \in {"unnamed", "duplicate"} : Fail(e)
          \/ n # NoName /\ n \notin ToSet(loaded) /\ loaded' = Append(loaded, n) /\ Advance /\ UNCHANGED error
      BY <2>3 DEF CheckName
    <3>3. n # NoName => n \in Names
      BY <2>1, <3>1
    <3>4. CASE UNCHANGED loaded /\ \E e \in {"unnamed", "duplicate"} : Fail(e)
      BY <3>1, <3>4 DEF LoadInv
    <3>5. CASE n # NoName /\ n \notin ToSet(loaded) /\ loaded' = Append(loaded, n) /\ Advance
      <4>1. /\ IsInjective(loaded') /\ Len(loaded') = Len(loaded) + 1 /\ loaded'[Len(loaded) + 1] = n
            /\ \A i \in 1..Len(loaded) : loaded'[i] = loaded[i]
        <5> HIDE DEF n
        <5> QED BY <2>1, <3>3, <3>5, AppendNames DEF LoadInv
      <4>2. Len(loaded) + 1 = next
        BY <2>1, <3>1
      <4>3. ASSUME NEW i \in 1..Len(given), i <= Len(loaded') PROVE loaded'[i] = given[i]
        <5>1. i = Len(loaded) + 1 \/ i \in 1..Len(loaded)
          BY <2>1, <4>1, <4>3
        <5> QED BY <5>1, <4>1, <4>2 DEF LoadInv
      <4>4. phase' = "check" /\ dep' = 1
        BY <3>1, <3>5
      <4> QED BY <3>1, <4>1, <4>3, <4>4 DEF LoadInv
    <3> QED BY <3>2, <3>4, <3>5
  <2>4. CASE NamesChecked
    <3>1. next' = 1 /\ dep' = 1 /\ phase' = "load" /\ UNCHANGED <<deps, given, loaded, error>>
      BY <2>4 DEF NamesChecked, LoadInv
    <3>2. \A i \in 1..Len(given) : i >= 1
      OBVIOUS
    <3>3. ASSUME NEW i \in 1..Len(given), NEW k \in DOMAIN deps[loaded[i]] PROVE ~(i < 1 \/ (i = 1 /\ k < 1))
      <4>1. i \in 1..Len(loaded)
        BY <2>1, <2>4, <3>3 DEF NamesChecked
      <4>2. loaded[i] \in Names
        BY <2>1, <4>1
      <4>3. deps[loaded[i]] \in Seq(Names)
        BY <4>2 DEF FeatureTypes
      <4>4. k \in 1..Len(deps[loaded[i]])
        BY <4>3
      <4> QED BY <4>4
    <3> QED BY <3>1, <3>3 DEF LoadInv
  <2>5. CASE LoadDependency
    <3> DEFINE d == deps[loaded[next]][dep]
    <3>1. /\ phase = "load" /\ next \in 1..Len(given) /\ next \in 1..Len(loaded) /\ dep <= Len(deps[loaded[next]])
          /\ UNCHANGED <<deps, given, phase, next, error>> /\ dep' = dep + 1
      BY <2>1, <2>5 DEF LoadDependency
    <3>2. loaded' = (IF d \in ToSet(loaded) THEN loaded ELSE Append(loaded, d))
      BY <2>5 DEF LoadDependency
    <3>3. loaded[next] \in Names
      BY <2>1, <3>1
    <3>4. deps[loaded[next]] \in Seq(Names) /\ dep \in 1..Len(deps[loaded[next]])
      BY <3>1, <3>3, <2>1 DEF FeatureTypes
    <3>5. d \in Names
      BY <3>4
    <3>6. /\ IsInjective(loaded') /\ Len(loaded') >= Len(loaded) /\ ToSet(loaded') = ToSet(loaded) \union {d}
          /\ \A i \in 1..Len(loaded) : loaded'[i] = loaded[i]
      <4> HIDE DEF d
      <4>1. CASE d \in ToSet(loaded)
        BY <4>1, <2>1, <3>2 DEF LoadInv
      <4>2. CASE d \notin ToSet(loaded)
        BY <4>2, <2>1, <3>2, <3>5, AppendNames DEF LoadInv
      <4> QED BY <4>1, <4>2
    <3>7. \A i \in 1..Len(given) : i \in 1..Len(loaded) /\ loaded'[i] = loaded[i] /\ loaded[i] = given[i]
      BY <2>1, <3>1, <3>6 DEF LoadInv
    <3>8. ASSUME NEW i \in 1..Len(given), NEW k \in DOMAIN deps[loaded[i]],
                 i < next \/ (i = next /\ k < dep + 1)
          PROVE  deps[loaded[i]][k] \in ToSet(loaded) \union {d}
      <4>0. Checked
        BY <2>1, <3>1
      <4>1. CASE i < next
        BY <4>0, <4>1, <3>1 DEF LoadInv
      <4>2. CASE i = next
        <5>1. k \in 1..Len(deps[loaded[next]])
          BY <4>2, <3>4
        <5>2. k < dep \/ k = dep
          BY <5>1, <2>1, <3>8, <3>1, <4>2
        <5>3. k < dep => deps[loaded[i]][k] \in ToSet(loaded)
          BY <4>0, <4>2, <3>1 DEF LoadInv
        <5>4. k = dep => deps[loaded[i]][k] = d
          BY <4>2
        <5> QED BY <5>2, <5>3, <5>4
      <4> QED BY <3>8, <4>1, <4>2
    <3> HIDE DEF d
    <3> QED BY <3>1, <3>6, <3>7, <3>8 DEF LoadInv
  <2>6. CASE FeatureLoaded
    <3>1. /\ phase = "load" /\ next \in 1..Len(given) /\ next \in 1..Len(loaded) /\ dep > Len(deps[loaded[next]])
          /\ UNCHANGED <<deps, given, phase, loaded, error>> /\ next' = next + 1 /\ dep' = 1
      BY <2>1, <2>6 DEF FeatureLoaded
    <3>2. ASSUME NEW i \in 1..Len(given), NEW k \in DOMAIN deps[loaded[i]],
                 i < next + 1 \/ (i = next + 1 /\ k < 1)
          PROVE  deps[loaded[i]][k] \in ToSet(loaded)
      <4>1. i \in 1..Len(loaded)
        BY <2>1, <3>1
      <4>2. loaded[i] \in Names
        BY <2>1, <4>1
      <4>3. deps[loaded[i]] \in Seq(Names)
        BY <4>2 DEF FeatureTypes
      <4>4. k \in 1..Len(deps[loaded[i]]) /\ Len(deps[loaded[i]]) \in Nat
        BY <4>3
      <4>5. i < next \/ (i = next /\ k < dep)
        BY <4>4, <3>1, <3>2, <2>1
      <4>6. Checked
        BY <2>1, <3>1
      <4> QED BY <4>5, <4>6, <3>1 DEF LoadInv
    <3> QED BY <3>1, <3>2 DEF LoadInv
  <2>7. CASE DependenciesLoaded
    <3>1. phase = "load" /\ next > Len(given) /\ phase' = "count" /\ UNCHANGED <<deps, given, loaded, error>>
      BY <2>7 DEF DependenciesLoaded
    <3>2. \A i \in 1..Len(given) : i < next
      BY <3>1, <2>1
    <3> QED BY <3>1, <3>2 DEF LoadInv
  <2>8. ASSUME CountDependencies \/ Pop \/ Sorted \/ BeforeHook \/ BeforeDone \/ SetUpProvider \/ ProvidersDone
               \/ InitHook \/ InitReturns
        PROVE  LoadInv'
    <3>1. UNCHANGED <<deps, given, loaded>> /\ phase \notin {"check", "load"} /\ phase' \notin {"check", "load"}
          /\ phase # "over"
      BY <2>8 DEF CountDependencies, Pop, Sorted, BeforeHook, BeforeDone, SetUpProvider, ProvidersDone,
                  InitHook, InitReturns
    <3>2. Checked
      BY <3>1, <2>1
    <3> QED BY <3>1, <3>2 DEF LoadInv
  <2>9. CASE UNCHANGED vars
    BY <2>2, <2>9 DEF vars
  <2> QED BY <2>3, <2>4, <2>5, <2>6, <2>7, <2>8, <2>9 DEF Next
<1> QED BY <1>1, <1>2, FeatureTyping, PTL DEF Spec

-------------------------------------------------------------------------------
\* A step of the sort: n leaves the queue for the order, and those that wait for it alone join the queue.
LEMMA PopSorts ==
  ASSUME FeatureTypes, SortInv, Pop
  PROVE  SortInv'
<1> DEFINE n == Head(queue)
           O == ToSet(order)
           P == O \union {n}
           ready == {m \in ToSet(loaded) : Edges(n, m) > 0 /\ indegree[m] = Edges(n, m)}
<1>1. /\ phase = "sort" /\ error = "none" /\ queue # <<>> /\ Counting
      /\ loaded \in Seq(Names) /\ queue \in Seq(Names) /\ order \in Seq(Names)
      /\ order' = Append(order, n) /\ Join(ready)
      /\ UNCHANGED <<deps, phase, error, loaded>>
  BY DEF Pop, FeatureTypes, Counting, Checked, world
<1>2. indegree' = [m \in DOMAIN indegree |-> indegree[m] - Edges(n, m)]
  BY DEF Pop
<1>3. /\ indegree = [m \in ToSet(loaded) |-> Unmet(m, O)]
      /\ ToSet(queue) \union O = {m \in ToSet(loaded) : Unmet(m, O) = 0}
      /\ ToSet(queue) \cap O = {} /\ IsInjective(queue) /\ IsInjective(order)
      /\ \A i \in DOMAIN order : ToSet(deps[order[i]]) \subseteq {order[j] : j \in 1..(i - 1)}
  BY <1>1 DEF SortInv
<1>4. /\ Tail(queue) \in Seq(Names) /\ n \in Names /\ ToSet(queue) = ToSet(Tail(queue)) \union {n}
      /\ IsInjective(Tail(queue)) /\ n \notin ToSet(Tail(queue))
  BY <1>1, <1>3, TailNames
<1>5. n \notin O /\ n \in ToSet(loaded) /\ Unmet(n, O) = 0
  BY <1>3, <1>4
<1>6. ToSet(loaded) \subseteq Names /\ \A m \in Names : deps[m] \in Seq(Names)
  BY <1>1, ListFinite DEF FeatureTypes
<1>7. \A m \in ToSet(loaded) :
        /\ Unmet(m, O) \in Nat /\ Unmet(m, P) \in Nat /\ Edges(n, m) \in Nat
        /\ Unmet(m, O) = Unmet(m, P) + Edges(n, m)
  <2> TAKE m \in ToSet(loaded)
  <2>1. deps[m] \in Seq(Names)
    BY <1>6
  <2> HIDE DEF n, O
  <2> QED BY <2>1, <1>5, UnmetLess DEF P
<1>8. indegree' = [m \in ToSet(loaded) |-> Unmet(m, P)]
  <2>1. \A m \in ToSet(loaded) : indegree[m] - Edges(n, m) = Unmet(m, P)
    <3> TAKE m \in ToSet(loaded)
    <3>1. indegree[m] = Unmet(m, O)
      BY <1>3
    <3> HIDE DEF n, O, P
    <3> QED BY <3>1, <1>7
  <2>2. DOMAIN indegree = ToSet(loaded)
    BY <1>3
  <2> HIDE DEF n, P
  <2> QED BY <1>2, <2>1, <2>2
<1>9. ready = {m \in ToSet(loaded) : Unmet(m, P) = 0 /\ Unmet(m, O) # 0}
  <2>1. \A m \in ToSet(loaded) : indegree[m] = Unmet(m, O)
    BY <1>3
  <2>2. \A m \in ToSet(loaded) : Edges(n, m) > 0 /\ indegree[m] = Edges(n, m) <=> Unmet(m, P) = 0 /\ Unmet(m, O) # 0
    <3> HIDE DEF n, O, P
    <3> QED BY <2>1, <1>7
  <2> QED BY <2>2
<1>10. \A m \in ToSet(loaded) : Unmet(m, O) = 0 => Unmet(m, P) = 0
  <2> HIDE DEF n, O, P
  <2> QED BY <1>7
<1>11. ready \in SUBSET ToSet(loaded)
  OBVIOUS
<1> HIDE DEF ready
<1>12. PICK q \in Seq(Names) :
         /\ ToSet(q) = ready /\ IsInjective(q) /\ queue' = Tail(queue) \o q
         /\ ToSet(queue') = ToSet(Tail(queue)) \union ready
  BY <1>1, <1>11, JoinNames
<1>13. ready \cap (ToSet(queue) \union O) = {}
  BY <1>3, <1>9
<1>14. /\ ToSet(order') = P /\ Len(order') = Len(order) + 1 /\ order'[Len(order) + 1] = n
       /\ \A i \in 1..Len(order) : order'[i] = order[i]
       /\ IsInjective(order') /\ order' \in Seq(Names)
  <2> HIDE DEF n
  <2> QED BY <1>1, <1>3, <1>4, <1>5, AppendNames
<1>15. ToSet(queue') \union P = {m \in ToSet(loaded) : Unmet(m, P) = 0}
  <2>1. ToSet(queue') \union P = ToSet(queue) \union O \union ready
    BY <1>12, <1>4
  <2> HIDE DEF n, P, O
  <2> QED BY <2>1, <1>3, <1>9, <1>10
<1>16. ToSet(queue') \cap P = {}
  BY <1>3, <1>4, <1>12, <1>13
<1>17. IsInjective(queue')
  BY <1>4, <1>12, <1>13, ConcatNames
<1>18. \A i \in DOMAIN order' : ToSet(deps[order'[i]]) \subseteq {order'[j] : j \in 1..(i - 1)}
  <2>0. Len(order) \in Nat /\ DOMAIN order = 1..Len(order) /\ DOMAIN order' = 1..(Len(order) + 1)
    BY <1>1, <1>14
  <2> SUFFICES ASSUME NEW i \in 1..(Len(order) + 1)
               PROVE  ToSet(deps[order'[i]]) \subseteq {order'[j] : j \in 1..(i - 1)}
    BY <2>0
  <2>1. CASE i \in 1..Len(order)
    <3>1. ToSet(deps[order[i]]) \subseteq {order[j] : j \in 1..(i - 1)}
      BY <1>3, <2>0, <2>1
    <3>2. \A j \in 1..(i - 1) : order'[j] = order[j]
      BY <1>14, <2>0, <2>1
    <3>3. order'[i] = order[i]
      BY <1>14, <2>1
    <3> QED BY <3>1, <3>2, <3>3
  <2>2. CASE i = Len(order) + 1
    <3>1. ToSet(deps[n]) \subseteq O
      <4>1. deps[n] \in Seq(Names)
        BY <1>4, <1>6
      <4> HIDE DEF n, O
      <4> QED BY <4>1, <1>5, UnmetLess
    <3>2. O = {order[j] : j \in 1..Len(order)}
      BY <2>0 DEF ToSet
    <3>3. order'[i] = n /\ i - 1 = Len(order)
      BY <1>14, <2>2, <2>0
    <3>4. {order'[j] : j \in 1..(i - 1)} = O
      BY <3>2, <3>3, <1>14
    <3> HIDE DEF n, O
    <3> QED BY <3>1, <3>3, <3>4
  <2>3. i \in 1..Len(order) \/ i = Len(order) + 1
    BY <2>0
  <2> QED BY <2>1, <2>2, <2>3
<1>19. \A m : Unmet(m, ToSet(order))' = Unmet(m, P)
  BY <1>1, <1>14 DEF Unmet
<1>20. /\ indegree' = [m \in ToSet(loaded') |-> Unmet(m, ToSet(order))']
       /\ ToSet(queue') \union ToSet(order') = {m \in ToSet(loaded') : Unmet(m, ToSet(order))' = 0}
  <2> HIDE DEF n, P
  <2> QED BY <1>1, <1>8, <1>14, <1>15, <1>19
<1>21. /\ ToSet(queue') \cap ToSet(order') = {}
       /\ \A i \in DOMAIN order' : ToSet(deps'[order'[i]]) \subseteq {order'[j] : j \in 1..(i - 1)}
  <2> HIDE DEF n, P
  <2> QED BY <1>1, <1>14, <1>16, <1>18
<1> HIDE DEF n, P, O
<1> QED BY <1>1, <1>14, <1>17, <1>20, <1>21 DEF SortInv

\* The sort keeps count of what is unmet, and the order is closed under dependencies from the left.
THEOREM Sorting == Spec => []SortInv
<1>1. Init => SortInv
  BY DEF Init, SortInv, Counting, Checked
<1>2. FeatureTypes /\ LoadInv /\ SortInv /\ [Next]_vars => SortInv'
  <2> SUFFICES ASSUME FeatureTypes, LoadInv, SortInv, [Next]_vars PROVE SortInv'
    OBVIOUS
  <2>1. ASSUME CheckName \/ NamesChecked \/ LoadDependency \/ FeatureLoaded \/ DependenciesLoaded PROVE SortInv'
    <3>1. ~Counting'
      BY <2>1 DEF CheckName, NamesChecked, LoadDependency, FeatureLoaded, DependenciesLoaded,
                  Enter, Fail, Advance, Counting, Checked
    <3> QED BY <3>1 DEF SortInv
  <2>2. CASE CountDependencies
    <3> DEFINE S == {m \in ToSet(loaded) : deps[m] = <<>>}
    <3>1. /\ phase = "count" /\ phase' = "sort" /\ UNCHANGED <<deps, loaded, order>>
          /\ indegree' = [m \in ToSet(loaded) |-> Len(deps[m])] /\ queue' \in SetToSeqs(S) /\ order = <<>>
      BY <2>2 DEF CountDependencies, FeatureTypes, Counting, Enter, world
    <3>2. IsFiniteSet(ToSet(loaded)) /\ ToSet(loaded) \subseteq Names
      BY ListFinite DEF FeatureTypes
    <3>3. IsFiniteSet(S) /\ S \in SUBSET Names
      BY <3>2, FS_Subset
    <3> HIDE DEF S
    <3>4. queue' \in Seq(Names) /\ ToSet(queue') = S /\ IsInjective(queue')
      BY <3>1, <3>3, SetInOrder
    <3>5. ASSUME NEW m \in ToSet(loaded)
          PROVE  Unmet(m, {}) = Len(deps[m]) /\ (Unmet(m, {}) = 0 <=> deps[m] = <<>>)
      <4>1. deps[m] \in Seq(Names)
        BY <3>2 DEF FeatureTypes
      <4>2. Len(deps[m]) \in Nat /\ DOMAIN deps[m] = 1..Len(deps[m]) /\ (Len(deps[m]) = 0 <=> deps[m] = <<>>)
        BY <4>1
      <4>3. {i \in DOMAIN deps[m] : deps[m][i] \notin {}} = 1..Len(deps[m])
        BY <4>2
      <4>4. \A k \in Nat : Cardinality(1..k) = k
        BY FS_Interval
      <4> QED BY <4>2, <4>3, <4>4 DEF Unmet
    <3>6. ToSet(order) = {}
      BY <3>1 DEF ToSet
    <3>7. \A m : Unmet(m, ToSet(order))' = Unmet(m, {})
      BY <3>1, <3>6 DEF Unmet
    <3>8. /\ indegree' = [m \in ToSet(loaded') |-> Unmet(m, ToSet(order))']
          /\ ToSet(queue') \union ToSet(order') = {m \in ToSet(loaded') : Unmet(m, ToSet(order))' = 0}
      BY <3>1, <3>4, <3>5, <3>6, <3>7 DEF S
    <3>9. /\ ToSet(queue') \cap ToSet(order') = {} /\ IsInjective(order') /\ DOMAIN order' = {}
      BY <3>1, <3>6 DEF IsInjective
    <3> QED BY <3>1, <3>4, <3>8, <3>9 DEF SortInv
  <2>3. CASE Pop
    BY <2>3, PopSorts
  <2>4. ASSUME UNCHANGED <<deps, loaded, indegree, queue, order>>, Counting' => Counting,
               Counting' => (phase' # "sort" => queue = <<>> /\ (error' = "cyclic" <=> ToSet(order) # ToSet(loaded)))
        PROVE  SortInv'
    <3>1. \A m : Unmet(m, ToSet(order))' = Unmet(m, ToSet(order))
      BY <2>4 DEF Unmet
    <3> SUFFICES ASSUME Counting' PROVE SortInv'
      BY DEF SortInv
    <3>2. Counting
      BY <2>4
    <3>3. /\ indegree' = [m \in ToSet(loaded') |-> Unmet(m, ToSet(order))']
          /\ ToSet(queue') \union ToSet(order') = {m \in ToSet(loaded') : Unmet(m, ToSet(order))' = 0}
      BY <2>4, <3>1, <3>2 DEF SortInv
    <3>4. /\ ToSet(queue) \cap ToSet(order) = {} /\ IsInjective(queue) /\ IsInjective(order)
          /\ \A i \in DOMAIN order : ToSet(deps[order[i]]) \subseteq {order[j] : j \in 1..(i - 1)}
      BY <3>2 DEF SortInv
    <3>7. deps' = deps /\ queue' = queue /\ order' = order
      BY <2>4
    <3>6. /\ ToSet(queue') \cap ToSet(order') = {} /\ IsInjective(queue') /\ IsInjective(order')
          /\ \A i \in DOMAIN order' : ToSet(deps'[order'[i]]) \subseteq {order'[j] : j \in 1..(i - 1)}
      BY <3>4, <3>7
    <3>5. phase' # "sort" => queue' = <<>> /\ (error' = "cyclic" <=> ToSet(order') # ToSet(loaded'))
      BY <2>4
    <3> QED BY <3>3, <3>5, <3>6 DEF SortInv
  <2>5. CASE Sorted
    <3>1. /\ phase = "sort" /\ error = "none" /\ queue = <<>> /\ UNCHANGED <<deps, loaded, indegree, queue, order>>
          /\ IF Len(order) # Len(loaded) THEN phase' = "over" /\ error' = "cyclic" ELSE phase' = "before" /\ error' = error
      BY <2>5 DEF Sorted, Enter, Fail, FeatureTypes, world
    <3>2. Counting
      BY <3>1 DEF Counting, Checked
    <3>3. IsInjective(order) /\ ToSet(order) \subseteq ToSet(loaded)
      BY <3>2 DEF SortInv
    <3>4. Len(order) = Len(loaded) <=> ToSet(order) = ToSet(loaded)
      BY <3>3, SameLength DEF LoadInv, FeatureTypes
    <3> QED BY <2>4, <3>1, <3>2, <3>4
  <2>6. ASSUME BeforeHook \/ BeforeDone \/ SetUpProvider \/ ProvidersDone \/ InitHook \/ InitReturns PROVE SortInv'
    <3>1. /\ phase \in {"before", "providers", "init"} /\ error = "none" /\ error' \in {"none", "noCreate", "provider"}
          /\ UNCHANGED <<deps, loaded, indegree, queue, order>>
      BY <2>6 DEF BeforeHook, BeforeDone, SetUpProvider, ProvidersDone, InitHook, InitReturns,
                  FeatureTypes, Enter, Fail, Advance, world
    <3>2. Counting
      BY <3>1 DEF Counting, Checked
    <3>3. queue = <<>> /\ ToSet(order) = ToSet(loaded)
      BY <3>1, <3>2 DEF SortInv
    <3> QED BY <2>4, <3>1, <3>2, <3>3
  <2>7. CASE UNCHANGED vars
    BY <2>4, <2>7 DEF vars, SortInv, Counting, Checked
  <2> QED BY <2>1, <2>2, <2>3, <2>5, <2>6, <2>7 DEF Next
<1> QED BY <1>1, <1>2, FeatureTyping, Closing, PTL DEF Spec

-------------------------------------------------------------------------------
\* The next hook is the next of the order.
LEMMA HookGrows ==
  ASSUME NEW S, NEW ran \in Seq(S), NEW all \in Seq(S), NEW k \in 1..Len(all),
         Len(ran) = k - 1, \A i \in 1..Len(ran) : ran[i] = all[i]
  PROVE  LET r == Append(ran, all[k]) IN Len(r) = k /\ r # <<>> /\ \A i \in 1..Len(r) : r[i] = all[i]
<1> DEFINE x == all[k]
           r == Append(ran, x)
<1>1. x \in S
  OBVIOUS
<1>2. k \in Nat /\ k >= 1 /\ k = Len(ran) + 1 /\ Len(ran) \in Nat
  OBVIOUS
<1> HIDE DEF x
<1>3. Len(r) = Len(ran) + 1 /\ r[Len(ran) + 1] = x /\ \A i \in 1..Len(ran) : r[i] = ran[i]
  BY <1>1, AppendNames
<1>4. r # <<>>
  BY <1>2, <1>3
<1> HIDE DEF r
<1>5. Len(r) = k /\ \A i \in 1..k : i = k \/ i \in 1..Len(ran)
  BY <1>2, <1>3
<1> QED BY <1>2, <1>3, <1>4, <1>5 DEF x, r

\* The hooks run in the order, and the OnInit hooks after all the BeforeInit hooks.
THEOREM Hooking == Spec => []HookInv
<1>1. Init => HookInv
  BY DEF Init, HookInv
<1>2. FeatureTypes /\ HookInv /\ [Next]_vars => HookInv'
  <2> SUFFICES ASSUME FeatureTypes, HookInv, [Next]_vars PROVE HookInv'
    OBVIOUS
  <2> USE DEF world, Enter, Fail, Advance
  <2>1. /\ order \in Seq(Names) /\ before \in Seq(Names) /\ inits \in Seq(Names) /\ next \in Nat \ {0}
        /\ Len(order) \in Nat /\ Len(before) \in Nat /\ Len(inits) \in Nat
        /\ phase # "over" => error = "none"
    BY DEF FeatureTypes
  <2>2. Len(before) = 0 /\ Len(inits) = 0 => before = <<>> /\ inits = <<>>
    BY <2>1
  <2>3. ASSUME CheckName \/ NamesChecked \/ LoadDependency \/ FeatureLoaded \/ DependenciesLoaded \/ CountDependencies
        PROVE  HookInv'
    <3>1. /\ UNCHANGED <<order, before, inits>> /\ phase \in {"check", "load", "count", "sort"}
          /\ \/ phase' \in {"check", "load", "count", "sort"} /\ error' = "none"
             \/ phase' = "over" /\ error' \in {"unnamed", "duplicate"}
      BY <2>1, <2>3 DEF CheckName, NamesChecked, LoadDependency, FeatureLoaded, DependenciesLoaded, CountDependencies
    <3>2. inits = <<>> /\ before = <<>>
      BY <3>1 DEF HookInv
    <3> QED BY <3>1, <3>2 DEF HookInv
  <2>4. CASE Pop
    <3>1. UNCHANGED <<before, inits, phase, error>> /\ phase = "sort" /\ error = "none"
      BY <2>1, <2>4 DEF Pop
    <3>2. inits = <<>> /\ before = <<>>
      BY <3>1 DEF HookInv
    <3>3. order' \in Seq(Names)
      BY <2>1, <2>4, AppendNames, TailNames DEF Pop, FeatureTypes
    <3>4. Len(order') \in Nat /\ Len(<<>>) = 0
      BY <3>3
    <3> QED BY <3>1, <3>2, <3>4 DEF HookInv
  <2>5. CASE Sorted
    <3>1. /\ UNCHANGED <<order, before, inits>> /\ phase = "sort"
          /\ \/ phase' = "before" /\ error' = "none" /\ next' = 1
             \/ phase' = "over" /\ error' = "cyclic"
      BY <2>1, <2>5 DEF Sorted
    <3>2. inits = <<>> /\ before = <<>>
      BY <3>1 DEF HookInv
    <3> QED BY <3>1, <3>2 DEF HookInv
  <2>6. CASE BeforeHook
    <3>1. /\ UNCHANGED <<order, inits>> /\ phase = "before" /\ error = "none" /\ next \in 1..Len(order)
          /\ \/ before' = before /\ phase' = "over" /\ error' = "noCreate"
             \/ before' = Append(before, order[next]) /\ phase' = "before" /\ error' = "none" /\ next' = next + 1
      BY <2>1, <2>6 DEF BeforeHook
    <3>2. Len(before) = next - 1 /\ inits = <<>>
      BY <3>1 DEF HookInv
    <3>3. CASE before' = before /\ phase' = "over" /\ error' = "noCreate"
      BY <3>1, <3>2, <3>3 DEF HookInv
    <3>4. CASE before' = Append(before, order[next]) /\ phase' = "before" /\ error' = "none" /\ next' = next + 1
      <4>1. Len(before') = next /\ \A i \in 1..Len(before') : before'[i] = order[i]
        <5>1. \A i \in 1..Len(before) : before[i] = order[i]
          BY DEF HookInv
        <5>2. next \in 1..Len(order) /\ Len(before) = next - 1
          BY <3>1, <3>2
        <5>3. LET r == Append(before, order[next]) IN Len(r) = next /\ r # <<>> /\ \A i \in 1..Len(r) : r[i] = order[i]
          BY <2>1, <5>1, <5>2, HookGrows
        <5> QED BY <3>4, <5>3
      <4>2. next <= Len(order) /\ next = next' - 1
        BY <2>1, <3>1, <3>4
      <4> QED BY <3>1, <3>2, <3>4, <4>1, <4>2 DEF HookInv
    <3> QED BY <3>1, <3>3, <3>4
  <2>7. CASE BeforeDone
    <3>1. UNCHANGED <<order, before, inits>> /\ phase = "before" /\ phase' = "providers" /\ next > Len(order) /\ error' = "none"
      BY <2>1, <2>7 DEF BeforeDone
    <3>2. Len(before) = next - 1 /\ Len(before) <= Len(order)
      BY <3>1 DEF HookInv
    <3>3. Len(before) = Len(order)
      BY <2>1, <3>1, <3>2
    <3> QED BY <3>1, <3>3 DEF HookInv
  <2>8. CASE SetUpProvider
    <3>1. /\ UNCHANGED <<order, before, inits>> /\ phase = "providers"
          /\ phase' = "providers" \/ (phase' = "over" /\ error' = "provider")
      BY <2>8 DEF SetUpProvider
    <3>2. inits = <<>>
      BY <3>1 DEF HookInv
    <3>3. phase' = "over" => error' = "provider"
      BY <3>1
    <3>4. phase' = "providers" => error' = "none"
      BY <2>1, <2>8 DEF SetUpProvider
    <3> QED BY <3>1, <3>2, <3>3, <3>4 DEF HookInv
  <2>9. CASE ProvidersDone
    <3>1. UNCHANGED <<order, before, inits>> /\ phase = "providers" /\ phase' = "init" /\ next' = 1 /\ error' = "none"
      BY <2>1, <2>9 DEF ProvidersDone
    <3>2. inits = <<>> /\ Len(<<>>) = 0
      BY <3>1 DEF HookInv
    <3> QED BY <3>1, <3>2 DEF HookInv
  <2>10. CASE InitHook
    <3>1. /\ UNCHANGED <<order, before>> /\ phase = "init" /\ phase' = "init" /\ error = "none" /\ error' = "none"
          /\ next \in 1..Len(order) /\ inits' = Append(inits, order[next]) /\ next' = next + 1
      BY <2>1, <2>10 DEF InitHook
    <3>2. Len(inits) = next - 1 /\ Len(before) = Len(order)
      BY <3>1 DEF HookInv
    <3>3. Len(inits') = next /\ \A i \in 1..Len(inits') : inits'[i] = order[i]
      <4>1. \A i \in 1..Len(inits) : inits[i] = order[i]
        BY DEF HookInv
      <4> QED BY <2>1, <3>1, <3>2, <4>1, HookGrows
    <3>4. next <= Len(order) /\ next = next' - 1
      BY <2>1, <3>1
    <3> QED BY <3>1, <3>2, <3>3, <3>4 DEF HookInv
  <2>11. CASE InitReturns
    <3>1. /\ UNCHANGED <<order, before, inits, error>> /\ phase = "init" /\ phase' = "over" /\ error = "none"
          /\ next > Len(order)
      BY <2>1, <2>11 DEF InitReturns
    <3>2. Len(inits) = next - 1 /\ Len(inits) <= Len(order) /\ Len(before) = Len(order)
      BY <3>1 DEF HookInv
    <3>3. Len(inits) = Len(order)
      BY <2>1, <3>1, <3>2
    <3> QED BY <3>1, <3>2, <3>3 DEF HookInv
  <2>12. CASE UNCHANGED vars
    BY <2>12 DEF vars, HookInv
  <2> QED BY <2>3, <2>4, <2>5, <2>6, <2>7, <2>8, <2>9, <2>10, <2>11, <2>12 DEF Next
<1> QED BY <1>1, <1>2, FeatureTyping, PTL DEF Spec

-------------------------------------------------------------------------------
(* Every variable of FeatureInit keeps its type; indegree too, by the sort's count. *)
THEOREM FeatureInitTypes == Spec => []TypeOK
<1> DEFINE Fixed == deps \in Worlds /\ hookless \subseteq Names /\ given \in Lists
<1>1. Init => Fixed
  BY DEF Init
<1>2. Fixed /\ [Next]_vars => Fixed'
  <2>1. [Next]_vars => UNCHANGED <<deps, hookless, given>>
    BY DEF vars, world, Next, CheckName, NamesChecked, LoadDependency, FeatureLoaded, DependenciesLoaded,
           CountDependencies, Pop, Sorted, BeforeHook, BeforeDone, SetUpProvider, ProvidersDone, InitHook, InitReturns
  <2> QED BY <2>1
<1>3. Fixed /\ FeatureTypes /\ SortInv => TypeOK
  <2> SUFFICES ASSUME Fixed, FeatureTypes, SortInv PROVE TypeOK
    OBVIOUS
  <2>1. indegree \in [ToSet(loaded) -> Nat] \/ indegree = <<>>
    <3>1. ToSet(loaded) \subseteq Names
      BY ListFinite DEF FeatureTypes
    <3>2. ASSUME NEW m \in ToSet(loaded) PROVE Unmet(m, ToSet(order)) \in Nat
      <4>1. deps[m] \in Seq(Names)
        BY <3>1 DEF FeatureTypes
      <4> QED BY <4>1, UnmetLess
    <3>3. CASE Counting
      <4>1. indegree = [m \in ToSet(loaded) |-> Unmet(m, ToSet(order))]
        BY <3>3 DEF SortInv
      <4> QED BY <3>2, <4>1
    <3>4. CASE ~Counting
      BY <3>4 DEF FeatureTypes
    <3> QED BY <3>3, <3>4
  <2> QED BY <2>1 DEF TypeOK, FeatureTypes
<1> QED BY <1>1, <1>2, <1>3, FeatureTyping, Sorting, PTL DEF Spec

\* Once the sort is over without a cycle, the order has exactly what is loaded.
LEMMA Complete ==
  ASSUME FeatureTypes, SortInv, Checked, error # "cyclic", phase \notin {"load", "count", "sort"}
  PROVE  ToSet(order) = ToSet(loaded)
BY DEF SortInv, Counting

(* orderFeatures fails exactly on what cannot be ordered: those it leaves out each need one that *)
(* is unknown or left out too, and a topological order has a first among any of its features.    *)
THEOREM Orders == Spec => []SucceedsIffOrderable
<1>1. FeatureTypes /\ SortInv => SucceedsIffOrderable
  <2> SUFFICES ASSUME FeatureTypes, SortInv PROVE SucceedsIffOrderable
    OBVIOUS
  <2>0. ToSet(loaded) \subseteq Names
    BY ListFinite DEF FeatureTypes
  <2>1. ASSUME error = "cyclic" PROVE ~Orderable(ToSet(loaded))
    <3> DEFINE U == ToSet(loaded) \ ToSet(order)
    <3>1. phase = "over" /\ Counting
      BY <2>1 DEF FeatureTypes, Counting, Checked
    <3>2. queue = <<>> /\ ToSet(order) # ToSet(loaded)
          /\ ToSet(queue) \union ToSet(order) = {m \in ToSet(loaded) : Unmet(m, ToSet(order)) = 0}
      BY <2>1, <3>1 DEF SortInv
    <3>3. ToSet(order) = {m \in ToSet(loaded) : Unmet(m, ToSet(order)) = 0}
      <4>1. ToSet(queue) = {}
        BY <3>2 DEF ToSet
      <4> QED BY <3>2, <4>1
    <3>4. U # {} /\ U \in SUBSET ToSet(loaded)
      BY <3>2, <3>3
    <3>5. ASSUME NEW m \in U PROVE \E d \in ToSet(deps[m]) : d \notin ToSet(loaded) \/ d \in U
      <4>1. deps[m] \in Seq(Names)
        BY <2>0 DEF FeatureTypes
      <4>2. Unmet(m, ToSet(order)) # 0
        BY <3>3
      <4>3. ~(ToSet(deps[m]) \subseteq ToSet(order))
        BY <4>1, <4>2, UnmetLess
      <4> QED BY <4>3
    <3> HIDE DEF U
    <3> QED BY <3>4, <3>5 DEF Orderable
  <2>2. ASSUME phase \in {"before", "providers", "init"} PROVE Orderable(ToSet(loaded))
    <3>1. Counting /\ error = "none"
      BY <2>2 DEF FeatureTypes, Counting, Checked
    <3>2. ToSet(order) = ToSet(loaded)
      BY <2>2, <3>1, Complete DEF Counting
    <3>3. \A i \in DOMAIN order : ToSet(deps[order[i]]) \subseteq {order[j] : j \in 1..(i - 1)}
      BY <3>1 DEF SortInv
    <3>4. order \in Seq(Names) /\ Len(order) \in Nat /\ DOMAIN order = 1..Len(order)
      BY DEF FeatureTypes
    <3> SUFFICES ASSUME NEW U \in SUBSET ToSet(loaded), U # {},
                        \A m \in U : \E d \in ToSet(deps[m]) : d \notin ToSet(loaded) \/ d \in U
                 PROVE  FALSE
      BY DEF Orderable
    <3> DEFINE T == {i \in 1..Len(order) : order[i] \in U}
    <3>5. \A m \in U : \E i \in 1..Len(order) : order[i] = m
      BY <3>2, <3>4 DEF ToSet
    <3>6. T \in SUBSET Nat /\ T # {}
      BY <3>5
    <3>7. PICK i \in T : \A j \in T : i <= j
      BY <3>6, LeastIndex
    <3>8. PICK d \in ToSet(deps[order[i]]) : d \notin ToSet(loaded) \/ d \in U
      BY <3>7
    <3>9. ToSet(deps[order[i]]) \subseteq {order[j] : j \in 1..(i - 1)}
      BY <3>3, <3>4, <3>7
    <3>10. PICK j \in 1..(i - 1) : d = order[j]
      BY <3>8, <3>9
    <3>11. j \in 1..Len(order) /\ j < i /\ i \in Nat
      BY <3>4, <3>7, <3>10
    <3>12. d \in ToSet(loaded)
      BY <3>2, <3>4, <3>10, <3>11 DEF ToSet
    <3>13. j \in T
      BY <3>8, <3>10, <3>11, <3>12
    <3> QED BY <3>7, <3>11, <3>13
  <2> QED BY <2>1, <2>2 DEF SucceedsIffOrderable
<1> QED BY <1>1, FeatureTyping, Sorting, PTL

(* Whatever has run of the hooks is an initial part of the order. *)
THEOREM HooksInOrder == Spec => []HooksFollowDependencies
<1>1. FeatureTypes /\ SortInv /\ HookInv => HooksFollowDependencies
  <2> SUFFICES ASSUME FeatureTypes, SortInv, HookInv, NEW ran \in {before, inits}
               PROVE  /\ IsInjective(ran) /\ ToSet(ran) \subseteq ToSet(loaded)
                      /\ \A i \in DOMAIN ran : ToSet(deps[ran[i]]) \subseteq {ran[j] : j \in 1..(i - 1)}
    BY DEF HooksFollowDependencies
  <2>1. /\ order \in Seq(Names) /\ Len(order) \in Nat /\ DOMAIN order = 1..Len(order)
        /\ ran \in Seq(Names) /\ Len(ran) \in Nat /\ DOMAIN ran = 1..Len(ran)
    BY DEF FeatureTypes
  <2>2. Len(ran) <= Len(order) /\ \A i \in 1..Len(ran) : ran[i] = order[i]
    BY DEF HookInv
  <2>3. IsInjective(order) /\ ToSet(order) \subseteq ToSet(loaded)
        /\ \A i \in 1..Len(order) : ToSet(deps[order[i]]) \subseteq {order[j] : j \in 1..(i - 1)}
    <3>1. CASE Counting
      BY <2>1, <3>1 DEF SortInv
    <3>2. CASE ~Counting
      <4>1. order = <<>> /\ Len(order) = 0
        BY <3>2 DEF FeatureTypes
      <4> QED BY <2>1, <4>1 DEF IsInjective, ToSet
    <3> QED BY <3>1, <3>2
  <2>4. \A i \in 1..Len(ran) : i \in 1..Len(order)
    BY <2>1, <2>2
  <2>5. IsInjective(ran)
    BY <2>1, <2>2, <2>3, <2>4 DEF IsInjective
  <2>6. ToSet(ran) \subseteq ToSet(loaded)
    BY <2>1, <2>2, <2>3, <2>4 DEF ToSet
  <2>7. ASSUME NEW i \in 1..Len(ran) PROVE ToSet(deps[ran[i]]) \subseteq {ran[j] : j \in 1..(i - 1)}
    <3>1. ToSet(deps[order[i]]) \subseteq {order[j] : j \in 1..(i - 1)} /\ ran[i] = order[i]
      BY <2>2, <2>3, <2>4
    <3>2. \A j \in 1..(i - 1) : ran[j] = order[j]
      BY <2>1, <2>2
    <3> QED BY <3>1, <3>2
  <2> QED BY <2>1, <2>5, <2>6, <2>7
<1> QED BY <1>1, FeatureTyping, Sorting, Hooking, PTL

(* All OnInit hooks run or, of an Init that fails, none. *)
THEOREM AllOrNone == Spec => []AllOrNoInit
<1>1. FeatureTypes /\ LoadInv /\ SortInv /\ HookInv => AllOrNoInit
  <2> SUFFICES ASSUME FeatureTypes, LoadInv, SortInv, HookInv PROVE AllOrNoInit
    OBVIOUS
  <2>1. ASSUME NEW ran \in Seq(Names), Len(ran) = Len(order), \A i \in 1..Len(ran) : ran[i] = order[i]
        PROVE  ToSet(ran) = ToSet(order)
    <3>1. order \in Seq(Names) /\ DOMAIN order = 1..Len(order) /\ DOMAIN ran = 1..Len(order)
      BY <2>1 DEF FeatureTypes
    <3> QED BY <2>1, <3>1 DEF ToSet
  <2>2. error # "none" => inits = <<>>
    BY DEF HookInv
  <2>3. ASSUME inits # <<>> PROVE ToSet(before) = ToSet(loaded)
    <3>1. phase \in {"init", "over"} /\ error = "none" /\ Len(before) = Len(order)
      BY <2>3 DEF HookInv
    <3>2. ToSet(order) = ToSet(loaded)
      BY <3>1, Complete DEF Checked
    <3>3. ToSet(before) = ToSet(order)
      BY <2>1, <3>1 DEF HookInv, FeatureTypes
    <3> QED BY <3>2, <3>3
  <2>4. ASSUME phase = "over", error = "none", NEW n \in ToSet(given)
        PROVE  {n} \union ToSet(deps[n]) \subseteq ToSet(inits)
    <3>1. Checked
      BY <2>4 DEF Checked
    <3>2. ToSet(order) = ToSet(loaded)
      BY <2>4, <3>1, Complete
    <3>3. ToSet(inits) = ToSet(loaded)
      BY <2>1, <2>4, <3>2 DEF HookInv, FeatureTypes
    <3>4. /\ given \in Seq(Names \union {NoName}) /\ loaded \in Seq(Names) /\ Len(given) <= Len(loaded)
          /\ Len(given) \in Nat /\ Len(loaded) \in Nat /\ DOMAIN given = 1..Len(given) /\ DOMAIN loaded = 1..Len(loaded)
      <4>1. given \in Seq(Names \union {NoName}) /\ loaded \in Seq(Names) /\ Len(given) <= Len(loaded)
        BY <3>1 DEF FeatureTypes
      <4> QED BY <4>1
    <3>5. PICK i \in 1..Len(given) : n = given[i]
      BY <3>4 DEF ToSet
    <3>6. i \in 1..Len(loaded) /\ loaded[i] = n
      BY <3>4, <3>5 DEF LoadInv
    <3>7. n \in ToSet(loaded)
      BY <3>4, <3>6 DEF ToSet
    <3>8. ToSet(deps[n]) \subseteq ToSet(loaded)
      <4>1. \A k \in DOMAIN deps[loaded[i]] : deps[loaded[i]][k] \in ToSet(loaded)
        BY <2>4, <3>1, <3>5 DEF LoadInv
      <4> QED BY <3>6, <4>1 DEF ToSet
    <3> QED BY <3>3, <3>7, <3>8
  <2> QED BY <2>2, <2>3, <2>4 DEF AllOrNoInit
<1> QED BY <1>1, FeatureTyping, Closing, Sorting, Hooking, PTL

-------------------------------------------------------------------------------
(* ShortId                                                                      *)

(* The inductive invariants of ShortId, as named parts. *)

\* The identifier of a time and a count.
IdOf(t, c) == [i \in Positions |-> Digit(Encode(t, c), i)]
\* The calls that have taken their count and have not returned.
Counted == {g \in Callers : stage[g] \in {"write", "copy"}}

\* The bound on the calls bounds the counter.
CountInv ==
  /\ Len(issued) + Cardinality({h \in Callers : Busy(h)}) <= MaxCalls
  /\ counter <= Len(issued) + Cardinality(Counted)

\* The locals of a call, whoever overlaps it.
LocalInv ==
  \A g \in Callers :
    /\ stage[g] \notin {"idle", "clock"} => now[g] \in Times
    /\ stage[g] \notin {"write", "copy"} => written[g] = 0
    /\ stage[g] # "copy" => copied[g] = <<>>
    /\ stage[g] = "write" => written[g] < Digits
    /\ written[g] <= Digits /\ Len(copied[g]) <= Digits

\* A call that overlaps no other one finds lastTime, counter and buffer as it left them.
Undisturbed(g) ==
  /\ Busy(g) /\ \A h \in Callers : h # g => ~Busy(h)
  /\ stage[g] = "swap" => now[g] # lastTime /\ last[g] = lastTime
  /\ stage[g] \in {"reset", "add", "write", "copy"} => lastTime = now[g]
  /\ stage[g] \in {"write", "copy"} => count[g] = counter % 2^CounterBits
  /\ stage[g] = "write" => \A i \in Positions : i > Digits - written[g] => buffer[i] = Digit(Encode(now[g], count[g]), i)
  /\ stage[g] = "copy" => \A i \in Positions : /\ buffer[i] = Digit(Encode(now[g], count[g]), i)
                                               /\ i <= Len(copied[g]) => copied[g][i] = buffer[i]

AloneInv == \A g \in Callers : alone[g] => Undisturbed(g)

\* Unless it was set back, the clock is past every time read from it.
ClockInv ==
  /\ \A g \in Callers : stage[g] \notin {"idle", "clock"} => era[g] <= setBacks /\ (era[g] = setBacks => now[g] <= clock)
  /\ \A i \in DOMAIN issued : issued[i].era <= setBacks /\ (issued[i].era = setBacks => issued[i].time <= clock)

\* Since identifier i was issued no call has reset the counter: each has counted it up by one.
Quiet(i) ==
  /\ lastTime = issued[i].time
  /\ \E s \in 0..counter : /\ issued[i].id = IdOf(issued[i].time, s % 2^CounterBits)
                           /\ counter = s + (Len(issued) - i) + Cardinality(Counted)

\* As long as the clock shows the time of identifier i, every call is of that time and counts up.
Current(i) ==
  /\ Quiet(i)
  /\ \A g \in Callers : /\ stage[g] \notin {"swap", "reset"}
                        /\ stage[g] \notin {"idle", "clock"} => now[g] = clock

\* So does a later call of the same era that overlaps no other, if it has read that time.
Follows(g, i) ==
  /\ issued[i].time <= now[g]
  /\ issued[i].time = now[g] => Quiet(i) /\ stage[g] \notin {"swap", "reset"}

QuietInv ==
  \A i \in DOMAIN issued : issued[i].alone =>
    /\ \E c \in Counts : issued[i].id = IdOf(issued[i].time, c)
    /\ issued[i].era = setBacks /\ issued[i].time = clock => Current(i)
    /\ \A g \in Callers : alone[g] /\ stage[g] # "clock" /\ era[g] = issued[i].era => Follows(g, i)

\* The types of ShortId, but for the bound on the counter.
IdTypes ==
  /\ clock \in Times /\ setBacks \in 0..MaxSetBacks /\ lastTime \in Times \union {0} /\ counter \in Nat
  /\ buffer \in [Positions -> 0..(Base - 1)]
  /\ stage \in [Callers -> {"idle", "clock", "load", "swap", "reset", "add", "write", "copy"}]
  /\ now \in [Callers -> Times \union {0}] /\ last \in [Callers -> Times \union {0}]
  /\ count \in [Callers -> Counts] /\ written \in [Callers -> Nat]
  /\ copied \in [Callers -> Seq(0..(Base - 1))]
  /\ alone \in [Callers -> BOOLEAN] /\ era \in [Callers -> 0..MaxSetBacks]
  /\ issued \in Seq([id : [Positions -> 0..(Base - 1)], time : Times, alone : BOOLEAN, era : 0..MaxSetBacks])

-------------------------------------------------------------------------------
\* The digits of a number, and the counts, are in range.
LEMMA InRange ==
  /\ \A t \in Times \union {0}, c \in Counts, i \in Positions : Digit(Encode(t, c), i) \in 0..(Base - 1)
  /\ \A n \in Nat : n % 2^CounterBits \in Counts /\ ~Overflows(n)
  /\ 0 \in Counts /\ 0 \in 0..(Base - 1) /\ Digits \in Positions
<1>1. ASSUME NEW t \in Times \union {0}, NEW c \in Counts, NEW i \in Positions
      PROVE  Digit(Encode(t, c), i) \in 0..(Base - 1)
  <2>1. Encode(t, c) \in Int
    BY IdAssumption, PowerAssumption DEF IdAssumption, PowerAssumption, Encode, Counts
  <2>2. Encode(t, c) \div Base^(Digits - i) \in Int
    BY <2>1, PowerAssumption DEF PowerAssumption
  <2> QED BY <2>2, IdAssumption DEF IdAssumption, Digit
<1>2. ASSUME NEW n \in Nat PROVE n % 2^CounterBits \in Counts /\ ~Overflows(n)
  BY PowerAssumption DEF PowerAssumption, Counts, Overflows
<1>3. 0 \in Counts /\ 0 \in 0..(Base - 1) /\ Digits \in Positions
  BY IdAssumption, PowerAssumption DEF IdAssumption, PowerAssumption, Counts, Positions
<1> QED BY <1>1, <1>2, <1>3

(* A generator is well typed, and the locals of each call are as its place in the code says. *)
THEOREM IdTyping == IdSpec => [](IdTypes /\ LocalInv)
<1>1. IdInit => IdTypes /\ LocalInv
  BY IdAssumption, InRange DEF IdAssumption, IdInit, IdTypes, LocalInv
<1>2. IdTypes /\ LocalInv /\ [IdNext]_idVars => IdTypes' /\ LocalInv'
  <2> SUFFICES ASSUME IdTypes, LocalInv, [IdNext]_idVars PROVE IdTypes' /\ LocalInv'
    OBVIOUS
  <2> USE IdAssumption DEF IdAssumption, IdTypes, LocalInv, Moves, shared
  <2>1. ASSUME NEW g \in Callers, Generate(g) PROVE IdTypes' /\ LocalInv'
    BY <2>1 DEF Generate, Busy
  <2>2. ASSUME NEW g \in Callers, ReadClock(g) PROVE IdTypes' /\ LocalInv'
    BY <2>2 DEF ReadClock
  <2>3. ASSUME NEW g \in Callers, LoadLast(g) PROVE IdTypes' /\ LocalInv'
    BY <2>3 DEF LoadLast
  <2>4. ASSUME NEW g \in Callers, Swap(g) PROVE IdTypes' /\ LocalInv'
    BY <2>4 DEF Swap
  <2>5. ASSUME NEW g \in Callers, Reset(g) PROVE IdTypes' /\ LocalInv'
    <3>1. 0 \in Counts
      BY InRange
    <3> QED BY <2>5, <3>1 DEF Reset
  <2>6. ASSUME NEW g \in Callers, Add(g) PROVE IdTypes' /\ LocalInv'
    <3> DEFINE n == counter + 1
    <3>1. n \in Nat
      OBVIOUS
    <3>2. n % 2^CounterBits \in Counts /\ ~Overflows(n)
      BY <3>1, InRange
    <3> DEFINE c == n % 2^CounterBits
    <3>3. /\ stage[g] = "add" /\ stage' = [stage EXCEPT ![g] = "write"] /\ counter' = n /\ count' = [count EXCEPT ![g] = c]
          /\ UNCHANGED <<clock, setBacks, lastTime, buffer, now, last, written, copied, alone, era, issued>>
      BY <2>6, <3>2 DEF Add
    <3> HIDE DEF c, n
    <3>4. count' \in [Callers -> Counts]
      BY <3>2, <3>3 DEF c
    <3> QED BY <3>1, <3>3, <3>4
  <2>7. ASSUME NEW g \in Callers, WriteDigit(g) PROVE IdTypes' /\ LocalInv'
    <3> DEFINE i == Digits - written[g]
               x == Digit(Encode(now[g], count[g]), i)
    <3>1. stage[g] = "write" /\ written[g] \in Nat /\ written[g] < Digits
      BY <2>7 DEF WriteDigit
    <3>2. i \in Positions
      BY <3>1 DEF Positions
    <3>3. x \in 0..(Base - 1)
      <4> HIDE DEF i
      <4>1. now[g] \in Times \union {0} /\ count[g] \in Counts
        OBVIOUS
      <4> QED BY <3>2, <4>1, InRange
    <3>4. buffer' = [buffer EXCEPT ![i] = x] /\ written' = [written EXCEPT ![g] = @ + 1]
          /\ stage' = [stage EXCEPT ![g] = IF written[g] + 1 < Digits THEN "write" ELSE "copy"]
          /\ UNCHANGED <<clock, setBacks, lastTime, counter, now, last, count, copied, alone, era, issued>>
      BY <2>7 DEF WriteDigit
    <3> HIDE DEF i, x
    <3>5. buffer' \in [Positions -> 0..(Base - 1)]
      BY <3>2, <3>3, <3>4
    <3>10. written' \in [Callers -> Nat]
      BY <3>1, <3>4
    <3>11. stage' \in [Callers -> {"idle", "clock", "load", "swap", "reset", "add", "write", "copy"}]
      BY <3>4
    <3>6. IdTypes'
      <4> HIDE DEF LocalInv
      <4> QED BY <3>4, <3>5, <3>10, <3>11
    <3>7. \A h \in Callers : h # g => written'[h] = written[h] /\ stage'[h] = stage[h]
      BY <3>4
    <3>8. written'[g] = written[g] + 1 /\ stage'[g] \in {"write", "copy"} /\ (stage'[g] = "write" => written[g] + 1 < Digits)
          /\ written[g] + 1 <= Digits
      BY <3>1, <3>4
    <3>12. \A h \in Callers : copied'[h] = copied[h] /\ now'[h] = now[h]
      BY <3>4
    <3>9. copied[g] = <<>> /\ now[g] \in Times
      BY <3>1
    <3>13. LocalInv'
      <4> HIDE DEF IdTypes
      <4> QED BY <3>1, <3>7, <3>8, <3>9, <3>12
    <3> QED BY <3>6, <3>13
  <2>8. ASSUME NEW g \in Callers, CopyDigit(g) PROVE IdTypes' /\ LocalInv'
    <3> DEFINE x == buffer[Len(copied[g]) + 1]
    <3>1. /\ stage[g] = "copy" /\ copied[g] \in Seq(0..(Base - 1)) /\ Len(copied[g]) \in Nat /\ Len(copied[g]) < Digits
          /\ copied' = [copied EXCEPT ![g] = Append(copied[g], x)]
          /\ UNCHANGED <<clock, setBacks, lastTime, counter, buffer, stage, now, last, count, written, alone, era, issued>>
      BY <2>8 DEF CopyDigit
    <3>2. x \in 0..(Base - 1)
      BY <3>1 DEF Positions
    <3> HIDE DEF x
    <3>3. Append(copied[g], x) \in Seq(0..(Base - 1)) /\ Len(Append(copied[g], x)) = Len(copied[g]) + 1
      BY <3>1, <3>2, AppendNames
    <3>4. Len(copied'[g]) <= Digits /\ copied' \in [Callers -> Seq(0..(Base - 1))]
          /\ \A h \in Callers : h # g => copied'[h] = copied[h]
      BY <3>1, <3>3
    <3>5. IdTypes'
      BY <3>1, <3>4
    <3> QED BY <3>1, <3>4, <3>5
  <2>9. ASSUME NEW g \in Callers, Returns(g) PROVE IdTypes' /\ LocalInv'
    <3> DEFINE x == [id |-> copied[g], time |-> now[g], alone |-> alone[g], era |-> era[g]]
               R == [id : [Positions -> 0..(Base - 1)], time : Times, alone : BOOLEAN, era : 0..MaxSetBacks]
    <3>1. /\ stage[g] = "copy" /\ stage' = [stage EXCEPT ![g] = "idle"] /\ issued' = Append(issued, x)
          /\ now' = [now EXCEPT ![g] = 0] /\ last' = [last EXCEPT ![g] = 0] /\ count' = [count EXCEPT ![g] = 0]
          /\ written' = [written EXCEPT ![g] = 0] /\ copied' = [copied EXCEPT ![g] = <<>>]
          /\ alone' = [alone EXCEPT ![g] = FALSE] /\ era' = [era EXCEPT ![g] = 0]
          /\ UNCHANGED <<clock, setBacks, lastTime, counter, buffer>> /\ Len(copied[g]) = Digits
      BY <2>9 DEF Returns
    <3>2. copied[g] \in [Positions -> 0..(Base - 1)] /\ now[g] \in Times /\ alone[g] \in BOOLEAN /\ era[g] \in 0..MaxSetBacks
      <4>1. copied[g] \in Seq(0..(Base - 1))
        OBVIOUS
      <4>2. copied[g] \in [1..Len(copied[g]) -> 0..(Base - 1)]
        BY <4>1
      <4> QED BY <3>1, <4>2 DEF Positions
    <3>3. x \in R
      BY <3>2
    <3>4. issued' \in Seq(R)
      <4> HIDE DEF x
      <4>1. issued \in Seq(R)
        OBVIOUS
      <4> HIDE DEF R
      <4> QED BY <3>1, <3>3, <4>1, AppendNames
    <3> HIDE DEF x
    <3>5. <<>> \in Seq(0..(Base - 1)) /\ Len(<<>>) = 0 /\ 0 \in Nat /\ 0 \in 0..MaxSetBacks /\ 0 \in Counts
      BY InRange
    <3>6. copied' \in [Callers -> Seq(0..(Base - 1))] /\ written' \in [Callers -> Nat] /\ count' \in [Callers -> Counts]
      BY <3>1, <3>5
    <3>7. IdTypes'
      BY <3>1, <3>4, <3>5, <3>6
    <3> QED BY <3>1, <3>5, <3>7
  <2>10. ASSUME NEW t \in Times, SetClock(t) PROVE IdTypes' /\ LocalInv'
    BY <2>10 DEF SetClock
  <2>11. CASE UNCHANGED idVars
    BY <2>11 DEF idVars
  <2> QED BY <2>1, <2>2, <2>3, <2>4, <2>5, <2>6, <2>7, <2>8, <2>9, <2>10, <2>11 DEF IdNext, Step
<1> QED BY <1>1, <1>2, PTL DEF IdSpec

\* Counting callers.
LEMMA CallersCounted ==
  ASSUME NEW S \in SUBSET Callers
  PROVE  /\ Cardinality(S) \in Nat
         /\ \A g \in Callers : /\ g \notin S => Cardinality(S \union {g}) = Cardinality(S) + 1
                               /\ g \in S => Cardinality(S \ {g}) = Cardinality(S) - 1
         /\ S = {} => Cardinality(S) = 0
         /\ \A R \in SUBSET S : Cardinality(R) <= Cardinality(S)
<1>1. IsFiniteSet(S)
  BY IdAssumption, FS_Subset DEF IdAssumption
<1> QED BY <1>1, FS_CardinalityType, FS_AddElement, FS_RemoveElement, FS_EmptySet, FS_Subset

\* What a step does to the calls counted, in a word.
LEMMA CountedSteps ==
  ASSUME NEW g \in Callers, IdTypes
  PROVE  /\ Reset(g) \/ Add(g) => g \notin Counted /\ Counted' = Counted \union {g}
         /\ Returns(g) => g \in Counted /\ Counted' = Counted \ {g}
         /\ Generate(g) \/ ReadClock(g) \/ LoadLast(g) \/ Swap(g) \/ WriteDigit(g) \/ CopyDigit(g) => Counted' = Counted
<1> USE DEF IdTypes, Counted, Moves
<1>1. ASSUME Reset(g) PROVE g \notin Counted /\ Counted' = Counted \union {g}
  BY <1>1 DEF Reset
<1>2. ASSUME Add(g) PROVE g \notin Counted /\ Counted' = Counted \union {g}
  <2>1. counter + 1 \in Nat
    OBVIOUS
  <2>2. ~Overflows(counter + 1)
    BY <2>1, InRange
  <2> QED BY <1>2, <2>2 DEF Add
<1>3. ASSUME Returns(g) PROVE g \in Counted /\ Counted' = Counted \ {g}
  BY <1>3 DEF Returns
<1>4. ASSUME Generate(g) \/ ReadClock(g) \/ LoadLast(g) \/ Swap(g) \/ WriteDigit(g) \/ CopyDigit(g)
      PROVE  Counted' = Counted
  BY <1>4 DEF Generate, ReadClock, LoadLast, Swap, WriteDigit, CopyDigit
<1> QED BY <1>1, <1>2, <1>3, <1>4

(* The bound on the calls made bounds the counter: every call adds one to it at most. *)
THEOREM Limits == IdSpec => []CountInv
<1> DEFINE Making == {h \in Callers : Busy(h)}
<1>1. IdInit => CountInv
  <2> SUFFICES ASSUME IdInit PROVE CountInv
    OBVIOUS
  <2>1. Making = {} /\ Counted = {} /\ Len(issued) = 0 /\ counter = 0
    BY DEF IdInit, Busy, Counted
  <2> HIDE DEF Making
  <2>2. Cardinality(Making) = 0 /\ Cardinality(Counted) = 0
    BY <2>1, CallersCounted
  <2> QED BY <2>1, <2>2, IdAssumption DEF IdAssumption, CountInv, Making
<1>2. IdTypes /\ CountInv /\ [IdNext]_idVars => CountInv'
  <2> SUFFICES ASSUME IdTypes, CountInv, [IdNext]_idVars PROVE CountInv'
    OBVIOUS
  <2>1. /\ Making \in SUBSET Callers /\ Counted \in SUBSET Callers /\ Len(issued) \in Nat /\ counter \in Nat
        /\ Len(issued) + Cardinality(Making) <= MaxCalls /\ counter <= Len(issued) + Cardinality(Counted)
    BY DEF Counted, CountInv, IdTypes
  <2>2. Cardinality(Making) \in Nat /\ Cardinality(Counted) \in Nat
    <3> HIDE DEF Making
    <3> QED BY <2>1, CallersCounted
  <2>3. ASSUME NEW g \in Callers, Generate(g) PROVE CountInv'
    <3>1. g \notin Making /\ Making' = Making \union {g} /\ UNCHANGED <<issued, counter>>
          /\ Len(issued) + Cardinality(Making) < MaxCalls
      BY <2>3 DEF Generate, Moves, Busy, IdTypes, shared
    <3>2. Counted' = Counted
      BY <2>3, CountedSteps
    <3> HIDE DEF Making
    <3>3. Cardinality(Making') = Cardinality(Making) + 1
      BY <2>1, <3>1, CallersCounted
    <3>4. Len(issued') + Cardinality(Making') <= MaxCalls /\ counter' <= Len(issued') + Cardinality(Counted')
      BY <2>1, <2>2, <3>1, <3>2, <3>3, IdAssumption DEF IdAssumption
    <3> QED BY <3>4 DEF CountInv, Making
  <2>4. ASSUME NEW g \in Callers, ReadClock(g) \/ LoadLast(g) \/ Swap(g) \/ WriteDigit(g) \/ CopyDigit(g) PROVE CountInv'
    <3>1. Making' = Making /\ UNCHANGED <<issued, counter>>
      BY <2>4 DEF ReadClock, LoadLast, Swap, WriteDigit, CopyDigit, Moves, Busy, IdTypes, shared
    <3>2. Counted' = Counted
      BY <2>4, CountedSteps
    <3> QED BY <2>1, <3>1, <3>2 DEF CountInv
  <2>5. ASSUME NEW g \in Callers, Reset(g) \/ Add(g) PROVE CountInv'
    <3>1. Making' = Making /\ UNCHANGED issued /\ counter' \in {0, counter + 1}
      <4>1. counter + 1 \in Nat
        BY <2>1
      <4>2. ~Overflows(counter + 1)
        BY <4>1, InRange
      <4> QED BY <2>5, <4>2 DEF Reset, Add, Moves, Busy, IdTypes
    <3>2. g \notin Counted /\ Counted' = Counted \union {g}
      BY <2>5, CountedSteps
    <3>3. Cardinality(Counted') = Cardinality(Counted) + 1
      BY <2>1, <3>2, CallersCounted
    <3> HIDE DEF Making
    <3>4. Len(issued') + Cardinality(Making') <= MaxCalls /\ counter' <= Len(issued') + Cardinality(Counted')
      BY <2>1, <2>2, <3>1, <3>3
    <3> QED BY <3>4 DEF CountInv, Making
  <2>6. ASSUME NEW g \in Callers, Returns(g) PROVE CountInv'
    <3> DEFINE x == [id |-> copied[g], time |-> now[g], alone |-> alone[g], era |-> era[g]]
    <3>1. /\ g \in Making /\ Making' = Making \ {g} /\ counter' = counter /\ issued' = Append(issued, x)
          /\ \E R : issued \in Seq(R)
      BY <2>6 DEF Returns, Moves, Busy, IdTypes, shared
    <3>2. g \in Counted /\ Counted' = Counted \ {g}
      BY <2>6, CountedSteps
    <3> HIDE DEF x, Making
    <3>3. Len(issued') = Len(issued) + 1
      BY <3>1
    <3>4. Cardinality(Counted') = Cardinality(Counted) - 1 /\ Cardinality(Making') = Cardinality(Making) - 1
      BY <2>1, <3>1, <3>2, CallersCounted
    <3>5. Len(issued') + Cardinality(Making') <= MaxCalls /\ counter' <= Len(issued') + Cardinality(Counted')
      BY <2>1, <2>2, <3>1, <3>3, <3>4
    <3> QED BY <3>5 DEF CountInv, Making
  <2>7. ASSUME UNCHANGED <<stage, issued, counter>> PROVE CountInv'
    BY <2>7 DEF CountInv, Busy, Counted
  <2>8. ASSUME NEW t \in Times, SetClock(t) PROVE CountInv'
    BY <2>7, <2>8 DEF SetClock
  <2>9. CASE UNCHANGED idVars
    BY <2>7, <2>9 DEF idVars, shared
  <2> QED BY <2>3, <2>4, <2>5, <2>6, <2>8, <2>9 DEF IdNext, Step
<1> QED BY <1>1, <1>2, IdTyping, PTL DEF IdSpec

(* Every variable of ShortId keeps its type and stays within its bound. *)
THEOREM IdsTyped == IdSpec => []IdTypeOK
<1>1. IdTypes /\ LocalInv /\ CountInv => IdTypeOK
  <2> SUFFICES ASSUME IdTypes, LocalInv, CountInv PROVE IdTypeOK
    OBVIOUS
  <2> DEFINE Making == {h \in Callers : Busy(h)}
  <2>1. Counted \in SUBSET Making /\ Making \in SUBSET Callers
    BY DEF Counted, Busy
  <2>2. counter \in Nat /\ Len(issued) \in Nat /\ counter <= Len(issued) + Cardinality(Counted)
        /\ Len(issued) + Cardinality(Making) <= MaxCalls
    BY DEF IdTypes, CountInv
  <2>3. counter \in 0..MaxCalls
    <3> HIDE DEF Making
    <3>1. Cardinality(Counted) <= Cardinality(Making) /\ Cardinality(Counted) \in Nat /\ Cardinality(Making) \in Nat
      BY <2>1, CallersCounted
    <3> QED BY <2>2, <3>1, IdAssumption DEF IdAssumption
  <2>4. written \in [Callers -> 0..Digits]
    <3>1. \A g \in Callers : written[g] \in 0..Digits
      BY IdAssumption DEF IdAssumption, IdTypes, LocalInv
    <3> QED BY <3>1 DEF IdTypes
  <2> QED BY <2>3, <2>4 DEF IdTypes, IdTypeOK
<1> QED BY <1>1, IdTyping, Limits, PTL

(* A call that overlaps no other is not disturbed: a second one would be in its way. *)
THEOREM Undisturbing == IdSpec => []AloneInv
<1>1. IdInit => AloneInv
  BY DEF IdInit, AloneInv
<1>2. IdTypes /\ LocalInv /\ AloneInv /\ [IdNext]_idVars => AloneInv'
  <2> SUFFICES ASSUME IdTypes, LocalInv, AloneInv, [IdNext]_idVars PROVE AloneInv'
    OBVIOUS
  <2>1. ASSUME NEW g \in Callers, Generate(g) PROVE AloneInv'
    <3>1. /\ stage[g] = "idle" /\ stage' = [stage EXCEPT ![g] = "clock"]
          /\ alone' = [h \in Callers |-> IF h = g THEN Others(g) = {} ELSE alone[h] /\ ~Busy(h)]
      BY <2>1 DEF Generate, Moves
    <3>2. ASSUME NEW k \in Callers, alone'[k] PROVE k = g /\ Others(g) = {}
      <4>1. CASE k # g
        <5>1. alone[k] /\ ~Busy(k)
          BY <3>1, <3>2, <4>1
        <5> QED BY <5>1 DEF AloneInv, Undisturbed
      <4>2. CASE k = g
        BY <3>1, <3>2, <4>2
      <4> QED BY <4>1, <4>2
    <3>3. ASSUME Others(g) = {} PROVE Undisturbed(g)'
      <4>1. stage'[g] = "clock" /\ \A h \in Callers : h # g => stage'[h] = "idle"
        BY <3>1, <3>3 DEF Others, Busy, IdTypes
      <4> QED BY <4>1 DEF Undisturbed, Busy
    <3> QED BY <3>2, <3>3 DEF AloneInv
  <2>2. ASSUME NEW g \in Callers, Step(g), alone[g] /\ alone'[g] => Undisturbed(g)' PROVE AloneInv'
    <3>1. stage[g] # "idle"
      BY <2>2 DEF Step, ReadClock, LoadLast, Swap, Reset, Add, WriteDigit, CopyDigit, Returns, Moves
    <3>2. \A h \in Callers : alone'[h] => alone[h]
      BY <2>2 DEF Step, ReadClock, LoadLast, Swap, Reset, Add, WriteDigit, CopyDigit, Returns, shared, IdTypes
    <3>3. \A h \in Callers : alone[h] => h = g
      BY <3>1 DEF AloneInv, Undisturbed, Busy
    <3> QED BY <2>2, <3>2, <3>3 DEF AloneInv
  <2>3. ASSUME NEW g \in Callers, Step(g) PROVE AloneInv'
    <3> SUFFICES ASSUME alone[g], alone'[g] PROVE Undisturbed(g)'
      BY <2>2, <2>3
    <3>1. Undisturbed(g) /\ \A h \in Callers : h # g => stage[h] = "idle"
      BY DEF AloneInv, Undisturbed, Busy
    <3>2. ASSUME stage'[g] # "idle", \A h \in Callers : h # g => stage'[h] = stage[h]
          PROVE  Busy(g)' /\ \A h \in Callers : h # g => ~Busy(h)'
      BY <3>1, <3>2 DEF Busy
    <3>3. CASE ReadClock(g)
      BY <3>1, <3>2, <3>3 DEF ReadClock, Moves, IdTypes, Undisturbed
    <3>4. CASE LoadLast(g)
      BY <3>1, <3>2, <3>4 DEF LoadLast, Moves, IdTypes, Undisturbed, shared
    <3>5. CASE Swap(g)
      BY <3>1, <3>2, <3>5 DEF Swap, Moves, IdTypes, Undisturbed
    <3>6. CASE Reset(g)
      <4>1. /\ stage[g] = "reset" /\ stage' = [stage EXCEPT ![g] = "write"] /\ counter' = 0 /\ count' = [count EXCEPT ![g] = 0]
            /\ UNCHANGED <<lastTime, now, written>>
        BY <3>6 DEF Reset, Moves
      <4>2. stage'[g] = "write" /\ count'[g] = 0 /\ written'[g] = 0 /\ lastTime' = now'[g]
            /\ \A h \in Callers : h # g => stage'[h] = stage[h]
        BY <4>1, <3>1 DEF IdTypes, LocalInv, Undisturbed
      <4>3. count'[g] = counter' % 2^CounterBits
        BY <4>1, <4>2, PowerAssumption DEF PowerAssumption
      <4>4. \A i \in Positions : ~(i > Digits - written'[g])
        BY <4>2, IdAssumption DEF IdAssumption, Positions
      <4> QED BY <3>2, <4>2, <4>3, <4>4 DEF Undisturbed
    <3>7. CASE Add(g)
      <4>0. ~Overflows(counter + 1)
        <5>1. counter + 1 \in Nat
          BY DEF IdTypes
        <5> QED BY <5>1, InRange
      <4>1. /\ stage[g] = "add" /\ stage' = [stage EXCEPT ![g] = "write"] /\ counter' = counter + 1
            /\ count' = [count EXCEPT ![g] = (counter + 1) % 2^CounterBits]
            /\ UNCHANGED <<lastTime, now, written>>
        BY <3>7, <4>0 DEF Add, Moves
      <4>2. stage'[g] = "write" /\ written'[g] = 0 /\ lastTime' = now'[g] /\ count'[g] = counter' % 2^CounterBits
            /\ \A h \in Callers : h # g => stage'[h] = stage[h]
        BY <4>1, <3>1 DEF IdTypes, LocalInv, Undisturbed
      <4>4. \A i \in Positions : ~(i > Digits - written'[g])
        BY <4>2, IdAssumption DEF IdAssumption, Positions
      <4> QED BY <3>2, <4>2, <4>4 DEF Undisturbed
    <3>8. CASE WriteDigit(g)
      <4> DEFINE p == Digits - written[g]
                 x == Digit(Encode(now[g], count[g]), p)
      <4>1. /\ stage[g] = "write" /\ stage' = [stage EXCEPT ![g] = IF written[g] + 1 < Digits THEN "write" ELSE "copy"]
            /\ buffer' = [buffer EXCEPT ![p] = x] /\ written' = [written EXCEPT ![g] = written[g] + 1]
            /\ UNCHANGED <<lastTime, counter, now, count, copied>>
        BY <3>8 DEF WriteDigit, Moves
      <4>2. written[g] \in Nat /\ written[g] < Digits /\ Digits \in Nat /\ copied[g] = <<>>
        BY <4>1, IdAssumption DEF IdAssumption, IdTypes, LocalInv
      <4>3. p \in Positions
        BY <4>2 DEF Positions
      <4>4. /\ stage'[g] = (IF written[g] + 1 < Digits THEN "write" ELSE "copy") /\ written'[g] = written[g] + 1
            /\ \A h \in Callers : h # g => stage'[h] = stage[h]
        BY <4>1 DEF IdTypes
      <4>5. ASSUME NEW i \in Positions, i > Digits - written'[g] PROVE buffer'[i] = Digit(Encode(now[g], count[g]), i)
        <5>1. i = p \/ i > Digits - written[g]
          BY <4>2, <4>4, <4>5 DEF Positions
        <5>2. i # p => buffer'[i] = buffer[i]
          BY <4>1, <4>3 DEF IdTypes
        <5>3. buffer'[p] = x
          <6> HIDE DEF p, x
          <6> QED BY <4>1, <4>3 DEF IdTypes
        <5>4. i > Digits - written[g] => buffer[i] = Digit(Encode(now[g], count[g]), i)
          BY <3>1, <4>1 DEF Undisturbed
        <5> QED BY <5>1, <5>2, <5>3, <5>4
      <4>6. stage'[g] = "copy" => \A i \in Positions : i > Digits - written'[g]
        BY <4>2, <4>4 DEF Positions
      <4>7. \A i \in Positions : ~(i <= Len(copied'[g]))
        BY <4>1, <4>2 DEF Positions
      <4>8. lastTime' = now'[g] /\ count'[g] = counter' % 2^CounterBits
        BY <3>1, <4>1 DEF Undisturbed
      <4> HIDE DEF p, x
      <4>9. stage'[g] \in {"write", "copy"}
        BY <4>4
      <4>10. now'[g] = now[g] /\ count'[g] = count[g]
        BY <4>1
      <4> QED BY <3>2, <4>4, <4>5, <4>6, <4>7, <4>8, <4>9, <4>10 DEF Undisturbed
    <3>9. CASE CopyDigit(g)
      <4> DEFINE x == buffer[Len(copied[g]) + 1]
      <4>1. /\ stage[g] = "copy" /\ Len(copied[g]) < Digits /\ copied' = [copied EXCEPT ![g] = Append(copied[g], x)]
            /\ UNCHANGED <<lastTime, counter, buffer, stage, now, count, written>>
        BY <3>9 DEF CopyDigit, shared
      <4>2. copied[g] \in Seq(0..(Base - 1)) /\ Len(copied[g]) \in Nat
        BY DEF IdTypes
      <4>3. Len(copied[g]) + 1 \in Positions
        BY <4>1, <4>2, IdAssumption DEF IdAssumption, Positions
      <4>4. x \in 0..(Base - 1)
        BY <4>3 DEF IdTypes
      <4>5. copied'[g] = Append(copied[g], x)
        BY <4>1 DEF IdTypes
      <4> HIDE DEF x
      <4>6. /\ Len(copied'[g]) = Len(copied[g]) + 1 /\ copied'[g][Len(copied[g]) + 1] = x
            /\ \A i \in 1..Len(copied[g]) : copied'[g][i] = copied[g][i]
        BY <4>2, <4>4, <4>5, AppendNames
      <4>7. ASSUME NEW i \in Positions, i <= Len(copied'[g]) PROVE copied'[g][i] = buffer[i]
        <5>1. i = Len(copied[g]) + 1 \/ i \in 1..Len(copied[g])
          BY <4>2, <4>6, <4>7, IdAssumption DEF IdAssumption, Positions
        <5>2. i \in 1..Len(copied[g]) => copied[g][i] = buffer[i]
          BY <3>1, <4>1, <4>2 DEF Undisturbed
        <5> QED BY <4>6, <5>1, <5>2 DEF x
      <4>8. \A i \in Positions : buffer[i] = Digit(Encode(now[g], count[g]), i)
        BY <3>1, <4>1 DEF Undisturbed
      <4>9. lastTime' = now'[g] /\ count'[g] = counter' % 2^CounterBits /\ stage'[g] = "copy"
        BY <3>1, <4>1 DEF Undisturbed
      <4> QED BY <3>2, <4>1, <4>7, <4>8, <4>9 DEF Undisturbed
    <3>10. CASE Returns(g)
      BY <3>10 DEF Returns, IdTypes
    <3> QED BY <2>3, <3>3, <3>4, <3>5, <3>6, <3>7, <3>8, <3>9, <3>10 DEF Step
  <2>4. ASSUME UNCHANGED <<lastTime, counter, buffer, stage, now, last, count, written, copied, alone>> PROVE AloneInv'
    BY <2>4 DEF AloneInv, Undisturbed, Busy
  <2>5. ASSUME NEW t \in Times, SetClock(t) PROVE AloneInv'
    BY <2>4, <2>5 DEF SetClock
  <2>6. CASE UNCHANGED idVars
    BY <2>4, <2>6 DEF idVars, shared
  <2> QED BY <2>1, <2>3, <2>5, <2>6 DEF IdNext
<1> QED BY <1>1, <1>2, IdTyping, PTL DEF IdSpec

\* What was issued has the fields of an identifier.
LEMMA IssuedFields ==
  ASSUME IdTypes, NEW i \in DOMAIN issued
  PROVE  issued[i].era \in Nat /\ issued[i].time \in Times /\ issued[i].alone \in BOOLEAN
<1> DEFINE R == [id : [Positions -> 0..(Base - 1)], time : Times, alone : BOOLEAN, era : 0..MaxSetBacks]
<1>1. \A r \in R : r.era \in 0..MaxSetBacks /\ r.time \in Times /\ r.alone \in BOOLEAN
  OBVIOUS
<1>2. issued \in Seq(R)
  BY DEF IdTypes
<1> HIDE DEF R
<1>3. issued[i] \in R
  BY <1>2
<1> QED BY <1>1, <1>3

\* The identifier that a call returns joins those that were issued.
LEMMA Issues ==
  ASSUME NEW g \in Callers, IdTypes, Returns(g)
  PROVE  /\ Len(issued) \in Nat /\ Len(issued') = Len(issued) + 1
         /\ DOMAIN issued = 1..Len(issued) /\ DOMAIN issued' = 1..(Len(issued) + 1)
         /\ issued'[Len(issued) + 1].id = copied[g] /\ issued'[Len(issued) + 1].time = now[g]
         /\ issued'[Len(issued) + 1].alone = alone[g] /\ issued'[Len(issued) + 1].era = era[g]
         /\ \A i \in 1..Len(issued) : issued'[i] = issued[i]
<1> DEFINE x == [id |-> copied[g], time |-> now[g], alone |-> alone[g], era |-> era[g]]
<1>1. issued' = Append(issued, x) /\ \E R : issued \in Seq(R)
  BY DEF Returns, IdTypes
<1>2. x.id = copied[g] /\ x.time = now[g] /\ x.alone = alone[g] /\ x.era = era[g]
  OBVIOUS
<1> HIDE DEF x
<1>3. /\ Len(issued) \in Nat /\ Len(issued') = Len(issued) + 1
      /\ DOMAIN issued = 1..Len(issued) /\ DOMAIN issued' = 1..(Len(issued) + 1)
      /\ issued'[Len(issued) + 1] = x /\ \A i \in 1..Len(issued) : issued'[i] = issued[i]
  BY <1>1
<1> QED BY <1>2, <1>3

(* While the clock is not set back, no time that was read is ahead of it. *)
THEOREM Clocked == IdSpec => []ClockInv
<1>1. IdInit => ClockInv
  BY DEF IdInit, ClockInv
<1>2. IdTypes /\ ClockInv /\ [IdNext]_idVars => ClockInv'
  <2> SUFFICES ASSUME IdTypes, ClockInv, [IdNext]_idVars PROVE ClockInv'
    OBVIOUS
  <2>0. clock \in Nat /\ setBacks \in Nat /\ \A g \in Callers : now[g] \in Nat /\ era[g] \in Nat
    <3>1. \A t \in Times \union {0} : t \in Nat
      BY IdAssumption DEF IdAssumption
    <3>2. \A n \in 0..MaxSetBacks : n \in Nat
      BY IdAssumption DEF IdAssumption
    <3> QED BY <3>1, <3>2 DEF IdTypes
  <2>1. ASSUME NEW g \in Callers, ReadClock(g) PROVE ClockInv'
    <3>1. /\ stage' = [stage EXCEPT ![g] = "load"] /\ now' = [now EXCEPT ![g] = clock] /\ era' = [era EXCEPT ![g] = setBacks]
          /\ UNCHANGED <<clock, setBacks, issued>>
      BY <2>1 DEF ReadClock, Moves, shared
    <3> QED BY <2>0, <3>1 DEF ClockInv, IdTypes
  <2>2. ASSUME NEW g \in Callers,
               Generate(g) \/ LoadLast(g) \/ Swap(g) \/ Reset(g) \/ Add(g) \/ WriteDigit(g) \/ CopyDigit(g)
        PROVE  ClockInv'
    <3>1. /\ UNCHANGED <<clock, setBacks, issued, now, era>>
          /\ \A h \in Callers : stage'[h] \notin {"idle", "clock"} => stage[h] \notin {"idle", "clock"}
      BY <2>2 DEF Generate, LoadLast, Swap, Reset, Add, WriteDigit, CopyDigit, Moves, shared, IdTypes
    <3> QED BY <3>1 DEF ClockInv
  <2>3. ASSUME NEW g \in Callers, Returns(g) PROVE ClockInv'
    <3>1. /\ stage[g] = "copy" /\ stage' = [stage EXCEPT ![g] = "idle"] /\ UNCHANGED <<clock, setBacks>>
          /\ now' = [now EXCEPT ![g] = 0] /\ era' = [era EXCEPT ![g] = 0]
      BY <2>3 DEF Returns, Moves, shared
    <3>2. \A h \in Callers : stage'[h] \notin {"idle", "clock"} =>
            stage[h] \notin {"idle", "clock"} /\ now'[h] = now[h] /\ era'[h] = era[h]
      BY <3>1 DEF IdTypes
    <3>3. /\ Len(issued) \in Nat /\ DOMAIN issued = 1..Len(issued) /\ DOMAIN issued' = 1..(Len(issued) + 1)
          /\ issued'[Len(issued) + 1].time = now[g] /\ issued'[Len(issued) + 1].era = era[g]
          /\ \A i \in 1..Len(issued) : issued'[i] = issued[i]
      BY <2>3, Issues
    <3>4. era[g] <= setBacks /\ (era[g] = setBacks => now[g] <= clock)
      BY <3>1 DEF ClockInv
    <3>5. ASSUME NEW i \in 1..(Len(issued) + 1)
          PROVE  issued'[i].era <= setBacks /\ (issued'[i].era = setBacks => issued'[i].time <= clock)
      <4>1. i = Len(issued) + 1 \/ i \in 1..Len(issued)
        BY <3>3
      <4>2. CASE i = Len(issued) + 1
        BY <3>3, <3>4, <4>2
      <4>3. CASE i \in 1..Len(issued)
        BY <3>3, <4>3 DEF ClockInv
      <4> QED BY <4>1, <4>2, <4>3
    <3> QED BY <3>1, <3>2, <3>3, <3>5 DEF ClockInv
  <2>4. ASSUME NEW t \in Times, SetClock(t) PROVE ClockInv'
    <3>1. /\ clock' = t /\ t # clock /\ t \in Nat /\ setBacks' = (IF t < clock THEN setBacks + 1 ELSE setBacks)
          /\ UNCHANGED <<stage, now, era, issued>>
      BY <2>4, IdAssumption DEF IdAssumption, SetClock
    <3>2. \A e \in Nat, n \in Nat : e <= setBacks /\ (e = setBacks => n <= clock) => e <= setBacks' /\ (e = setBacks' => n <= clock')
      BY <2>0, <3>1
    <3>3. \A i \in DOMAIN issued : issued[i].era \in Nat /\ issued[i].time \in Nat
      BY IssuedFields, IdAssumption DEF IdAssumption
    <3>4. \A i \in DOMAIN issued : issued[i].era <= setBacks' /\ (issued[i].era = setBacks' => issued[i].time <= clock')
      BY <3>2, <3>3 DEF ClockInv
    <3>5. \A g \in Callers : stage[g] \notin {"idle", "clock"} => era[g] <= setBacks' /\ (era[g] = setBacks' => now[g] <= clock')
      BY <2>0, <3>2 DEF ClockInv
    <3> QED BY <3>1, <3>4, <3>5 DEF ClockInv
  <2>5. CASE UNCHANGED idVars
    BY <2>5 DEF idVars, shared, ClockInv
  <2> QED BY <2>1, <2>2, <2>3, <2>4, <2>5 DEF IdNext, Step
<1> QED BY <1>1, <1>2, IdTyping, PTL DEF IdSpec

\* A call that is alone is the only one to make a step.
LEMMA OneAlone ==
  ASSUME IdTypes, AloneInv, NEW g \in Callers
  PROVE  /\ Step(g) => \A h \in Callers : alone'[h] => h = g /\ alone[g]
         /\ Generate(g) => \A h \in Callers : alone'[h] => h = g
<1>1. ASSUME Step(g) PROVE \A h \in Callers : alone'[h] => h = g /\ alone[g]
  <2>1. stage[g] # "idle"
    BY <1>1 DEF Step, ReadClock, LoadLast, Swap, Reset, Add, WriteDigit, CopyDigit, Returns, Moves
  <2>2. \A h \in Callers : alone'[h] => alone[h]
    BY <1>1 DEF Step, ReadClock, LoadLast, Swap, Reset, Add, WriteDigit, CopyDigit, Returns, shared, IdTypes
  <2>3. \A h \in Callers : alone[h] => h = g
    BY <2>1 DEF AloneInv, Undisturbed, Busy
  <2> QED BY <2>2, <2>3
<1>2. ASSUME Generate(g), NEW h \in Callers, alone'[h], h # g PROVE FALSE
  <2>1. alone[h] /\ ~Busy(h)
    BY <1>2 DEF Generate
  <2> QED BY <2>1 DEF AloneInv, Undisturbed
<1> QED BY <1>1, <1>2

\* The steps that leave lastTime alone and do not reset the counter.
LEMMA QuietStep ==
  ASSUME IdTypes, NEW i \in DOMAIN issued, Quiet(i), NEW g \in Callers,
         Generate(g) \/ ReadClock(g) \/ LoadLast(g) \/ Add(g) \/ WriteDigit(g) \/ CopyDigit(g) \/ Returns(g)
  PROVE  Quiet(i)'
<1>1. PICK s \in 0..counter : /\ issued[i].id = IdOf(issued[i].time, s % 2^CounterBits)
                              /\ counter = s + (Len(issued) - i) + Cardinality(Counted)
  BY DEF Quiet
<1>2. /\ Counted \in SUBSET Callers /\ Cardinality(Counted) \in Nat /\ counter \in Nat
      /\ Len(issued) \in Nat /\ DOMAIN issued = 1..Len(issued)
  <2>1. Counted \in SUBSET Callers
    BY DEF Counted
  <2>2. Cardinality(Counted) \in Nat
    BY <2>1, CallersCounted
  <2> QED BY <2>1, <2>2 DEF IdTypes
<1>3. ASSUME UNCHANGED <<lastTime, counter, issued, Counted>> PROVE Quiet(i)'
  BY <1>3 DEF Quiet, IdOf
<1>4. CASE Generate(g) \/ ReadClock(g) \/ LoadLast(g) \/ WriteDigit(g) \/ CopyDigit(g)
  <2>1. UNCHANGED <<lastTime, counter, issued>>
    BY <1>4 DEF Generate, ReadClock, LoadLast, WriteDigit, CopyDigit, shared
  <2>2. Counted' = Counted
    BY <1>4, CountedSteps
  <2> QED BY <1>3, <2>1, <2>2
<1>5. CASE Add(g)
  <2>1. counter' = counter + 1 /\ UNCHANGED <<lastTime, issued>>
    BY <1>5 DEF Add
  <2>2. g \notin Counted /\ Counted' = Counted \union {g}
    BY <1>5, CountedSteps
  <2>3. Cardinality(Counted') = Cardinality(Counted) + 1
    BY <1>2, <2>2, CallersCounted
  <2>4. s \in 0..counter' /\ counter' = s + (Len(issued') - i) + Cardinality(Counted')
    BY <1>1, <1>2, <2>1, <2>3
  <2> QED BY <1>1, <2>1, <2>4 DEF Quiet, IdOf
<1>6. CASE Returns(g)
  <2>1. UNCHANGED <<lastTime, counter>>
    BY <1>6 DEF Returns, shared
  <2>2. g \in Counted /\ Counted' = Counted \ {g}
    BY <1>6, CountedSteps
  <2>3. Cardinality(Counted') = Cardinality(Counted) - 1
    BY <1>2, <2>2, CallersCounted
  <2>4. Len(issued') = Len(issued) + 1 /\ issued'[i] = issued[i]
    BY <1>2, <1>6, Issues
  <2>5. s \in 0..counter' /\ counter' = s + (Len(issued') - i) + Cardinality(Counted')
    BY <1>1, <1>2, <2>1, <2>3, <2>4
  <2> QED BY <1>1, <2>1, <2>4, <2>5 DEF Quiet, IdOf
<1> QED BY <1>4, <1>5, <1>6

\* What a call that overlapped no other returns.
LEMMA AloneReturns ==
  ASSUME IdTypes, LocalInv, AloneInv, NEW g \in Callers, Returns(g), alone[g]
  PROVE  /\ copied[g] = IdOf(now[g], count[g]) /\ count[g] = counter % 2^CounterBits /\ lastTime = now[g]
         /\ Counted = {g} /\ \A h \in Callers : h # g => stage[h] = "idle"
         /\ stage[g] = "copy" /\ now[g] \in Times /\ count[g] \in Counts
<1>1. stage[g] = "copy" /\ Len(copied[g]) = Digits /\ copied[g] \in Seq(0..(Base - 1))
  BY DEF Returns, Moves, IdTypes
<1>2. Undisturbed(g)
  BY DEF AloneInv
<1>3. copied[g] = [i \in Positions |-> copied[g][i]]
  BY <1>1 DEF Positions
<1>4. \A i \in Positions : copied[g][i] = Digit(Encode(now[g], count[g]), i)
  <2>1. \A i \in Positions : i <= Len(copied[g])
    BY <1>1, IdAssumption DEF IdAssumption, Positions
  <2> QED BY <1>1, <1>2, <2>1 DEF Undisturbed
<1>5. \A h \in Callers : h # g => stage[h] = "idle"
  BY <1>2 DEF Undisturbed, Busy
<1>6. Counted = {g}
  BY <1>1, <1>5 DEF Counted
<1>7. copied[g] = IdOf(now[g], count[g])
  BY <1>3, <1>4 DEF IdOf
<1>8. count[g] = counter % 2^CounterBits /\ lastTime = now[g]
  BY <1>1, <1>2 DEF Undisturbed
<1>9. now[g] \in Times /\ count[g] \in Counts
  BY <1>1 DEF LocalInv, IdTypes
<1> QED BY <1>1, <1>5, <1>6, <1>7, <1>8, <1>9

\* A number and a later one leave the same rest only a whole round apart.
LEMMA Round ==
  ASSUME NEW n \in Nat \ {0}, NEW a \in Nat, NEW d \in Nat \ {0}, a % n = (a + d) % n
  PROVE  d >= n
<1> DEFINE p == a \div n
           q == (a + d) \div n
<1>1. p \in Int /\ q \in Int /\ a = n * p + (a % n) /\ a + d = n * q + ((a + d) % n)
  OBVIOUS
<1> HIDE DEF p, q
<1>2. d = n * q - n * p
  BY <1>1
<1>3. n * q - n * p = n * (q - p)
  BY <1>1
<1>4. q - p >= 1
  <2>1. q - p <= 0 => n * (q - p) <= 0
    BY <1>1
  <2> QED BY <1>1, <1>2, <1>3, <2>1
<1>5. n * (q - p) >= n
  BY <1>1, <1>4
<1> QED BY <1>2, <1>3, <1>5

(* After an identifier whose call overlapped no other one, the counter is only counted up as long *)
(* as its millisecond lasts: no stale time is left in any call that could set lastTime back.      *)
THEOREM Quieting == IdSpec => []QuietInv
<1>1. IdInit => QuietInv
  BY DEF IdInit, QuietInv
<1>2. IdTypes /\ LocalInv /\ AloneInv /\ ClockInv /\ QuietInv /\ [IdNext]_idVars => QuietInv'
  <2> SUFFICES ASSUME IdTypes, LocalInv, AloneInv, ClockInv, QuietInv, [IdNext]_idVars PROVE QuietInv'
    OBVIOUS
  <2>1. ASSUME UNCHANGED <<issued, setBacks, clock>>,
               NEW i \in DOMAIN issued, issued[i].alone,
               issued[i].era = setBacks /\ issued[i].time = clock /\ Current(i) => Current(i)',
               \A g \in Callers : alone'[g] /\ stage'[g] # "clock" /\ era'[g] = issued[i].era => Follows(g, i)'
        PROVE  /\ \E c \in Counts : issued'[i].id = IdOf(issued'[i].time, c)
               /\ issued'[i].era = setBacks' /\ issued'[i].time = clock' => Current(i)'
               /\ \A g \in Callers : alone'[g] /\ stage'[g] # "clock" /\ era'[g] = issued'[i].era => Follows(g, i)'
    BY <2>1 DEF QuietInv
  <2>2. ASSUME UNCHANGED <<issued, setBacks, clock>>,
               \A i \in DOMAIN issued : issued[i].alone =>
                 /\ issued[i].era = setBacks /\ issued[i].time = clock /\ Current(i) => Current(i)'
                 /\ \A g \in Callers : alone'[g] /\ stage'[g] # "clock" /\ era'[g] = issued[i].era => Follows(g, i)'
        PROVE  QuietInv'
    <3>1. \A i, c : IdOf(issued[i].time, c)' = IdOf(issued[i].time, c)
      BY <2>2 DEF IdOf
    <3> QED BY <2>1, <2>2, <3>1 DEF QuietInv
  <2>3. ASSUME NEW g \in Callers, Generate(g) PROVE QuietInv'
    <3>1. /\ UNCHANGED <<shared, issued, now>> /\ stage[g] = "idle" /\ stage' = [stage EXCEPT ![g] = "clock"]
      BY <2>3 DEF Generate, Moves
    <3>2. \A h \in Callers : alone'[h] => stage'[h] = "clock"
      BY <2>3, <3>1, OneAlone DEF IdTypes
    <3>3. ASSUME NEW i \in DOMAIN issued, Current(i) PROVE Current(i)'
      <4>1. Quiet(i)'
        BY <2>3, <3>3, QuietStep DEF Current
      <4> QED BY <3>1, <3>3, <4>1 DEF Current, IdTypes, shared
    <3> QED BY <2>2, <3>1, <3>2, <3>3 DEF shared
  <2>4. ASSUME NEW g \in Callers, ReadClock(g) PROVE QuietInv'
    <3>1. /\ UNCHANGED <<shared, issued>> /\ stage[g] = "clock" /\ stage' = [stage EXCEPT ![g] = "load"]
          /\ now' = [now EXCEPT ![g] = clock] /\ era' = [era EXCEPT ![g] = setBacks]
      BY <2>4 DEF ReadClock, Moves
    <3>2. \A h \in Callers : alone'[h] => h = g
      BY <2>4, OneAlone DEF Step
    <3>3. ASSUME NEW i \in DOMAIN issued, Current(i) PROVE Current(i)'
      <4>1. Quiet(i)'
        BY <2>4, <3>3, QuietStep DEF Current
      <4> QED BY <3>1, <3>3, <4>1 DEF Current, IdTypes, shared
    <3>4. ASSUME NEW i \in DOMAIN issued, issued[i].alone, era'[g] = issued[i].era PROVE Follows(g, i)'
      <4>1. now'[g] = clock /\ issued[i].era = setBacks /\ stage'[g] = "load"
        BY <3>1, <3>4 DEF IdTypes
      <4>2. issued[i].time <= clock
        BY <4>1 DEF ClockInv
      <4>3. issued[i].time = clock => Quiet(i)'
        BY <2>4, <3>4, <4>1, QuietStep DEF QuietInv, Current
      <4> QED BY <3>1, <4>1, <4>2, <4>3 DEF Follows
    <3> QED BY <2>2, <3>1, <3>2, <3>3, <3>4 DEF shared
  <2>5. ASSUME NEW g \in Callers, LoadLast(g) \/ Add(g) \/ WriteDigit(g) \/ CopyDigit(g) PROVE QuietInv'
    <3>1. /\ UNCHANGED <<issued, now, clock, setBacks, era>> /\ stage[g] \notin {"idle", "clock"}
          /\ \A h \in Callers : h # g => stage'[h] = stage[h]
      BY <2>5 DEF LoadLast, Add, WriteDigit, CopyDigit, Moves, shared, IdTypes
    <3>2. \A h \in Callers : alone'[h] => h = g /\ alone[g]
      BY <2>5, OneAlone DEF Step
    <3>3. /\ stage'[g] # "reset"
          /\ lastTime = now[g] => stage'[g] # "swap"
      <4>1. counter + 1 \in Nat
        BY DEF IdTypes
      <4>2. ~Overflows(counter + 1)
        BY <4>1, InRange
      <4> QED BY <2>5, <4>2 DEF LoadLast, Add, WriteDigit, CopyDigit, Moves, IdTypes
    <3>4. ASSUME NEW i \in DOMAIN issued, Current(i), issued[i].time = clock PROVE Current(i)'
      <4>1. Quiet(i)'
        BY <2>5, <3>4, QuietStep DEF Current
      <4>2. now[g] = clock /\ lastTime = clock
        BY <3>1, <3>4 DEF Current, Quiet
      <4> QED BY <3>1, <3>3, <3>4, <4>1, <4>2 DEF Current
    <3>5. ASSUME NEW i \in DOMAIN issued, issued[i].alone, alone[g], era'[g] = issued[i].era PROVE Follows(g, i)'
      <4>1. Follows(g, i)
        BY <3>1, <3>5 DEF QuietInv
      <4>2. ASSUME issued[i].time = now[g] PROVE Quiet(i)' /\ stage'[g] \notin {"swap", "reset"}
        <5>1. Quiet(i)
          BY <4>1, <4>2 DEF Follows
        <5>2. lastTime = now[g]
          BY <4>2, <5>1 DEF Quiet
        <5> QED BY <2>5, <3>3, <5>1, <5>2, QuietStep
      <4> QED BY <3>1, <4>1, <4>2 DEF Follows
    <3> QED BY <2>2, <3>1, <3>2, <3>4, <3>5
  <2>6. ASSUME NEW g \in Callers, Swap(g) \/ Reset(g) PROVE QuietInv'
    <3>1. /\ UNCHANGED <<issued, now, clock, setBacks, era>> /\ stage[g] \in {"swap", "reset"}
      BY <2>6 DEF Swap, Reset, Moves
    <3>2. \A h \in Callers : alone'[h] => h = g /\ alone[g]
      BY <2>6, OneAlone DEF Step
    <3>3. \A i \in DOMAIN issued : ~Current(i)
      BY <3>1 DEF Current
    <3>4. ASSUME NEW i \in DOMAIN issued, issued[i].alone, alone[g], era'[g] = issued[i].era PROVE Follows(g, i)'
      <4>1. Follows(g, i)
        BY <3>1, <3>4 DEF QuietInv
      <4> QED BY <3>1, <4>1 DEF Follows
    <3> QED BY <2>2, <3>1, <3>2, <3>3, <3>4
  <2>7. ASSUME NEW g \in Callers, Returns(g) PROVE QuietInv'
    <3>1. /\ UNCHANGED <<clock, setBacks, lastTime, counter>> /\ stage' = [stage EXCEPT ![g] = "idle"]
          /\ now' = [now EXCEPT ![g] = 0] /\ alone' = [alone EXCEPT ![g] = FALSE]
      BY <2>7 DEF Returns, Moves, shared
    <3>2. \A h \in Callers : ~alone'[h]
      <4>1. \A h \in Callers : alone'[h] => h = g
        BY <2>7, OneAlone DEF Step
      <4> QED BY <3>1, <4>1 DEF IdTypes
    <3>3. /\ Len(issued) \in Nat /\ Len(issued') = Len(issued) + 1
          /\ DOMAIN issued = 1..Len(issued) /\ DOMAIN issued' = 1..(Len(issued) + 1)
          /\ issued'[Len(issued) + 1].id = copied[g] /\ issued'[Len(issued) + 1].time = now[g]
          /\ issued'[Len(issued) + 1].alone = alone[g] /\ issued'[Len(issued) + 1].era = era[g]
          /\ \A i \in 1..Len(issued) : issued'[i] = issued[i]
      BY <2>7, Issues
    <3>4. ASSUME NEW i \in 1..Len(issued), issued[i].alone
          PROVE  /\ \E c \in Counts : issued'[i].id = IdOf(issued'[i].time, c)
                 /\ issued'[i].era = setBacks' /\ issued'[i].time = clock' => Current(i)'
      <4>1. issued'[i] = issued[i]
        BY <3>3
      <4>2. \E c \in Counts : issued[i].id = IdOf(issued[i].time, c)
        BY <3>3, <3>4 DEF QuietInv
      <4>3. ASSUME issued[i].era = setBacks, issued[i].time = clock PROVE Current(i)'
        <5>1. Current(i)
          BY <3>3, <3>4, <4>3 DEF QuietInv
        <5>2. Quiet(i)'
          BY <2>7, <3>3, <5>1, QuietStep DEF Current
        <5> QED BY <3>1, <5>1, <5>2 DEF Current, IdTypes
      <4> QED BY <3>1, <4>1, <4>2, <4>3
    <3>5. ASSUME alone[g], NEW i \in {Len(issued) + 1}
          PROVE  /\ \E c \in Counts : issued'[i].id = IdOf(issued'[i].time, c)
                 /\ Current(i)'
      <4>1. /\ copied[g] = IdOf(now[g], count[g]) /\ count[g] = counter % 2^CounterBits /\ lastTime = now[g]
            /\ Counted = {g} /\ \A h \in Callers : h # g => stage[h] = "idle"
            /\ stage[g] = "copy" /\ now[g] \in Times /\ count[g] \in Counts
        BY <2>7, <3>5, AloneReturns
      <4>2. \E c \in Counts : issued'[i].id = IdOf(issued'[i].time, c)
        BY <3>3, <4>1
      <4>3. Counted' = {}
        BY <2>7, <4>1, CountedSteps
      <4>4. Cardinality(Counted') = 0
        BY <4>3, FS_EmptySet
      <4>5. counter \in Nat /\ counter = counter + (Len(issued') - i) + Cardinality(Counted')
        BY <3>3, <4>4 DEF IdTypes
      <4>6. issued'[i].id = IdOf(issued'[i].time, counter % 2^CounterBits) /\ issued'[i].time = lastTime
        BY <3>3, <4>1
      <4>7. Quiet(i)'
        <5>1. counter \in 0..counter
          BY <4>5
        <5>2. \A c : IdOf(issued[i].time, c)' = IdOf(issued'[i].time, c)
          BY DEF IdOf
        <5>3. /\ lastTime' = issued'[i].time
              /\ \E s \in 0..counter' : /\ issued'[i].id = IdOf(issued'[i].time, s % 2^CounterBits)
                                       /\ counter' = s + (Len(issued') - i) + Cardinality(Counted')
          BY <3>1, <4>5, <4>6, <5>1
        <5> QED BY <5>2, <5>3 DEF Quiet
      <4>8. \A h \in Callers : stage'[h] = "idle"
        BY <3>1, <4>1 DEF IdTypes
      <4> QED BY <4>2, <4>7, <4>8 DEF Current
    <3>6. ASSUME NEW i \in 1..(Len(issued) + 1), issued'[i].alone
          PROVE  /\ \E c \in Counts : issued'[i].id = IdOf(issued'[i].time, c)
                 /\ issued'[i].era = setBacks' /\ issued'[i].time = clock' => Current(i)'
      <4>1. i = Len(issued) + 1 \/ i \in 1..Len(issued)
        BY <3>3
      <4>2. CASE i = Len(issued) + 1
        BY <3>3, <3>5, <3>6, <4>2
      <4>3. CASE i \in 1..Len(issued)
        BY <3>3, <3>4, <3>6, <4>3
      <4> QED BY <4>1, <4>2, <4>3
    <3>7. \A i, c : IdOf(issued[i].time, c)' = IdOf(issued'[i].time, c)
      BY DEF IdOf
    <3> QED BY <3>2, <3>3, <3>6, <3>7 DEF QuietInv
  <2>8. ASSUME UNCHANGED <<lastTime, counter, stage, now, alone, era, issued>>,
               UNCHANGED <<clock, setBacks>> \/ (setBacks' > setBacks) \/ (setBacks' = setBacks /\ clock' > clock)
        PROVE  QuietInv'
    <3>1. \A i : Quiet(i)' = Quiet(i)
      BY <2>8 DEF Quiet, IdOf, Counted
    <3>2. ASSUME NEW i \in DOMAIN issued, issued[i].era = setBacks', issued[i].time = clock'
          PROVE  UNCHANGED <<clock, setBacks>>
      <4>1. issued[i].era <= setBacks /\ (issued[i].era = setBacks => issued[i].time <= clock)
        BY DEF ClockInv
      <4>2. issued[i].era \in Nat /\ issued[i].time \in Nat /\ clock \in Nat /\ setBacks \in Nat
        <5>1. \A t \in Times : t \in Nat
          BY IdAssumption DEF IdAssumption
        <5>2. \A n \in 0..MaxSetBacks : n \in Nat
          BY IdAssumption DEF IdAssumption
        <5>3. clock \in Times /\ setBacks \in 0..MaxSetBacks
          BY DEF IdTypes
        <5> QED BY <5>1, <5>2, <5>3, IssuedFields
      <4> QED BY <2>8, <3>2, <4>1, <4>2
    <3>3. \A g, i : Follows(g, i)' = Follows(g, i)
      BY <2>8, <3>1 DEF Follows
    <3>4. UNCHANGED clock => \A i : Current(i)' = Current(i)
      BY <2>8, <3>1 DEF Current
    <3>5. \A i, c : IdOf(issued[i].time, c)' = IdOf(issued[i].time, c)
      BY <2>8 DEF IdOf
    <3>6. ASSUME NEW i \in DOMAIN issued, issued[i].alone, issued[i].era = setBacks', issued[i].time = clock'
          PROVE  Current(i)'
      BY <3>2, <3>4, <3>6 DEF QuietInv
    <3>7. \A i \in DOMAIN issued : issued[i].alone =>
            /\ \E c \in Counts : issued[i].id = IdOf(issued[i].time, c)
            /\ \A g \in Callers : alone[g] /\ stage[g] # "clock" /\ era[g] = issued[i].era => Follows(g, i)'
      BY <3>3 DEF QuietInv
    <3> QED BY <2>8, <3>5, <3>6, <3>7 DEF QuietInv
  <2>9. ASSUME NEW t \in Times, SetClock(t) PROVE QuietInv'
    <3>1. clock' = t /\ t # clock /\ setBacks' = (IF t < clock THEN setBacks + 1 ELSE setBacks)
          /\ UNCHANGED <<lastTime, counter, stage, now, alone, era, issued>>
      BY <2>9 DEF SetClock
    <3>2. t \in Nat /\ clock \in Nat /\ setBacks \in Nat
      BY IdAssumption DEF IdAssumption, IdTypes
    <3>3. (setBacks' > setBacks) \/ (setBacks' = setBacks /\ clock' > clock)
      BY <3>1, <3>2
    <3> QED BY <2>8, <3>1, <3>3
  <2>10. CASE UNCHANGED idVars
    BY <2>8, <2>10 DEF idVars, shared
  <2> QED BY <2>3, <2>4, <2>5, <2>6, <2>7, <2>9, <2>10 DEF IdNext, Step
<1> QED BY <1>1, <1>2, IdTyping, Undisturbing, Clocked, PTL DEF IdSpec

(* Two calls that overlapped no other one return different identifiers, but for the causes named: *)
(* whatever overlapped in between.                                                                *)
THEOREM Duplicates == IdSpec => []DuplicatesHaveACause
<1>1. IdInit => DuplicatesHaveACause
  BY DEF IdInit, DuplicatesHaveACause
<1>2. IdTypes /\ LocalInv /\ AloneInv /\ QuietInv /\ DuplicatesHaveACause /\ [IdNext]_idVars => DuplicatesHaveACause'
  <2> SUFFICES ASSUME IdTypes, LocalInv, AloneInv, QuietInv, DuplicatesHaveACause, [IdNext]_idVars
               PROVE  DuplicatesHaveACause'
    OBVIOUS
  <2>1. ASSUME UNCHANGED issued PROVE DuplicatesHaveACause'
    BY <2>1 DEF DuplicatesHaveACause
  <2>2. ASSUME NEW g \in Callers, Returns(g) PROVE DuplicatesHaveACause'
    <3> DEFINE j == Len(issued) + 1
    <3>1. /\ Len(issued) \in Nat /\ DOMAIN issued = 1..Len(issued) /\ DOMAIN issued' = 1..j
          /\ issued'[j].id = copied[g] /\ issued'[j].time = now[g] /\ issued'[j].alone = alone[g] /\ issued'[j].era = era[g]
          /\ \A i \in 1..Len(issued) : issued'[i] = issued[i]
      BY <2>2, Issues
    <3>2. ASSUME NEW i \in 1..Len(issued), issued[i].id = copied[g], issued[i].alone, alone[g], issued[i].era = era[g]
          PROVE  now[g] - issued[i].time >= Window \/ j - i >= 2^CounterBits
      <4>1. /\ copied[g] = IdOf(now[g], count[g]) /\ count[g] = counter % 2^CounterBits /\ Counted = {g}
            /\ stage[g] = "copy" /\ now[g] \in Times /\ count[g] \in Counts
        BY <2>2, <3>2, AloneReturns
      <4>2. Follows(g, i) /\ \E c \in Counts : issued[i].id = IdOf(issued[i].time, c)
        BY <3>1, <3>2, <4>1 DEF QuietInv
      <4>3. issued[i].time \in Times /\ issued[i].time \in Nat /\ now[g] \in Nat /\ issued[i].time <= now[g] /\ Window \in Nat
        BY <3>1, <4>1, <4>2, IssuedFields, IdAssumption DEF IdAssumption, Follows
      <4>4. ASSUME NEW c \in Counts, NEW d \in Counts, IdOf(issued[i].time, c) = IdOf(now[g], d),
                   ~(now[g] - issued[i].time >= Window)
            PROVE  issued[i].time = now[g] /\ c = d
        <5>1. \A k \in Positions : Digit(Encode(issued[i].time, c), k) = Digit(Encode(now[g], d), k)
          BY <4>4 DEF IdOf
        <5>2. now[g] - issued[i].time < Window
          BY <4>3, <4>4
        <5>3. <<issued[i].time, c>> = <<now[g], d>>
          BY <4>1, <4>3, <5>1, <5>2, WidthAssumption DEF WidthAssumption
        <5> QED BY <5>3
      <4>5. CASE issued[i].time # now[g]
        <5>1. PICK c \in Counts : issued[i].id = IdOf(issued[i].time, c)
          BY <4>2
        <5>2. IdOf(issued[i].time, c) = IdOf(now[g], count[g])
          BY <3>2, <4>1, <5>1
        <5> QED BY <4>1, <4>4, <4>5, <5>2
      <4>6. CASE issued[i].time = now[g]
        <5>1. Quiet(i)
          BY <4>2, <4>6 DEF Follows
        <5>2. PICK s \in 0..counter : /\ issued[i].id = IdOf(issued[i].time, s % 2^CounterBits)
                                      /\ counter = s + (Len(issued) - i) + Cardinality(Counted)
          BY <5>1 DEF Quiet
        <5>3. Cardinality(Counted) = 1
          BY <4>1, FS_Singleton
        <5>4. s \in Nat /\ counter \in Nat /\ j - i \in Nat \ {0} /\ counter = s + (j - i)
          BY <3>1, <5>2, <5>3 DEF IdTypes
        <5>5. s % 2^CounterBits \in Counts
          BY <5>4, InRange
        <5>6. IdOf(issued[i].time, s % 2^CounterBits) = IdOf(now[g], count[g])
          BY <3>2, <4>1, <5>2
        <5>7. ASSUME ~(now[g] - issued[i].time >= Window) PROVE j - i >= 2^CounterBits
          <6>1. s % 2^CounterBits = counter % 2^CounterBits
            BY <4>1, <4>4, <5>5, <5>6, <5>7
          <6> DEFINE d == j - i
                     n == 2^CounterBits
          <6>2. s % n = (s + d) % n /\ n \in Nat \ {0} /\ d \in Nat \ {0}
            BY <5>4, <6>1, PowerAssumption DEF PowerAssumption
          <6> HIDE DEF d, n
          <6>3. d >= n
            BY <5>4, <6>2, Round
          <6> QED BY <6>3 DEF d, n
        <5> QED BY <5>7
      <4> QED BY <4>5, <4>6
    <3>3. ASSUME NEW i \in 1..j, NEW k \in 1..j, i < k, issued'[i].id = issued'[k].id,
                 issued'[i].alone, issued'[k].alone, issued'[i].era = issued'[k].era
          PROVE  issued'[k].time - issued'[i].time >= Window \/ k - i >= 2^CounterBits
      <4>1. i \in 1..Len(issued) /\ (k = j \/ k \in 1..Len(issued))
        BY <3>1, <3>3
      <4>2. CASE k = j
        BY <3>1, <3>2, <3>3, <4>1, <4>2
      <4>3. CASE k \in 1..Len(issued)
        BY <3>1, <3>3, <4>1, <4>3 DEF DuplicatesHaveACause
      <4> QED BY <4>1, <4>2, <4>3
    <3> HIDE DEF j
    <3> QED BY <3>1, <3>3 DEF DuplicatesHaveACause
  <2> QED BY <2>1, <2>2 DEF IdNext, Step, Generate, ReadClock, LoadLast, Swap, Reset, Add, WriteDigit, CopyDigit, SetClock, idVars, shared
<1> QED BY <1>1, <1>2, IdTyping, Undisturbing, Quieting, PTL DEF IdSpec
=============================================================================
