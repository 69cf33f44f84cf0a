---------------------------- MODULE Services_proof ----------------------------
(* Proofs about LocalCache, for any number of goroutines, any time to live, any timeout and    *)
(* any number of waiting Sets, and about PubSub, for any subscriptions, messages, attempts and *)
(* faults.  (The two share no variable.)                                                       *)
EXTENDS LocalCache, PubSub, FiniteSetTheorems, FunctionTheorems, TLAPS

-------------------------------------------------------------------------------
(* The inductive invariants of LocalCache, as named parts. *)

\* A goroutine that uses a cache has one.
CacheInv ==
  \A g \in Procs :
    /\ pc[g] = "assigned" => defaultCache \in Procs
    /\ pc[g] \in {"look", "fetch", "set"} => cache[g] \in Procs
    /\ pc[g] = "set" => answer[g] \in Entry

\* An entry that was read in the past and will be gone in time.
Bounded(e) == e.version <= version /\ e.read <= now /\ e.expires <= e.read + Timeout + TTL

\* So are all that are in a cache or wait for it; and no read of a source takes too long.
TimeInv ==
  /\ \A c \in Procs :
       /\ stored[c] # None => Bounded(stored[c])
       /\ \A i \in 1..Len(setBuf[c]) : Bounded(setBuf[c][i])
  /\ \A g \in Reading : since[g] <= now /\ now - since[g] <= Timeout
  /\ \A g \in Procs : pc[g] = "set" =>
       since[g] <= answer[g].read /\ answer[g].read <= now /\ answer[g].version <= version

\* Nobody knows more than the sources, nor a caller more than everybody.
KnownInv ==
  /\ newest <= version
  /\ \A g \in Procs : floor[g] <= newest

\* As long as no reads crossed: one default cache, one read at a time while no Set waits;
\* what is stored or waits is the newest that was answered, what was read no older.
SerialInv ==
  /\ \A g \in Procs : cache[g] \in {None, defaultCache}
  /\ \A g, h \in Reading : g = h
  /\ \A c \in Procs :
       /\ Reading # {} => setBuf[c] = <<>>
       /\ setBuf[c] # <<>> => stored[c] = None /\ Len(setBuf[c]) = 1
       /\ \A i \in 1..Len(setBuf[c]) : setBuf[c][i].version = newest
       /\ stored[c] # None => stored[c].version = newest
       /\ c # defaultCache => stored[c] = None /\ setBuf[c] = <<>>
  /\ \A g \in Procs : pc[g] = "set" => answer[g].version >= newest

-------------------------------------------------------------------------------
\* What SetWithTTL leaves in a cache and waiting for it was there before or is the new entry.
LEMMA SetWithTTLKeeps ==
  ASSUME NEW c \in Procs, NEW e \in Entry, CacheTypeOK, SetWithTTL(c, e)
  PROVE  /\ stored' \in [Procs -> Entry \union {None}]
         /\ setBuf' \in [Procs -> Seq(Entry)] /\ \A d \in Procs : Len(setBuf'[d]) <= Buffer
         /\ \A d \in Procs : stored'[d] = stored[d] \/ stored'[d] = e
         /\ \A d \in Procs : \A i \in 1..Len(setBuf'[d]) :
              setBuf'[d][i] = e \/ (i \in 1..Len(setBuf[d]) /\ setBuf'[d][i] = setBuf[d][i])
<1>1. CASE stored[c] # None
  BY <1>1 DEF SetWithTTL, CacheTypeOK
<1>2. CASE stored[c] = None /\ UNCHANGED <<stored, setBuf>>
  BY <1>2 DEF CacheTypeOK
<1>3. CASE stored[c] = None /\ UNCHANGED stored /\ Len(setBuf[c]) < Buffer
           /\ setBuf' = [setBuf EXCEPT ![c] = Append(@, e)]
  <2>1. Append(setBuf[c], e) \in Seq(Entry) /\ Len(Append(setBuf[c], e)) = Len(setBuf[c]) + 1
    BY DEF CacheTypeOK
  <2>2. \A i \in 1..Len(setBuf[c]) + 1 : Append(setBuf[c], e)[i] = IF i = Len(setBuf[c]) + 1 THEN e ELSE setBuf[c][i]
    BY DEF CacheTypeOK
  <2>3. \A d \in Procs : setBuf'[d] = IF d = c THEN Append(setBuf[c], e) ELSE setBuf[d]
    BY <1>3 DEF CacheTypeOK
  <2> QED BY SMTT(30), <1>3, <2>1, <2>2, <2>3, CacheAssumption DEF CacheTypeOK
<1> QED BY <1>1, <1>2, <1>3 DEF SetWithTTL

\* What Admit leaves.
LEMMA AdmitKeeps ==
  ASSUME NEW c \in Procs, CacheTypeOK, Admit(c)
  PROVE  /\ stored' \in [Procs -> Entry \union {None}]
         /\ setBuf' \in [Procs -> Seq(Entry)] /\ \A d \in Procs : Len(setBuf'[d]) <= Buffer
         /\ \A d \in Procs : stored'[d] = stored[d] \/ (d = c /\ stored'[d] = setBuf[d][1])
         /\ 1 \in 1..Len(setBuf[c])
         /\ \A d \in Procs : \A i \in 1..Len(setBuf'[d]) :
              \E j \in 1..Len(setBuf[d]) : setBuf'[d][i] = setBuf[d][j]
         /\ Len(setBuf'[c]) = Len(setBuf[c]) - 1
<1>1. setBuf[c] \in Seq(Entry) /\ setBuf[c] # <<>> /\ Len(setBuf[c]) <= Buffer
  BY DEF Admit, CacheTypeOK
<1>2. Len(setBuf[c]) \in Nat /\ Len(setBuf[c]) >= 1 /\ Head(setBuf[c]) = setBuf[c][1] /\ setBuf[c][1] \in Entry
  BY <1>1
<1>3. Tail(setBuf[c]) \in Seq(Entry) /\ Len(Tail(setBuf[c])) = Len(setBuf[c]) - 1
  BY <1>1
<1>4. \A i \in 1..Len(setBuf[c]) - 1 : Tail(setBuf[c])[i] = setBuf[c][i + 1]
  BY <1>1, <1>2
<1>5. \A d \in Procs : setBuf'[d] = IF d = c THEN Tail(setBuf[c]) ELSE setBuf[d]
  BY DEF Admit, CacheTypeOK
<1>6. \A d \in Procs : \A i \in 1..Len(setBuf'[d]) : \E j \in 1..Len(setBuf[d]) : setBuf'[d][i] = setBuf[d][j]
  <2> TAKE d \in Procs
  <2> TAKE i \in 1..Len(setBuf'[d])
  <2>1. CASE d = c
    <3>1. setBuf'[d] = Tail(setBuf[c]) /\ i \in 1..Len(setBuf[c]) - 1
      BY <2>1, <1>3, <1>5
    <3>2. i + 1 \in 1..Len(setBuf[c]) /\ Tail(setBuf[c])[i] = setBuf[c][i + 1]
      BY <3>1, <1>2, <1>4
    <3> QED BY <3>1, <3>2, <2>1
  <2>2. CASE d # c
    BY <2>2, <1>5
  <2> QED BY <2>1, <2>2
<1>7. stored' \in [Procs -> Entry \union {None}] /\ \A d \in Procs : stored'[d] = stored[d] \/ (d = c /\ stored'[d] = setBuf[d][1])
  BY <1>2 DEF Admit, CacheTypeOK
<1>8. setBuf' \in [Procs -> Seq(Entry)]
  BY <1>3 DEF Admit, CacheTypeOK
<1>9. \A d \in Procs : Len(setBuf'[d]) <= Buffer
  <2> TAKE d \in Procs
  <2>1. CASE d = c
    <3>1. setBuf'[d] = Tail(setBuf[c])
      BY <2>1, <1>5
    <3> QED BY <3>1, <1>1, <1>2, <1>3, CacheAssumption
  <2>2. CASE d # c
    BY <2>2, <1>5 DEF CacheTypeOK
  <2> QED BY <2>1, <2>2
<1>10. Len(setBuf'[c]) = Len(setBuf[c]) - 1 /\ 1 \in 1..Len(setBuf[c])
  <2>1. setBuf'[c] = Tail(setBuf[c])
    BY <1>5
  <2> QED BY <2>1, <1>2, <1>3
<1> QED BY <1>6, <1>7, <1>8, <1>9, <1>10

\* An entry with another expiry.
LEMMA ExpiryOf ==
  ASSUME NEW e \in Entry, NEW x \in 0..MaxTime+TTL
  PROVE  LET f == [e EXCEPT !.expires = x] IN
           f \in Entry /\ f.version = e.version /\ f.read = e.read /\ f.expires = x
<1>1. [e EXCEPT !.expires = x] = [version |-> e.version, read |-> e.read, expires |-> x]
  BY DEF Entry
<1> QED BY <1>1 DEF Entry

\* A goroutine that returns has forgotten the call.
LEMMA ReturnTypes ==
  ASSUME NEW g \in Procs, CacheTypeOK, CacheInv, Return(g), UNCHANGED defaultCache
  PROVE  /\ pc' \in [Procs -> {"idle", "new", "assigned", "look", "fetch", "set"}]
         /\ looks' \in [Procs -> BOOLEAN]
         /\ cache' \in [Procs -> Procs \union {None}] /\ since' \in [Procs -> 0..MaxTime]
         /\ answer' \in [Procs -> Entry \union {None}] /\ floor' \in [Procs -> 0..MaxVersion]
         /\ CacheInv'
BY CacheAssumption DEF Return, Goto, CacheTypeOK, CacheInv

\* Who is answered with e.
LEMMA ReturnValueTypes ==
  ASSUME NEW g \in Procs, NEW e \in Entry, CacheTypeOK, ReturnValue(g, e)
  PROVE  /\ Return(g)
         /\ newest' \in 0..MaxVersion /\ newest' >= newest /\ newest' >= e.version
         /\ newest' \in {newest, e.version}
         /\ oldest' \in 0..MaxTime /\ oldest' \in {oldest, now - e.read}
         /\ back' \in BOOLEAN /\ (back' => back \/ e.version < floor[g])
<1>1. e.version \in 0..MaxVersion /\ e.read \in 0..MaxTime
  BY DEF Entry
<1>2. newest \in 0..MaxVersion /\ oldest \in 0..MaxTime /\ now \in 0..MaxTime /\ back \in BOOLEAN
  BY DEF CacheTypeOK
<1>3. oldest' = IF now - e.read > oldest THEN now - e.read ELSE oldest
  BY DEF ReturnValue
<1>4. newest' = IF e.version > newest THEN e.version ELSE newest
  BY DEF ReturnValue
<1>5. Return(g) /\ back' = (back \/ e.version < floor[g])
  BY DEF ReturnValue
<1> QED BY <1>1, <1>2, <1>3, <1>4, <1>5, CacheAssumption

-------------------------------------------------------------------------------
(* LocalCache is well typed, and who uses a cache has one. *)
THEOREM CacheTyping == CacheSpec => [](CacheTypeOK /\ CacheInv)
<1>1. CacheInit => CacheTypeOK /\ CacheInv
  <2> SUFFICES ASSUME CacheInit PROVE CacheTypeOK /\ CacheInv
    OBVIOUS
  <2> USE CacheAssumption DEF CacheInit
  <2>1. setBuf \in [Procs -> Seq(Entry)] /\ \A c \in Procs : Len(setBuf[c]) <= Buffer
    OBVIOUS
  <2>2. looks \in [Procs -> BOOLEAN] /\ back \in BOOLEAN /\ crossed \in BOOLEAN
    OBVIOUS
  <2> QED BY <2>1, <2>2 DEF CacheTypeOK, CacheInv
<1>2. CacheTypeOK /\ CacheInv /\ [CacheNext]_cacheVars => CacheTypeOK' /\ CacheInv'
  <2> SUFFICES ASSUME CacheTypeOK, CacheInv, [CacheNext]_cacheVars PROVE CacheTypeOK' /\ CacheInv'
    OBVIOUS
  <2> USE CacheAssumption DEF calls, caches, seen, Goto, Reading
  <2>1. CASE UNCHANGED cacheVars
    BY <2>1 DEF cacheVars, CacheTypeOK, CacheInv
  <2>2. CASE Tick \/ Change
    BY SMTT(30), <2>2 DEF Tick, Change, CacheTypeOK, CacheInv
  <2>3. ASSUME NEW c \in Procs, Admit(c) PROVE CacheTypeOK' /\ CacheInv'
    BY <2>3, AdmitKeeps DEF Admit, CacheTypeOK, CacheInv
  <2>4. ASSUME NEW c \in Procs, Evict(c) PROVE CacheTypeOK' /\ CacheInv'
    BY <2>4 DEF Evict, CacheTypeOK, CacheInv
  <2>5. ASSUME NEW g \in Procs, NEW look \in BOOLEAN, Call(g, look) PROVE CacheTypeOK' /\ CacheInv'
    BY <2>5 DEF Call, CacheTypeOK, CacheInv
  <2>6. ASSUME NEW g \in Procs, AssignDefault(g) PROVE CacheTypeOK' /\ CacheInv'
    BY <2>6 DEF AssignDefault, CacheTypeOK, CacheInv
  <2>7. ASSUME NEW g \in Procs, ReadDefault(g) PROVE CacheTypeOK' /\ CacheInv'
    BY <2>7 DEF ReadDefault, CacheTypeOK, CacheInv
  <2>8. ASSUME NEW g \in Procs, TornRead(g) PROVE CacheTypeOK' /\ CacheInv'
    BY <2>8 DEF TornRead, ReturnNil, Return, CacheTypeOK, CacheInv
  <2>9. ASSUME NEW g \in Procs, Hit(g) PROVE CacheTypeOK' /\ CacheInv'
    <3>1. stored[cache[g]] \in Entry
      BY <2>9 DEF Hit, Has, CacheTypeOK, CacheInv
    <3>2. ReturnValue(g, stored[cache[g]]) /\ UNCHANGED <<now, version, caches, crossed>>
      BY <2>9 DEF Hit
    <3>3. newest' \in 0..MaxVersion /\ oldest' \in 0..MaxTime /\ back' \in BOOLEAN /\ Return(g)
      BY <3>1, <3>2, ReturnValueTypes
    <3> QED BY <3>2, <3>3, ReturnTypes DEF CacheTypeOK
  <2>10. ASSUME NEW g \in Procs, Miss(g) PROVE CacheTypeOK' /\ CacheInv'
    BY <2>10 DEF Miss, CacheTypeOK, CacheInv
  <2>11. ASSUME NEW g \in Procs, Fetch(g) PROVE CacheTypeOK' /\ CacheInv'
    <3>1. CASE ReturnNil(g)
      BY <2>11, <3>1, ReturnTypes DEF Fetch, ReturnNil, CacheTypeOK
    <3>2. CASE ~ReturnNil(g)
      <4> DEFINE e == [version |-> version, read |-> now, expires |-> now]
      <4>1. e \in Entry
        BY DEF CacheTypeOK, Entry
      <4>2. /\ pc[g] = "fetch" /\ Goto(g, "set")
            /\ answer' = [answer EXCEPT ![g] = e] /\ UNCHANGED <<looks, cache, since, floor, seen>>
            /\ UNCHANGED <<now, version, caches, crossed>>
        BY <2>11, <3>2 DEF Fetch
      <4> HIDE DEF e
      <4> QED BY <4>1, <4>2 DEF CacheTypeOK, CacheInv
    <3> QED BY <3>1, <3>2
  <2>12. ASSUME NEW g \in Procs, Set(g) PROVE CacheTypeOK' /\ CacheInv'
    <3>1. answer[g] \in Entry /\ cache[g] \in Procs
      BY <2>12 DEF Set, CacheTypeOK, CacheInv
    <3>2. now + TTL \in 0..MaxTime+TTL
      BY DEF CacheTypeOK
    <3>3. [answer[g] EXCEPT !.expires = now + TTL] \in Entry
      BY <3>1, <3>2, ExpiryOf
    <3>4. newest' \in 0..MaxVersion /\ oldest' \in 0..MaxTime /\ back' \in BOOLEAN /\ Return(g)
      BY <2>12, <3>1, ReturnValueTypes DEF Set
    <3>5. /\ stored' \in [Procs -> Entry \union {None}]
          /\ setBuf' \in [Procs -> Seq(Entry)] /\ \A d \in Procs : Len(setBuf'[d]) <= Buffer
      BY <2>12, <3>1, <3>3, SetWithTTLKeeps DEF Set
    <3>6. UNCHANGED <<now, version, defaultCache, crossed>>
      BY <2>12 DEF Set
    <3> QED BY <3>4, <3>5, <3>6, ReturnTypes DEF CacheTypeOK
  <2> QED BY <2>1, <2>2, <2>3, <2>4, <2>5, <2>6, <2>7, <2>8, <2>9, <2>10, <2>11, <2>12 DEF CacheNext
<1> QED BY <1>1, <1>2, PTL DEF CacheSpec

-------------------------------------------------------------------------------
(* What a step leaves of the bounds of TimeInv, when the clock stands still. *)
LEMMA TimeStays ==
  ASSUME CacheTypeOK, CacheInv, TimeInv, UNCHANGED <<now, version>>,
         \A c \in Procs : stored'[c] = stored[c] \/ stored'[c] = None \/ Bounded(stored'[c]),
         \A c \in Procs : \A i \in 1..Len(setBuf'[c]) :
           Bounded(setBuf'[c][i]) \/ \E j \in 1..Len(setBuf[c]) : setBuf'[c][i] = setBuf[c][j],
         \A g \in Procs :
           \/ pc'[g] \notin {"fetch", "set"}
           \/ pc'[g] = pc[g] /\ since'[g] = since[g] /\ answer'[g] = answer[g]
           \/ pc'[g] = "fetch" /\ since'[g] = now
           \/ pc[g] = "fetch" /\ pc'[g] = "set" /\ since'[g] = since[g]
                /\ answer'[g].read = now /\ answer'[g].version = version
  PROVE  TimeInv'
<1>1. \A c \in Procs : stored'[c] # None => Bounded(stored'[c])
  BY DEF TimeInv
<1>2. \A c \in Procs : \A i \in 1..Len(setBuf'[c]) : Bounded(setBuf'[c][i])
  BY DEF TimeInv
<1>4. \A g \in Procs : pc'[g] \in {"fetch", "set"} => since'[g] <= now' /\ now' - since'[g] <= Timeout
  <2> TAKE g \in Procs
  <2> HAVE pc'[g] \in {"fetch", "set"}
  <2>1. now \in Nat /\ since[g] \in Nat
    BY DEF CacheTypeOK
  <2>2. pc[g] \in {"fetch", "set"} => since[g] <= now /\ now - since[g] <= Timeout
    BY DEF TimeInv, Reading
  <2>3. since'[g] = now \/ (pc[g] \in {"fetch", "set"} /\ since'[g] = since[g])
    OBVIOUS
  <2> QED BY <2>1, <2>2, <2>3, CacheAssumption
<1>5. \A g \in Procs : pc'[g] = "set" =>
        since'[g] <= answer'[g].read /\ answer'[g].read <= now' /\ answer'[g].version <= version'
  <2> TAKE g \in Procs
  <2> HAVE pc'[g] = "set"
  <2>1. CASE pc'[g] = pc[g] /\ since'[g] = since[g] /\ answer'[g] = answer[g]
    BY <2>1 DEF TimeInv
  <2>2. CASE pc[g] = "fetch" /\ since'[g] = since[g] /\ answer'[g].read = now /\ answer'[g].version = version
    BY <2>2 DEF TimeInv, Reading, CacheTypeOK
  <2> QED BY <2>1, <2>2
<1> QED BY <1>1, <1>2, <1>4, <1>5 DEF TimeInv, Reading, Bounded

(* What KnownInv needs of a step: newest grows to no more than version, and floor follows it. *)
LEMMA KnownStays ==
  ASSUME CacheTypeOK, CacheTypeOK', KnownInv, version <= version', newest <= newest',
         newest' = newest \/ newest' <= version,
         \A g \in Procs : floor'[g] \in {0, floor[g], newest}
  PROVE  KnownInv'
<1>1. /\ version \in Nat /\ version' \in Nat /\ newest \in Nat /\ newest' \in Nat
      /\ \A g \in Procs : floor[g] \in Nat
  BY DEF CacheTypeOK
<1> QED BY <1>1 DEF KnownInv

(* Whatever is answered was read at most TTL and Timeout ago: a Set happens at most Timeout  *)
(* after the read, a hit at most TTL after the Set; and it is no newer than the sources.     *)
THEOREM Bounds == CacheSpec => [](TimeInv /\ KnownInv /\ AnswerIsRecent)
<1>1. CacheInit => TimeInv /\ KnownInv /\ AnswerIsRecent
  BY CacheAssumption DEF CacheInit, TimeInv, KnownInv, AnswerIsRecent, Reading
<1>2. CacheTypeOK /\ CacheTypeOK' /\ CacheInv /\ TimeInv /\ KnownInv /\ AnswerIsRecent /\ [CacheNext]_cacheVars
        => TimeInv' /\ KnownInv' /\ AnswerIsRecent'
  <2> SUFFICES ASSUME CacheTypeOK, CacheTypeOK', CacheInv, TimeInv, KnownInv, AnswerIsRecent,
                      [CacheNext]_cacheVars
               PROVE  TimeInv' /\ KnownInv' /\ AnswerIsRecent'
    OBVIOUS
  <2> USE CacheAssumption DEF calls, caches, seen, Goto
  <2>1. CASE UNCHANGED cacheVars
    BY <2>1, TimeStays DEF cacheVars, KnownInv, AnswerIsRecent
  <2>2. CASE Tick \/ Change
    <3>1. /\ now \in Nat /\ now' \in Nat /\ now <= now' /\ \A g \in Procs : since[g] \in Nat
          /\ version \in Nat /\ version' \in Nat /\ version <= version'
      BY <2>2 DEF Tick, Change, CacheTypeOK
    <3>2. UNCHANGED <<caches, calls, seen>>
      BY <2>2 DEF Tick, Change
    <3>3. \A g \in Reading : now' - since[g] <= Timeout
      BY <2>2, <3>1 DEF Tick, Change, TimeInv, Reading
    <3>4. \A e \in Entry : Bounded(e) => e.version <= version' /\ e.read <= now' /\ e.expires <= e.read + Timeout + TTL
      BY <3>1 DEF Bounded, Entry
    <3>5. \A c \in Procs :
            /\ stored[c] # None => stored[c] \in Entry
            /\ \A i \in 1..Len(setBuf[c]) : setBuf[c][i] \in Entry
      <4> TAKE c \in Procs
      <4>1. setBuf[c] \in Seq(Entry) /\ stored[c] \in Entry \union {None}
        BY DEF CacheTypeOK
      <4> QED BY <4>1
    <3>6. \A c \in Procs :
            /\ stored'[c] # None => Bounded(stored[c])'
            /\ \A i \in 1..Len(setBuf'[c]) : Bounded(setBuf[c][i])'
      BY <3>2, <3>4, <3>5 DEF TimeInv, Bounded
    <3>7. \A g \in Reading' : since'[g] <= now' /\ now' - since'[g] <= Timeout
      BY <3>1, <3>2, <3>3 DEF TimeInv, Reading
    <3>8. \A g \in Procs : pc[g] = "set" => answer[g].read \in Nat /\ answer[g].version \in Nat
      <4>1. \A e \in Entry : e.read \in Nat /\ e.version \in Nat
        BY DEF Entry
      <4> QED BY <4>1 DEF CacheInv
    <3>9. \A g \in Procs : pc'[g] = "set" =>
            since'[g] <= answer'[g].read /\ answer'[g].read <= now' /\ answer'[g].version <= version'
      BY <3>1, <3>2, <3>8 DEF TimeInv
    <3>10. KnownInv'
      BY <3>1, <3>2, KnownStays DEF CacheTypeOK
    <3> QED BY <3>2, <3>6, <3>7, <3>9, <3>10 DEF TimeInv, AnswerIsRecent
  <2>4. ASSUME NEW c \in Procs, Admit(c) PROVE TimeInv' /\ KnownInv' /\ AnswerIsRecent'
    <3>1. UNCHANGED <<now, calls, seen>>
      BY <2>4 DEF Admit
    <3>2. \A d \in Procs : stored'[d] = stored[d] \/ Bounded(stored'[d])
      BY <2>4, AdmitKeeps DEF TimeInv
    <3> QED BY <2>4, <3>1, <3>2, AdmitKeeps, TimeStays DEF Admit, KnownInv, AnswerIsRecent
  <2>5. ASSUME NEW c \in Procs, Evict(c) PROVE TimeInv' /\ KnownInv' /\ AnswerIsRecent'
    BY <2>5, TimeStays DEF Evict, CacheTypeOK, KnownInv, AnswerIsRecent
  <2>6. ASSUME NEW g \in Procs, NEW look \in BOOLEAN, Call(g, look) PROVE TimeInv' /\ KnownInv' /\ AnswerIsRecent'
    <3>1. TimeInv'
      BY <2>6, TimeStays DEF Call, CacheTypeOK
    <3>2. KnownInv'
      BY <2>6, KnownStays DEF Call, CacheTypeOK
    <3> QED BY <2>6, <3>1, <3>2 DEF Call, AnswerIsRecent
  <2>7. ASSUME NEW g \in Procs, AssignDefault(g) PROVE TimeInv' /\ KnownInv' /\ AnswerIsRecent'
    <3>1. TimeInv'
      BY <2>7, TimeStays DEF AssignDefault, CacheTypeOK
    <3>2. KnownInv'
      BY <2>7, KnownStays DEF AssignDefault, CacheTypeOK
    <3> QED BY <2>7, <3>1, <3>2 DEF AssignDefault, AnswerIsRecent
  <2>8. ASSUME NEW g \in Procs, ReadDefault(g) PROVE TimeInv' /\ KnownInv' /\ AnswerIsRecent'
    <3>1. TimeInv'
      BY <2>8, TimeStays DEF ReadDefault, CacheTypeOK
    <3>2. KnownInv'
      BY SMTT(30), <2>8, KnownStays DEF ReadDefault, CacheTypeOK
    <3> QED BY <2>8, <3>1, <3>2 DEF ReadDefault, AnswerIsRecent
  <2>9. ASSUME NEW g \in Procs, TornRead(g) PROVE TimeInv' /\ KnownInv' /\ AnswerIsRecent'
    <3>1. TimeInv'
      BY <2>9, TimeStays DEF TornRead, ReturnNil, Return, CacheTypeOK
    <3>2. KnownInv'
      BY SMTT(30), <2>9, KnownStays DEF TornRead, ReturnNil, Return, CacheTypeOK
    <3> QED BY <2>9, <3>1, <3>2 DEF TornRead, ReturnNil, Return, AnswerIsRecent
  <2>10. ASSUME NEW g \in Procs, Hit(g) PROVE TimeInv' /\ KnownInv' /\ AnswerIsRecent'
    <3>1. cache[g] \in Procs /\ stored[cache[g]] \in Entry /\ Bounded(stored[cache[g]])
          /\ now <= stored[cache[g]].expires
      BY <2>10 DEF Hit, Has, CacheTypeOK, CacheInv, TimeInv
    <3>2. /\ ReturnValue(g, stored[cache[g]]) /\ Return(g)
          /\ UNCHANGED <<now, version, caches, crossed>>
      BY <2>10 DEF Hit, ReturnValue
    <3>3. TimeInv'
      BY <3>2, TimeStays DEF Return, CacheTypeOK
    <3>4. oldest' \in {oldest, now - stored[cache[g]].read}
      BY <3>1, <3>2, ReturnValueTypes
    <3>5. now - stored[cache[g]].read <= TTL + Timeout
      <4>1. now \in Nat /\ stored[cache[g]].read \in Nat /\ stored[cache[g]].expires \in Nat
        BY <3>1 DEF CacheTypeOK, Entry
      <4> QED BY <4>1, <3>1 DEF Bounded
    <3>6. KnownInv'
      <4>1. newest <= newest' /\ newest' \in {newest, stored[cache[g]].version}
        BY <3>1, <3>2, ReturnValueTypes
      <4>2. \A h \in Procs : floor'[h] \in {0, floor[h]}
        BY <3>2 DEF Return, CacheTypeOK
      <4>3. version <= version'
        BY <3>2 DEF CacheTypeOK
      <4> QED BY <3>1, <4>1, <4>2, <4>3, KnownStays DEF Bounded
    <3> QED BY <3>3, <3>4, <3>5, <3>6 DEF AnswerIsRecent
  <2>11. ASSUME NEW g \in Procs, Miss(g) PROVE TimeInv' /\ KnownInv' /\ AnswerIsRecent'
    <3>1. TimeInv'
      BY <2>11, TimeStays DEF Miss, CacheTypeOK
    <3>2. KnownInv'
      BY SMTT(30), <2>11, KnownStays DEF Miss, CacheTypeOK
    <3> QED BY <2>11, <3>1, <3>2 DEF Miss, AnswerIsRecent
  <2>12. ASSUME NEW g \in Procs, Fetch(g) PROVE TimeInv' /\ KnownInv' /\ AnswerIsRecent'
    <3>1. UNCHANGED <<now, version, caches, seen>>
      BY <2>12 DEF Fetch, ReturnNil
    <3>2. \A h \in Procs :
            \/ pc'[h] \notin {"fetch", "set"}
            \/ pc'[h] = pc[h] /\ since'[h] = since[h] /\ answer'[h] = answer[h]
            \/ pc[h] = "fetch" /\ pc'[h] = "set" /\ since'[h] = since[h]
               /\ answer'[h].read = now /\ answer'[h].version = version
      <4>1. CASE ReturnNil(g)
        BY <4>1 DEF ReturnNil, Return, CacheTypeOK
      <4>2. CASE ~ReturnNil(g)
        <5> DEFINE e == [version |-> version, read |-> now, expires |-> now]
        <5>1. /\ pc[g] = "fetch" /\ Goto(g, "set") /\ answer' = [answer EXCEPT ![g] = e] /\ UNCHANGED since
          BY <2>12, <4>2 DEF Fetch
        <5>2. e.read = now /\ e.version = version
          OBVIOUS
        <5> HIDE DEF e
        <5> QED BY <5>1, <5>2 DEF CacheTypeOK
      <4> QED BY <4>1, <4>2
    <3>3. \A h \in Procs : floor'[h] \in {0, floor[h]}
      BY SMTT(30), <2>12 DEF Fetch, ReturnNil, Return, CacheTypeOK
    <3>4. KnownInv'
      BY SMTT(30), <3>1, <3>3, KnownStays DEF CacheTypeOK
    <3> QED BY <3>1, <3>2, <3>4, TimeStays DEF AnswerIsRecent
  <2>13. ASSUME NEW g \in Procs, Set(g) PROVE TimeInv' /\ KnownInv' /\ AnswerIsRecent'
    <3> DEFINE e == [answer[g] EXCEPT !.expires = now + TTL]
    <3>1. cache[g] \in Procs /\ answer[g] \in Entry /\ now + TTL \in 0..MaxTime+TTL
      <4>1. now + TTL \in 0..MaxTime+TTL
        BY DEF CacheTypeOK
      <4> QED BY <4>1, <2>13 DEF Set, CacheInv
    <3>2. e \in Entry /\ e.version = answer[g].version /\ e.read = answer[g].read /\ e.expires = now + TTL
      BY <3>1, ExpiryOf
    <3>3. /\ since[g] <= answer[g].read /\ answer[g].read <= now /\ now - since[g] <= Timeout
          /\ answer[g].version <= version
      BY <2>13 DEF Set, TimeInv, Reading
    <3>4. since[g] \in Nat /\ answer[g].read \in Nat /\ now \in Nat
      BY <3>1 DEF CacheTypeOK, Entry
    <3>5. Bounded(e)
      BY <3>2, <3>3, <3>4 DEF Bounded
    <3>6. SetWithTTL(cache[g], e) /\ ReturnValue(g, answer[g]) /\ Return(g) /\ UNCHANGED <<now, version>>
      BY <2>13 DEF Set, ReturnValue
    <3> HIDE DEF e
    <3>7. \A c \in Procs : stored'[c] = stored[c] \/ Bounded(stored'[c])
      BY <3>1, <3>2, <3>5, <3>6, SetWithTTLKeeps
    <3>8. \A c \in Procs : \A i \in 1..Len(setBuf'[c]) :
            Bounded(setBuf'[c][i]) \/ \E j \in 1..Len(setBuf[c]) : setBuf'[c][i] = setBuf[c][j]
      <4>1. \A c \in Procs : \A i \in 1..Len(setBuf'[c]) :
              setBuf'[c][i] = e \/ (i \in 1..Len(setBuf[c]) /\ setBuf'[c][i] = setBuf[c][i])
        BY <3>1, <3>2, <3>6, SetWithTTLKeeps
      <4> TAKE c \in Procs
      <4> TAKE i \in 1..Len(setBuf'[c])
      <4>2. CASE setBuf'[c][i] = e
        BY <4>2, <3>5
      <4>3. CASE i \in 1..Len(setBuf[c]) /\ setBuf'[c][i] = setBuf[c][i]
        BY <4>3
      <4> QED BY <4>1, <4>2, <4>3
    <3>9. TimeInv'
      BY <3>6, <3>7, <3>8, TimeStays DEF Return, CacheTypeOK
    <3>10. oldest' \in {oldest, now - answer[g].read}
      BY <3>1, <3>6, ReturnValueTypes
    <3>11. now - answer[g].read <= TTL + Timeout
      BY <3>3, <3>4
    <3>12. KnownInv'
      <4>1. newest <= newest' /\ newest' \in {newest, answer[g].version}
        BY <3>1, <3>6, ReturnValueTypes
      <4>2. \A h \in Procs : floor'[h] \in {0, floor[h]}
        BY <3>6 DEF Return, CacheTypeOK
      <4>3. version <= version'
        BY <3>6 DEF CacheTypeOK
      <4> QED BY <3>3, <4>1, <4>2, <4>3, KnownStays
    <3> QED BY <3>9, <3>10, <3>11, <3>12 DEF AnswerIsRecent
  <2> QED BY <2>1, <2>2, <2>4, <2>5, <2>6, <2>7, <2>8, <2>9, <2>10, <2>11, <2>12, <2>13 DEF CacheNext
<1> QED BY <1>1, <1>2, CacheTyping, PTL DEF CacheSpec

(* AnswerIsRecent by itself. *)
THEOREM Recent == CacheSpec => []AnswerIsRecent
BY Bounds, PTL

-------------------------------------------------------------------------------
\* A step that touches no cache, begins no read and answers nothing new.
LEMMA SerialStays ==
  ASSUME CacheTypeOK, SerialInv, UNCHANGED <<stored, setBuf, newest, defaultCache>>, Reading' \subseteq Reading,
         \A g \in Procs : cache'[g] \in {None, cache[g], defaultCache},
         \A g \in Procs : pc'[g] = "set" =>
           (pc[g] = "set" /\ answer'[g] = answer[g]) \/ answer'[g].version >= newest
  PROVE  SerialInv'
<1>1. \A c \in Procs :
        /\ Reading' # {} => setBuf'[c] = <<>>
        /\ setBuf'[c] # <<>> => stored'[c] = None /\ Len(setBuf'[c]) = 1
        /\ \A i \in 1..Len(setBuf'[c]) : setBuf'[c][i].version = newest'
        /\ stored'[c] # None => stored'[c].version = newest'
        /\ c # defaultCache' => stored'[c] = None /\ setBuf'[c] = <<>>
  BY DEF SerialInv
<1>2. \A g \in Procs : pc'[g] = "set" => answer'[g].version >= newest'
  BY DEF SerialInv
<1>3. (\A g \in Procs : cache'[g] \in {None, defaultCache'}) /\ \A g, h \in Reading' : g = h
  BY DEF SerialInv
<1> QED BY <1>1, <1>2, <1>3 DEF SerialInv

(* Unless reads crossed, nobody is answered with an older version than one that was known    *)
(* before the call.                                                                          *)
THEOREM BackOnlyIfCrossed == CacheSpec => []GoesBackOnlyIfCrossed
<1> DEFINE I == crossed \/ (SerialInv /\ ~back)
<1>1. CacheInit => I
  BY CacheAssumption DEF CacheInit, SerialInv, Reading
<1>2. CacheTypeOK /\ CacheTypeOK' /\ CacheInv /\ KnownInv /\ I /\ [CacheNext]_cacheVars => I'
  <2> SUFFICES ASSUME CacheTypeOK, CacheTypeOK', CacheInv, KnownInv, I, [CacheNext]_cacheVars, ~crossed'
               PROVE  SerialInv' /\ ~back'
    OBVIOUS
  <2> USE DEF calls, caches, seen, Goto
  <2>1. crossed => crossed'
    BY DEF CacheNext, cacheVars, Tick, Change, Admit, Evict, Call, AssignDefault, ReadDefault, TornRead, Hit,
           Miss, Fetch, Set
  <2>2. SerialInv /\ ~back /\ ~crossed
    BY <2>1
  <2>3. CASE UNCHANGED cacheVars \/ Tick \/ Change
    <3>1. UNCHANGED <<caches, calls, seen>>
      BY <2>3 DEF cacheVars, Tick, Change
    <3>2. Reading' = Reading
      BY <3>1 DEF Reading
    <3> QED BY <3>1, <3>2, <2>2, SerialStays
  <2>4. ASSUME NEW c \in Procs, Admit(c) PROVE SerialInv' /\ ~back'
    <3>1. UNCHANGED <<now, version, defaultCache, calls, seen, crossed>> /\ setBuf[c] # <<>>
      BY <2>4 DEF Admit
    <3>2. Reading = {} /\ Reading' = {}
      BY <3>1, <2>2 DEF SerialInv, Reading
    <3>3. stored[c] = None /\ Len(setBuf[c]) = 1 /\ setBuf[c][1].version = newest /\ c = defaultCache
      BY <3>1, <2>2 DEF SerialInv
    <3>4. \A d \in Procs : setBuf'[d] = IF d = c THEN Tail(setBuf[c]) ELSE setBuf[d]
      BY <2>4 DEF Admit, CacheTypeOK
    <3>5. setBuf'[c] = <<>>
      <4>1. setBuf[c] \in Seq(Entry) /\ setBuf'[c] = Tail(setBuf[c])
        BY <3>4 DEF CacheTypeOK
      <4>2. setBuf'[c] \in Seq(Entry) /\ Len(setBuf'[c]) = 0
        BY <4>1, <3>3
      <4> QED BY <4>2
    <3>6. \A d \in Procs : d # c => setBuf'[d] = setBuf[d] /\ stored'[d] = stored[d]
      BY <3>4, <2>4, AdmitKeeps
    <3>7. stored'[c] = None \/ stored'[c] = setBuf[c][1]
      BY <3>3, <2>4, AdmitKeeps
    <3>8. \A d \in Procs :
            /\ setBuf'[d] = <<>>
            /\ stored'[d] # None => stored'[d].version = newest'
            /\ d # defaultCache' => stored'[d] = None
      BY <3>1, <3>3, <3>5, <3>6, <3>7, <2>2 DEF SerialInv
    <3>9. \A g \in Procs : pc'[g] # "set" /\ cache'[g] \in {None, defaultCache'}
      BY <3>1, <3>2, <2>2 DEF SerialInv, Reading
    <3> QED BY <3>1, <3>2, <3>8, <3>9, <2>2 DEF SerialInv
  <2>5. ASSUME NEW c \in Procs, Evict(c) PROVE SerialInv' /\ ~back'
    <3>1. UNCHANGED <<now, version, defaultCache, setBuf, calls, seen, crossed>>
      BY <2>5 DEF Evict
    <3>2. \A d \in Procs : stored'[d] \in {stored[d], None}
      BY <2>5 DEF Evict, CacheTypeOK
    <3>3. Reading' = Reading
      BY <3>1 DEF Reading
    <3> QED BY <3>1, <3>2, <3>3, <2>2 DEF SerialInv
  <2>6. ASSUME NEW g \in Procs, NEW look \in BOOLEAN, Call(g, look) PROVE SerialInv' /\ ~back'
    <3>1. Reading' \subseteq Reading
      BY <2>6 DEF Call, CacheTypeOK, Reading
    <3> QED BY <2>6, <3>1, <2>2, SerialStays DEF Call, CacheTypeOK
  <2>7. ASSUME NEW g \in Procs, AssignDefault(g) PROVE SerialInv' /\ ~back'
    <3>1. defaultCache = None
      BY <2>7 DEF AssignDefault
    <3>2. \A c \in Procs : stored[c] = None /\ setBuf[c] = <<>> /\ cache[c] = None
      BY <3>1, <2>2, CacheAssumption DEF SerialInv
    <3>3. \A h \in Procs : pc[h] \notin {"fetch", "set"}
      BY <3>2, CacheAssumption DEF CacheInv
    <3>4. Reading' = {}
      BY <3>3, <2>7 DEF AssignDefault, Reading, CacheTypeOK
    <3>5. UNCHANGED <<stored, setBuf, cache, seen>>
      BY <2>7 DEF AssignDefault
    <3> QED BY <3>2, <3>4, <3>5, <2>2 DEF SerialInv, Reading
  <2>8. ASSUME NEW g \in Procs, ReadDefault(g) PROVE SerialInv' /\ ~back'
    <3>1. Reading' \subseteq Reading
      BY <2>8 DEF ReadDefault, CacheTypeOK, Reading
    <3> QED BY <2>8, <3>1, <2>2, SerialStays DEF ReadDefault, CacheTypeOK
  <2>9. ASSUME NEW g \in Procs, TornRead(g) PROVE SerialInv' /\ ~back'
    <3>1. Reading' \subseteq Reading
      BY <2>9 DEF TornRead, ReturnNil, Return, CacheTypeOK, Reading
    <3> QED BY <2>9, <3>1, <2>2, SerialStays DEF TornRead, ReturnNil, Return, CacheTypeOK
  <2>10. ASSUME NEW g \in Procs, Hit(g) PROVE SerialInv' /\ ~back'
    <3>1. cache[g] \in Procs /\ stored[cache[g]] \in Entry /\ stored[cache[g]].version = newest
      BY <2>10, <2>2 DEF Hit, Has, CacheTypeOK, CacheInv, SerialInv
    <3>2. /\ ReturnValue(g, stored[cache[g]]) /\ Return(g)
          /\ UNCHANGED <<now, version, caches, crossed>>
      BY <2>10 DEF Hit, ReturnValue
    <3>3. newest' = newest /\ (back' => back \/ newest < floor[g])
      BY <3>1, <3>2, ReturnValueTypes
    <3>4. ~back'
      BY <3>3, <2>2 DEF KnownInv, CacheTypeOK
    <3>5. Reading' \subseteq Reading
      BY <3>2 DEF Return, CacheTypeOK, Reading
    <3> QED BY <3>2, <3>3, <3>4, <3>5, <2>2, SerialStays DEF Return, CacheTypeOK
  <2>11. ASSUME NEW g \in Procs, Miss(g) PROVE SerialInv' /\ ~back'
    <3>1. Reading = {} /\ \A c \in Procs : setBuf[c] = <<>>
      BY <2>11 DEF Miss
    <3>2. Reading' = {g} /\ \A h \in Procs : pc'[h] # "set"
      BY <2>11, <3>1 DEF Miss, Reading, CacheTypeOK
    <3>3. UNCHANGED <<caches, cache, answer, seen>>
      BY <2>11 DEF Miss
    <3> QED BY <3>1, <3>2, <3>3, <2>2 DEF SerialInv
  <2>12. ASSUME NEW g \in Procs, Fetch(g) PROVE SerialInv' /\ ~back'
    <3>1. UNCHANGED <<caches, seen>>
      BY <2>12 DEF Fetch, ReturnNil
    <3>2. CASE ReturnNil(g)
      <4>1. Reading' \subseteq Reading
        BY <3>2 DEF ReturnNil, Return, CacheTypeOK, Reading
      <4> QED BY <3>1, <3>2, <4>1, <2>2, SerialStays DEF ReturnNil, Return, CacheTypeOK
    <3>3. CASE ~ReturnNil(g)
      <4> DEFINE e == [version |-> version, read |-> now, expires |-> now]
      <4>1. /\ pc[g] = "fetch" /\ Goto(g, "set")
            /\ answer' = [answer EXCEPT ![g] = e] /\ UNCHANGED cache
        BY <2>12, <3>3 DEF Fetch
      <4>2. e.version >= newest
        BY DEF KnownInv, CacheTypeOK
      <4> HIDE DEF e
      <4>3. Reading' \subseteq Reading
        BY <4>1 DEF CacheTypeOK, Reading
      <4> QED BY <3>1, <4>1, <4>2, <4>3, <2>2, SerialStays DEF CacheTypeOK
    <3> QED BY <3>2, <3>3
  <2>13. ASSUME NEW g \in Procs, Set(g) PROVE SerialInv' /\ ~back'
    <3> DEFINE e == [answer[g] EXCEPT !.expires = now + TTL]
    <3>1. cache[g] \in Procs /\ answer[g] \in Entry /\ now + TTL \in 0..MaxTime+TTL
      <4>1. now + TTL \in 0..MaxTime+TTL
        <5>1. now \in 0..MaxTime
          BY DEF CacheTypeOK
        <5> QED BY <5>1, CacheAssumption
      <4> QED BY <4>1, <2>13 DEF Set, CacheInv
    <3>2. e \in Entry /\ e.version = answer[g].version
      BY <3>1, ExpiryOf
    <3> HIDE DEF e
    <3>3. /\ SetWithTTL(cache[g], e) /\ ReturnValue(g, answer[g]) /\ Return(g)
          /\ UNCHANGED <<now, version, defaultCache, crossed>> /\ pc[g] = "set"
      BY <2>13 DEF Set, ReturnValue, e
    <3>4. cache[g] = defaultCache /\ answer[g].version >= newest /\ \A c \in Procs : setBuf[c] = <<>>
      BY <3>1, <3>3, <2>2, CacheAssumption DEF SerialInv, Reading
    <3>5. answer[g].version \in Nat /\ newest \in Nat /\ newest' \in Nat /\ floor[g] \in Nat
      BY <3>1 DEF Entry, CacheTypeOK
    <3>6. newest' = answer[g].version /\ ~back'
      BY <3>1, <3>3, <3>4, <3>5, <2>2, ReturnValueTypes DEF KnownInv
    <3>7. Reading' = {} /\ \A h \in Procs : pc'[h] # "set" /\ cache'[h] \in {None, defaultCache'}
      BY SMTT(30), <3>3, <2>2 DEF SerialInv, Reading, Return, CacheTypeOK
    <3>8. \A c \in Procs : c # cache[g] => stored'[c] = None /\ setBuf'[c] = <<>>
      BY <3>1, <3>3, <3>4, <2>2 DEF SetWithTTL, SerialInv, CacheTypeOK
    <3>9. CASE stored[cache[g]] # None
      <4>1. stored'[cache[g]] = e /\ setBuf'[cache[g]] = <<>>
        BY <3>9, <3>1, <3>3, <3>4 DEF SetWithTTL, CacheTypeOK
      <4> QED BY <4>1, <3>2, <3>3, <3>4, <3>6, <3>7, <3>8 DEF SerialInv
    <3>10. CASE stored[cache[g]] = None
      <4>1. stored'[cache[g]] = None
        BY <3>10, <3>3 DEF SetWithTTL
      <4>2. setBuf'[cache[g]] = <<>> \/ setBuf'[cache[g]] = Append(<<>>, e)
        <5>1. UNCHANGED setBuf \/ setBuf' = [setBuf EXCEPT ![cache[g]] = Append(@, e)]
          BY <3>10, <3>3 DEF SetWithTTL
        <5>2. setBuf[cache[g]] = <<>> /\ setBuf \in [Procs -> Seq(Entry)]
          BY <3>1, <3>4 DEF CacheTypeOK
        <5> QED BY <5>1, <5>2, <3>1
      <4>3. Len(Append(<<>>, e)) = 1 /\ Append(<<>>, e)[1] = e
        BY <3>2
      <4>4. \A i \in 1..Len(setBuf'[cache[g]]) : setBuf'[cache[g]][i] = e
        BY <4>2, <4>3
      <4>5. \A c \in Procs :
              /\ setBuf'[c] # <<>> => stored'[c] = None /\ Len(setBuf'[c]) = 1
              /\ \A i \in 1..Len(setBuf'[c]) : setBuf'[c][i].version = newest'
        <5> TAKE c \in Procs
        <5>1. CASE c = cache[g]
          BY <5>1, <4>1, <4>2, <4>3, <4>4, <3>2, <3>6
        <5>2. CASE c # cache[g]
          BY <5>2, <3>8
        <5> QED BY <5>1, <5>2
      <4>6. \A c \in Procs : stored'[c] = None /\ (c # defaultCache' => setBuf'[c] = <<>>)
        BY <4>1, <3>3, <3>4, <3>8
      <4>7. \A c \in Procs :
              /\ Reading' # {} => setBuf'[c] = <<>>
              /\ setBuf'[c] # <<>> => stored'[c] = None /\ Len(setBuf'[c]) = 1
              /\ \A i \in 1..Len(setBuf'[c]) : setBuf'[c][i].version = newest'
              /\ stored'[c] # None => stored'[c].version = newest'
              /\ c # defaultCache' => stored'[c] = None /\ setBuf'[c] = <<>>
        BY <4>5, <4>6, <3>7
      <4>8. (\A h, k \in Reading' : h = k) /\ \A h \in Procs : pc'[h] = "set" => answer'[h].version >= newest'
        BY <3>7
      <4> QED BY <4>7, <4>8, <3>6, <3>7 DEF SerialInv
    <3> QED BY <3>9, <3>10
  <2> QED BY <2>3, <2>4, <2>5, <2>6, <2>7, <2>8, <2>9, <2>10, <2>11, <2>12, <2>13 DEF CacheNext
<1>3. I => GoesBackOnlyIfCrossed
  BY DEF GoesBackOnlyIfCrossed
<1> QED BY <1>1, <1>2, <1>3, CacheTyping, Bounds, PTL DEF CacheSpec

-------------------------------------------------------------------------------
\* The states of a Publish.
Pubs == {"new", "sending", "sent", "spawning", "ok", "failed"}

(* The inductive invariants of PubSub, as named parts. *)

\* The types of what deliveries depend on.  (That Attempts bounds the handlers is not needed.)
DeliveryTypes ==
  /\ kind \in {"redis", "fake"} /\ sub \in [Subs -> {"idle", "down", "up", "ended"}]
  /\ queue \in [Subs -> Seq(Msgs)] /\ pub \in [Msgs -> Pubs] /\ reach \in [Msgs -> SUBSET Subs]
  /\ spawned \in [Subs -> [Msgs -> Nat]] /\ handled \in [Subs -> [Msgs -> Nat]]
  /\ list \in Seq(Subs) /\ todo \in [Msgs -> Seq(Subs)]
  /\ \A m \in Msgs : pub[m] = "spawning" => kind = "fake"

\* Message m is with s: it waits, has a goroutine, or was handled.
With(s, m) == m \in Elements(queue[s]) \/ spawned[s][m] > 0 \/ handled[s][m] > 0

\* Those a Publish has to reach are connected to Redis, and from the moment the server has the
\* message it is with them.
ReachInv ==
  \A m \in Msgs, s \in Subs : s \in reach[m] =>
    /\ kind = "redis" /\ sub[s] = "up"
    /\ pub[m] \in {"sent", "ok"} => With(s, m)

\* A message nobody has published is nowhere.
NewInv ==
  \A m \in Msgs, s \in Subs : pub[m] = "new" =>
    m \notin Elements(queue[s]) /\ spawned[s][m] = 0 /\ handled[s][m] = 0

\* What was acknowledged before m is ahead of m wherever it has to be: taken, or earlier in
\* the queue than every copy of m.
Ahead(s, n, m) ==
  Taken(s, n) \/ /\ ~Taken(s, m)
                   /\ \A j \in 1..Len(queue[s]) : queue[s][j] = m =>
                        \E i \in 1..(j - 1) : queue[s][i] = n

OrderInv ==
  /\ before \in [Msgs -> SUBSET Msgs]
  /\ \A m \in Msgs : \A n \in before[m] :
       pub[n] = "ok" /\ pub[m] # "new" /\ \A s \in Subs : s \in reach[n] => Ahead(s, n, m)

-------------------------------------------------------------------------------
(* Operators *)

\* Receive moves the head of a queue.
LEMMA TailElements ==
  ASSUME NEW q \in Seq(Msgs), q # <<>>
  PROVE  /\ Tail(q) \in Seq(Msgs) /\ Head(q) \in Msgs
         /\ Elements(q) \subseteq Elements(Tail(q)) \union {Head(q)}
         /\ Head(q) \in Elements(q) /\ Elements(Tail(q)) \subseteq Elements(q)
         /\ Len(Tail(q)) = Len(q) - 1 /\ \A i \in 1..Len(Tail(q)) : Tail(q)[i] = q[i + 1]
<1>1. Len(q) \in Nat /\ Len(q) > 0 /\ Len(Tail(q)) = Len(q) - 1
  OBVIOUS
<1>2. ASSUME NEW i \in 1..Len(q) PROVE q[i] \in Elements(Tail(q)) \union {Head(q)}
  <2>1. CASE i = 1
    BY <2>1
  <2>2. CASE i # 1
    <3>1. i - 1 \in 1..Len(Tail(q)) /\ Tail(q)[i - 1] = q[i]
      BY <1>1, <2>2
    <3> QED BY <3>1 DEF Elements
  <2> QED BY <2>1, <2>2
<1>3. \A i \in 1..Len(Tail(q)) : Tail(q)[i] = q[i + 1]
  OBVIOUS
<1>4. \A i \in 1..Len(Tail(q)) : i + 1 \in 1..Len(q)
  BY <1>1
<1>5. Head(q) = q[1] /\ 1 \in 1..Len(q)
  BY <1>1
<1>6. Head(q) \in Elements(q) /\ Elements(Tail(q)) \subseteq Elements(q)
  BY <1>3, <1>4, <1>5 DEF Elements
<1>7. Elements(q) \subseteq Elements(Tail(q)) \union {Head(q)}
  BY <1>2 DEF Elements
<1> QED BY <1>1, <1>3, <1>6, <1>7

\* What the server sends joins a queue.
LEMMA AppendElements ==
  ASSUME NEW q \in Seq(Msgs), NEW m \in Msgs
  PROVE  /\ Append(q, m) \in Seq(Msgs) /\ Elements(Append(q, m)) = Elements(q) \union {m}
         /\ Len(Append(q, m)) = Len(q) + 1 /\ \A i \in 1..Len(q) : Append(q, m)[i] = q[i]
         /\ Append(q, m)[Len(q) + 1] = m
<1>1. Len(Append(q, m)) = Len(q) + 1 /\ Append(q, m)[Len(q) + 1] = m /\ Len(q) \in Nat
  OBVIOUS
<1>2. \A i \in 1..Len(q) : Append(q, m)[i] = q[i]
  OBVIOUS
<1> QED BY <1>1, <1>2 DEF Elements

\* A goroutine for a handler: one more of this message.
LEMMA SpawnOne ==
  ASSUME DeliveryTypes, NEW s \in Subs, NEW m \in Msgs, Spawn(s, m)
  PROVE  /\ spawned' \in [Subs -> [Msgs -> Nat]] /\ spawned'[s][m] > 0
         /\ \A z \in Subs, n \in Msgs : spawned'[z][n] >= spawned[z][n]
<1>1. \A z \in Subs, n \in Msgs : spawned[z][n] \in Nat
  BY DEF DeliveryTypes
<1>2. spawned' = [spawned EXCEPT ![s][m] = @ + 1] /\ spawned \in [Subs -> [Msgs -> Nat]]
  BY DEF Spawn, DeliveryTypes
<1>3. \A z \in Subs, n \in Msgs :
        spawned'[z][n] = IF z = s /\ n = m THEN spawned[s][m] + 1 ELSE spawned[z][n]
  BY <1>2
<1>4. spawned' \in [Subs -> [Msgs -> Nat]]
  BY <1>1, <1>2
<1> QED BY <1>1, <1>3, <1>4

-------------------------------------------------------------------------------
(* The variables deliveries depend on are well typed. *)
THEOREM Typing == Spec => []DeliveryTypes
<1>1. Init => DeliveryTypes
  BY DEF Init, DeliveryTypes, Pubs
<1>2. DeliveryTypes /\ [Next]_vars => DeliveryTypes'
  <2> SUFFICES ASSUME DeliveryTypes, [Next]_vars PROVE DeliveryTypes'
    OBVIOUS
  <2> USE DEF redis, fake, SubIs, PubIs
  <2>1. CASE UNCHANGED vars
    BY <2>1 DEF vars, DeliveryTypes
  <2>2. ASSUME NEW s \in Subs, NEW m \in Msgs, HandlerReturns(s, m) PROVE DeliveryTypes'
    <3>1. spawned[s][m] \in Nat /\ handled[s][m] \in Nat
      BY DEF DeliveryTypes
    <3>2. spawned[s][m] - 1 \in Nat
      BY <3>1, <2>2 DEF HandlerReturns
    <3>3. spawned' \in [Subs -> [Msgs -> Nat]] /\ handled' \in [Subs -> [Msgs -> Nat]]
      BY <2>2, <3>1, <3>2 DEF HandlerReturns, DeliveryTypes
    <3> QED BY <2>2, <3>3 DEF HandlerReturns, DeliveryTypes
  <2>3. ASSUME NEW s \in Subs, Receive(s) PROVE DeliveryTypes'
    <3>1. queue[s] \in Seq(Msgs) /\ queue[s] # <<>>
      BY <2>3 DEF DeliveryTypes, Receive
    <3>2. Head(queue[s]) \in Msgs /\ Tail(queue[s]) \in Seq(Msgs)
      BY <3>1, TailElements
    <3>3. spawned' \in [Subs -> [Msgs -> Nat]]
      BY <2>3, <3>2, SpawnOne DEF Receive
    <3> QED BY <2>3, <3>2, <3>3 DEF Receive, DeliveryTypes
  <2>4. ASSUME NEW s \in Subs, NEW state \in {"down", "ended"}, Drop(s, state) PROVE DeliveryTypes'
    BY <2>4 DEF Drop, DeliveryTypes
  <2>5. ASSUME NEW s \in Subs, ReceiveFails(s) \/ LoopEnds(s) PROVE DeliveryTypes'
    BY <2>5, <2>4 DEF ReceiveFails, LoopEnds
  <2>6. ASSUME NEW s \in Subs, Subscribe(s) \/ Connect(s) \/ ContextEnds(s) PROVE DeliveryTypes'
    BY <2>6 DEF Subscribe, Connect, ContextEnds, DeliveryTypes
  <2>7. ASSUME NEW s \in Subs, FakeSubscribe(s) PROVE DeliveryTypes'
    <3>1. list' \in Seq(Subs)
      <4>1. Append(list, s) \in Seq(Subs) /\ list \in Seq(Subs)
        BY DEF DeliveryTypes
      <4>2. list' = Append(list, s) \/ list' = list
        BY <2>7 DEF FakeSubscribe, Update
      <4> QED BY <4>1, <4>2
    <3> QED BY <2>7, <3>1 DEF FakeSubscribe, DeliveryTypes
  <2>8. ASSUME NEW m \in Msgs, Publish(m) \/ PublishReturns(m) \/ AttemptFails(m) \/ FakeReturns(m) PROVE DeliveryTypes'
    <3>1. reach' \in [Msgs -> SUBSET Subs]
      <4>1. reach' = [reach EXCEPT ![m] = Connected] \/ UNCHANGED reach
        BY <2>8, Zenon DEF Publish, PublishReturns, AttemptFails, FakeReturns
      <4> QED BY <4>1 DEF Connected, DeliveryTypes
    <3>2. \/ pub' = [pub EXCEPT ![m] = "sending"] \/ pub' = [pub EXCEPT ![m] = "ok"]
          \/ pub' = [pub EXCEPT ![m] = "failed"]
      BY <2>8, Zenon DEF Publish, PublishReturns, AttemptFails, FakeReturns
    <3>3. UNCHANGED <<kind, sub, queue, spawned, handled, list, todo>>
      BY <2>8 DEF Publish, PublishReturns, AttemptFails, FakeReturns
    <3>4. pub' \in [Msgs -> Pubs] /\ \A n \in Msgs : pub'[n] = "spawning" => pub[n] = "spawning"
      BY <3>2 DEF DeliveryTypes, Pubs
    <3> QED BY <3>1, <3>3, <3>4 DEF DeliveryTypes
  <2>9. ASSUME NEW m \in Msgs, Execute(m) PROVE DeliveryTypes'
    <3>1. \A s \in Subs : queue[s] \in Seq(Msgs) /\ Append(queue[s], m) \in Seq(Msgs)
      BY AppendElements DEF DeliveryTypes
    <3> QED BY <2>9, <3>1 DEF Execute, DeliveryTypes, Pubs
  <2>10. ASSUME NEW m \in Msgs, FakePublish(m) PROVE DeliveryTypes'
    BY <2>10 DEF FakePublish, DeliveryTypes, Pubs
  <2>11. ASSUME NEW m \in Msgs, FakeSpawn(m) PROVE DeliveryTypes'
    <3>1. todo[m] \in Seq(Subs) /\ todo[m] # <<>>
      BY <2>11 DEF FakeSpawn, DeliveryTypes
    <3>2. Head(todo[m]) \in Subs /\ Tail(todo[m]) \in Seq(Subs)
      BY <3>1
    <3>3. spawned' \in [Subs -> [Msgs -> Nat]]
      BY <2>11, <3>2, SpawnOne DEF FakeSpawn
    <3> QED BY <2>11, <3>2, <3>3 DEF FakeSpawn, DeliveryTypes
  <2> QED BY <2>1, <2>2, <2>3, <2>5, <2>6, <2>7, <2>8, <2>9, <2>10, <2>11 DEF Next, Subscriber, Publisher
<1> QED BY <1>1, <1>2, PTL DEF Spec

(* Whoever has to be reached and is still connected has the message once the server has it. *)
THEOREM Reached == Spec => []ReachInv
<1>1. Init => ReachInv
  BY DEF Init, ReachInv
<1>2. DeliveryTypes /\ ReachInv /\ [Next]_vars => ReachInv'
  <2> SUFFICES ASSUME DeliveryTypes, ReachInv, [Next]_vars,
                      NEW m \in Msgs, NEW s \in Subs, s \in reach'[m]
               PROVE  /\ kind' = "redis" /\ sub'[s] = "up"
                      /\ pub'[m] \in {"sent", "ok"} => With(s, m)'
    BY DEF ReachInv
  <2> DEFINE Goal == /\ kind' = "redis" /\ sub'[s] = "up"
                     /\ pub'[m] \in {"sent", "ok"} => With(s, m)'
  <2> USE DEF redis, fake, SubIs, PubIs
  <2>0. queue[s] \in Seq(Msgs) /\ spawned[s][m] \in Nat /\ handled[s][m] \in Nat
    BY DEF DeliveryTypes
  <2>1. CASE UNCHANGED vars
    BY <2>1 DEF vars, ReachInv, With
  <2>2. ASSUME NEW z \in Subs, NEW n \in Msgs, HandlerReturns(z, n) PROVE Goal
    <3>1. UNCHANGED <<kind, sub, pub, queue, reach>>
      BY <2>2 DEF HandlerReturns
    <3>2. spawned[z][n] \in Nat /\ handled[z][n] \in Nat
      BY DEF DeliveryTypes
    <3>3. handled'[s][m] = (IF s = z /\ m = n THEN handled[z][n] + 1 ELSE handled[s][m])
      BY <2>2 DEF HandlerReturns, DeliveryTypes
    <3>4. spawned'[s][m] = (IF s = z /\ m = n THEN spawned[z][n] - 1 ELSE spawned[s][m])
      BY <2>2 DEF HandlerReturns, DeliveryTypes
    <3> QED BY <3>1, <3>2, <3>3, <3>4 DEF ReachInv, With
  <2>3. ASSUME NEW z \in Subs, Receive(z) PROVE Goal
    <3>1. queue[z] \in Seq(Msgs) /\ queue[z] # <<>>
      BY <2>3 DEF DeliveryTypes, Receive
    <3>2. Head(queue[z]) \in Msgs /\ Elements(queue[z]) \subseteq Elements(Tail(queue[z])) \union {Head(queue[z])}
      BY <3>1, TailElements
    <3>3. /\ spawned'[z][Head(queue[z])] > 0 /\ spawned'[s][m] >= spawned[s][m]
          /\ spawned'[s][m] \in Nat
      BY <2>3, <3>2, SpawnOne DEF Receive
    <3>4. UNCHANGED <<kind, sub, pub, handled, reach>>
      BY <2>3 DEF Receive
    <3>5. queue'[s] = IF s = z THEN Tail(queue[z]) ELSE queue[s]
      BY <2>3 DEF Receive, DeliveryTypes
    <3>6. m \in Elements(queue[s]) => m \in Elements(queue'[s]) \/ spawned'[s][m] > 0
      BY <3>2, <3>3, <3>5
    <3>7. With(s, m) => With(s, m)'
      BY <2>0, <3>3, <3>4, <3>6 DEF With, Elements
    <3> QED BY <3>4, <3>7 DEF ReachInv
  <2>4. ASSUME NEW z \in Subs, NEW state \in {"down", "ended"}, Drop(z, state) PROVE Goal
    <3>1. reach'[m] = reach[m] \ {z} /\ UNCHANGED <<kind, spawned, handled, pub>>
      BY <2>4 DEF Drop
    <3>2. s # z /\ s \in reach[m]
      BY <3>1
    <3>3. sub'[s] = sub[s] /\ queue'[s] = queue[s]
      BY <2>4, <3>2 DEF Drop, DeliveryTypes
    <3> QED BY <3>1, <3>2, <3>3 DEF ReachInv, With, Elements
  <2>5. ASSUME NEW z \in Subs, ReceiveFails(z) \/ LoopEnds(z) PROVE Goal
    BY <2>5, <2>4 DEF ReceiveFails, LoopEnds
  <2>6. ASSUME NEW z \in Subs, Subscribe(z) \/ Connect(z) \/ ContextEnds(z) \/ FakeSubscribe(z) PROVE Goal
    <3>1. UNCHANGED <<kind, spawned, handled, pub, queue, reach>>
      BY <2>6 DEF Subscribe, Connect, ContextEnds, FakeSubscribe
    <3>2. sub[s] = "up" => sub'[s] = "up"
      BY <2>6 DEF Subscribe, Connect, ContextEnds, FakeSubscribe, DeliveryTypes
    <3> QED BY <3>1, <3>2 DEF ReachInv, With, Elements
  <2>7. ASSUME NEW n \in Msgs, Publish(n) PROVE Goal
    <3>1. UNCHANGED <<kind, sub, spawned, handled, queue>> /\ kind = "redis"
      BY <2>7 DEF Publish
    <3>2. CASE n = m
      <4>1. reach'[m] = Connected /\ pub'[m] = "sending"
        BY <2>7, <3>2 DEF Publish, DeliveryTypes
      <4> QED BY <3>1, <4>1 DEF Connected
    <3>3. CASE n # m
      <4>1. reach'[m] = reach[m] /\ pub'[m] = pub[m]
        BY <2>7, <3>3 DEF Publish, DeliveryTypes
      <4> QED BY <3>1, <4>1 DEF ReachInv, With, Elements
    <3> QED BY <3>2, <3>3
  <2>8. ASSUME NEW n \in Msgs, Execute(n) PROVE Goal
    <3>1. UNCHANGED <<kind, sub, spawned, handled, reach>>
      BY <2>8 DEF Execute
    <3>2. sub[s] = "up" /\ kind = "redis"
      BY <3>1 DEF ReachInv
    <3>3. queue'[s] = Append(queue[s], n)
      BY <2>8, <3>2 DEF Execute, Connected
    <3>4. Elements(queue[s]) \subseteq Elements(queue'[s]) /\ n \in Elements(queue'[s])
      BY <2>0, <3>3, AppendElements
    <3>5. n # m => pub'[m] = pub[m]
      BY <2>8 DEF Execute, DeliveryTypes
    <3> QED BY <3>1, <3>2, <3>4, <3>5 DEF ReachInv, With, Elements
  <2>9. ASSUME NEW n \in Msgs, PublishReturns(n) \/ AttemptFails(n) PROVE Goal
    <3>1. UNCHANGED <<kind, sub, spawned, handled, queue, reach>>
      BY <2>9 DEF PublishReturns, AttemptFails
    <3>2. pub'[m] \in {"sent", "ok"} => pub[m] \in {"sent", "ok"}
      BY <2>9 DEF PublishReturns, AttemptFails, DeliveryTypes
    <3> QED BY <3>1, <3>2 DEF ReachInv, With, Elements
  <2>10. ASSUME NEW n \in Msgs, FakePublish(n) \/ FakeSpawn(n) \/ FakeReturns(n) PROVE Goal
    <3>1. UNCHANGED reach /\ kind = "fake"
      BY <2>10 DEF FakePublish, FakeSpawn, FakeReturns, DeliveryTypes
    <3> QED BY <3>1 DEF ReachInv
  <2> QED BY <2>1, <2>2, <2>3, <2>5, <2>6, <2>7, <2>8, <2>9, <2>10 DEF Next, Subscriber, Publisher
<1> QED BY <1>1, <1>2, Typing, PTL DEF Spec

(* Publish returns nil only when the message is with everybody it has to reach. *)
THEOREM Acked == Spec => []AckedReachesConnected
<1>1. ReachInv => AckedReachesConnected
  BY DEF ReachInv, With, AckedReachesConnected
<1> QED BY <1>1, Reached, PTL

(* Nothing is delivered that was not published. *)
THEOREM Unpublished == Spec => []NewInv
<1>1. Init => NewInv
  BY DEF Init, NewInv, Elements
<1>2. DeliveryTypes /\ NewInv /\ [Next]_vars => NewInv'
  <2> SUFFICES ASSUME DeliveryTypes, NewInv, [Next]_vars,
                      NEW m \in Msgs, NEW s \in Subs, pub'[m] = "new"
               PROVE  m \notin Elements(queue'[s]) /\ spawned'[s][m] = 0 /\ handled'[s][m] = 0
    BY DEF NewInv, Elements
  <2> DEFINE Goal == m \notin Elements(queue'[s]) /\ spawned'[s][m] = 0 /\ handled'[s][m] = 0
  <2> USE DEF redis, fake, SubIs, PubIs
  <2>0. queue[s] \in Seq(Msgs) /\ spawned[s][m] \in Nat /\ handled[s][m] \in Nat /\ pub[m] \in Pubs
    BY DEF DeliveryTypes
  <2>1. CASE UNCHANGED <<pub, queue, spawned, handled>>
    BY <2>1 DEF NewInv
  <2>2. ASSUME NEW z \in Subs, NEW n \in Msgs, HandlerReturns(z, n) PROVE Goal
    <3>1. UNCHANGED <<pub, queue>> /\ spawned[z][n] > 0
      BY <2>2 DEF HandlerReturns
    <3>2. m \notin Elements(queue[s]) /\ spawned[s][m] = 0 /\ handled[s][m] = 0
      BY <3>1 DEF NewInv
    <3>3. s # z \/ m # n
      BY <3>1, <3>2
    <3>4. spawned'[s][m] = spawned[s][m] /\ handled'[s][m] = handled[s][m]
      BY <2>2, <3>3 DEF HandlerReturns, DeliveryTypes
    <3> QED BY <3>1, <3>2, <3>4
  <2>3. ASSUME NEW z \in Subs, Receive(z) PROVE Goal
    <3>1. queue[z] \in Seq(Msgs) /\ queue[z] # <<>> /\ UNCHANGED <<pub, handled>>
      BY <2>3 DEF DeliveryTypes, Receive
    <3>2. /\ Head(queue[z]) \in Elements(queue[z]) /\ Elements(Tail(queue[z])) \subseteq Elements(queue[z])
      BY <3>1, TailElements
    <3>3. m \notin Elements(queue[s]) /\ spawned[s][m] = 0 /\ handled[s][m] = 0
      BY <3>1 DEF NewInv
    <3>4. queue'[s] = IF s = z THEN Tail(queue[z]) ELSE queue[s]
      BY <2>3 DEF Receive, DeliveryTypes
    <3>5. s # z \/ m # Head(queue[z])
      BY <3>2, <3>3
    <3>6. spawned'[s][m] = spawned[s][m]
      BY <2>3, <3>5 DEF Receive, Spawn, DeliveryTypes
    <3> QED BY <3>1, <3>2, <3>3, <3>4, <3>6
  <2>4. ASSUME NEW z \in Subs, NEW state \in {"down", "ended"}, Drop(z, state) PROVE Goal
    <3>1. UNCHANGED <<pub, spawned, handled>> /\ queue'[s] \in {queue[s], <<>>}
      BY <2>4 DEF Drop, DeliveryTypes
    <3> QED BY <3>1 DEF NewInv, Elements
  <2>5. ASSUME NEW z \in Subs, ReceiveFails(z) \/ LoopEnds(z) PROVE Goal
    BY <2>5, <2>4 DEF ReceiveFails, LoopEnds
  <2>6. ASSUME NEW n \in Msgs,
               Publish(n) \/ PublishReturns(n) \/ AttemptFails(n) \/ FakePublish(n) \/ FakeReturns(n)
        PROVE  Goal
    <3>1. UNCHANGED <<queue, spawned, handled>> /\ (pub'[m] = "new" => pub[m] = "new")
      BY <2>6 DEF Publish, PublishReturns, AttemptFails, FakePublish, FakeReturns, DeliveryTypes
    <3> QED BY <3>1 DEF NewInv
  <2>7. ASSUME NEW n \in Msgs, Execute(n) PROVE Goal
    <3>1. UNCHANGED <<spawned, handled>> /\ n # m /\ pub'[m] = pub[m]
      BY <2>7 DEF Execute, DeliveryTypes
    <3>2. queue'[s] \in {queue[s], Append(queue[s], n)}
      BY <2>7 DEF Execute
    <3>3. Elements(Append(queue[s], n)) \subseteq Elements(queue[s]) \union {n}
      BY <2>0, AppendElements
    <3>4. m \notin Elements(queue[s]) /\ spawned[s][m] = 0 /\ handled[s][m] = 0
      BY <3>1 DEF NewInv
    <3>5. m \notin Elements(queue'[s])
      BY <3>1, <3>2, <3>3, <3>4
    <3> QED BY <3>1, <3>4, <3>5
  <2>8. ASSUME NEW n \in Msgs, FakeSpawn(n) PROVE Goal
    <3>1. UNCHANGED <<pub, queue, handled>> /\ n # m
      BY <2>8 DEF FakeSpawn
    <3>2. spawned'[s][m] = spawned[s][m]
      BY <2>8, <3>1 DEF FakeSpawn, Spawn, DeliveryTypes
    <3> QED BY <3>1, <3>2 DEF NewInv
  <2>9. ASSUME NEW z \in Subs, Subscribe(z) \/ Connect(z) \/ ContextEnds(z) \/ FakeSubscribe(z)
        PROVE  UNCHANGED <<pub, queue, spawned, handled>>
    BY <2>9 DEF Subscribe, Connect, ContextEnds, FakeSubscribe
  <2>10. CASE UNCHANGED vars
    BY <2>1, <2>10 DEF vars
  <2> QED BY <2>1, <2>2, <2>3, <2>5, <2>6, <2>7, <2>8, <2>9, <2>10 DEF Next, Subscriber, Publisher
<1> QED BY <1>1, <1>2, Typing, PTL DEF Spec

(* Messages stay in the order in which their Publish calls followed each other. *)
THEOREM Ordered == Spec => []OrderInv
<1>1. Init => OrderInv
  BY DEF Init, OrderInv
<1>2. DeliveryTypes /\ ReachInv /\ NewInv /\ OrderInv /\ [Next]_vars => OrderInv'
  <2> SUFFICES ASSUME DeliveryTypes, ReachInv, NewInv, OrderInv, [Next]_vars PROVE OrderInv'
    OBVIOUS
  <2> USE DEF redis, fake, SubIs, PubIs
  <2>1. \A m \in Msgs : (pub[m] = "ok" => pub'[m] = "ok") /\ (pub[m] # "new" => pub'[m] # "new")
    <3> SUFFICES ASSUME NEW m \in Msgs, pub[m] # "new", pub'[m] # pub[m]
                 PROVE  pub'[m] # "new" /\ pub[m] # "ok"
      OBVIOUS
    <3>1. ASSUME NEW n \in Msgs, Publisher(n)
          PROVE  \/ UNCHANGED pub
                 \/ pub[n] # "ok" /\ \E p \in Pubs \ {"new"} : pub' = [pub EXCEPT ![n] = p]
      BY <3>1, Zenon DEF Publisher, Publish, Execute, PublishReturns, AttemptFails, FakePublish, FakeSpawn,
                         FakeReturns, Pubs
    <3>2. UNCHANGED pub \/ \E n \in Msgs : Publisher(n)
      BY DEF Next, vars, Subscriber, Subscribe, Connect, ReceiveFails, LoopEnds, Receive, ContextEnds,
             FakeSubscribe, HandlerReturns, Drop
    <3> QED BY <3>1, <3>2 DEF DeliveryTypes
  <2>2. \/ UNCHANGED before
        \/ \E z \in Msgs : Publish(z) /\ before' = [before EXCEPT ![z] = {n \in Msgs : pub[n] = "ok"}]
    BY DEF Next, vars, Subscriber, Publisher, Subscribe, Connect, ReceiveFails, LoopEnds, Receive,
           ContextEnds, FakeSubscribe, HandlerReturns, Drop, Publish, Execute, PublishReturns, AttemptFails,
           FakePublish, FakeSpawn, FakeReturns
  <2>3. before' \in [Msgs -> SUBSET Msgs]
    BY <2>2 DEF OrderInv
  <2>4. ASSUME NEW m \in Msgs, NEW n \in before'[m]
        PROVE  pub[n] = "ok" /\ pub'[m] # "new" /\ (n \in before[m] \/ Publish(m))
    <3>1. CASE UNCHANGED before
      BY <3>1, <2>1 DEF OrderInv
    <3>2. ASSUME NEW z \in Msgs, Publish(z), before' = [before EXCEPT ![z] = {x \in Msgs : pub[x] = "ok"}]
          PROVE  pub[n] = "ok" /\ pub'[m] # "new" /\ (n \in before[m] \/ Publish(m))
      <4>1. CASE z = m
        <5>1. pub[n] = "ok"
          BY <3>2, <4>1 DEF OrderInv
        <5>2. pub'[m] = "sending"
          BY <3>2, <4>1 DEF Publish, DeliveryTypes
        <5> QED BY <5>1, <5>2, <3>2, <4>1
      <4>2. CASE z # m
        <5>1. n \in before[m]
          BY <3>2, <4>2 DEF OrderInv
        <5> QED BY <5>1, <2>1 DEF OrderInv
      <4> QED BY <4>1, <4>2
    <3> QED BY <2>2, <3>1, <3>2
  <2>5. ASSUME NEW m \in Msgs, NEW n \in before'[m], NEW s \in Subs, s \in reach'[n]
        PROVE  Ahead(s, n, m)'
    <3> DEFINE Goal == Ahead(s, n, m)'
    <3>0. /\ n \in Msgs /\ pub[n] = "ok" /\ queue[s] \in Seq(Msgs)
          /\ spawned[s][m] \in Nat /\ handled[s][m] \in Nat /\ spawned[s][n] \in Nat /\ handled[s][n] \in Nat
      BY <2>3, <2>4, <2>5 DEF DeliveryTypes
    <3>1. ASSUME s \in reach[n], n \in before[m] PROVE Ahead(s, n, m) /\ kind = "redis" /\ sub[s] = "up" /\ With(s, n)
      BY <3>0, <3>1 DEF OrderInv, ReachInv
    <3>2. CASE Publish(m)
      <4>1. pub[m] = "new" /\ UNCHANGED <<queue, spawned, handled>>
        BY <3>2 DEF Publish
      <4>2. m \notin Elements(queue[s]) /\ spawned[s][m] = 0 /\ handled[s][m] = 0
        BY <4>1 DEF NewInv
      <4> QED BY <4>1, <4>2 DEF Ahead, Taken, Elements
    <3> SUFFICES ASSUME n \in before[m], ~Publish(m) PROVE Goal
      BY <2>4, <2>5, <3>2
    <3>3. CASE UNCHANGED <<queue, spawned, handled>> /\ s \in reach[n]
      BY <3>1, <3>3 DEF Ahead, Taken
    <3>4. ASSUME NEW z \in Msgs, Publish(z) PROVE Goal
      <4>1. z # n /\ UNCHANGED <<queue, spawned, handled>>
        BY <3>0, <3>4 DEF Publish
      <4>2. reach'[n] = reach[n]
        BY <3>4, <3>0, <4>1 DEF Publish, DeliveryTypes
      <4> QED BY <2>5, <3>3, <4>1, <4>2
    <3>5. ASSUME NEW z \in Msgs, Execute(z) PROVE Goal
      <4>1. UNCHANGED <<sub, spawned, handled, reach>>
        BY <3>5 DEF Execute
      <4>2. Ahead(s, n, m) /\ sub[s] = "up" /\ With(s, n)
        BY <2>5, <3>1, <4>1
      <4>3. queue'[s] = Append(queue[s], z)
        BY <3>5, <4>2 DEF Execute, Connected
      <4> DEFINE q == queue[s]
      <4>4. /\ Len(queue'[s]) = Len(q) + 1 /\ queue'[s][Len(q) + 1] = z /\ Len(q) \in Nat
            /\ \A i \in 1..Len(q) : queue'[s][i] = q[i]
        BY <3>0, <4>3, AppendElements
      <4>5. CASE Taken(s, n)
        BY <4>5, <4>1 DEF Ahead, Taken
      <4>6. CASE ~Taken(s, n)
        <5>1. PICK i \in 1..Len(q) : q[i] = n
          BY <4>2, <4>6 DEF With, Taken, Elements
        <5>2. ~Taken(s, m) /\ \A j \in 1..Len(q) : q[j] = m => \E k \in 1..(j - 1) : q[k] = n
          BY <4>2, <4>6 DEF Ahead
        <5>3. ASSUME NEW j \in 1..(Len(q) + 1), queue'[s][j] = m PROVE \E k \in 1..(j - 1) : queue'[s][k] = n
          <6>1. CASE j = Len(q) + 1
            <7>1. i \in 1..(j - 1) /\ queue'[s][i] = n
              BY <6>1, <5>1, <4>4
            <7> QED BY <7>1
          <6>2. CASE j \in 1..Len(q)
            <7>1. PICK k \in 1..(j - 1) : q[k] = n
              BY <6>2, <5>2, <5>3, <4>4
            <7>2. k \in 1..Len(q)
              BY <6>2, <4>4
            <7> QED BY <7>1, <7>2, <4>4
          <6> QED BY <6>1, <6>2, <4>4
        <5>4. ~Taken(s, m)'
          BY <5>2, <4>1 DEF Taken
        <5> QED BY <5>3, <5>4, <4>4 DEF Ahead
      <4> QED BY <4>5, <4>6
    <3>6. ASSUME NEW z \in Subs, Receive(z) PROVE Goal
      <4>1. UNCHANGED <<reach, handled>>
        BY <3>6 DEF Receive
      <4>2. Ahead(s, n, m)
        BY <2>5, <3>1, <4>1
      <4>3. CASE z # s
        <5>1. queue'[s] = queue[s] /\ spawned'[s] = spawned[s]
          BY <3>6, <4>3 DEF Receive, Spawn, DeliveryTypes
        <5> QED BY <5>1, <4>1, <4>2 DEF Ahead, Taken
      <4>4. CASE z = s
        <5> DEFINE q == queue[s]
                   h == Head(queue[s])
        <5>1. q # <<>> /\ h \in Msgs /\ Spawn(s, h) /\ queue'[s] = Tail(q)
          BY <3>6, <4>4, <3>0, TailElements DEF Receive, DeliveryTypes
        <5>2. spawned'[s][h] > 0 /\ spawned'[s][n] >= spawned[s][n]
          BY <5>1, <3>0, SpawnOne
        <5>3. CASE Taken(s, n) \/ h = n
          <6>1. spawned[s][n] \in Nat /\ spawned'[s][n] \in Nat
            <7>1. spawned \in [Subs -> [Msgs -> Nat]]
              BY <3>0 DEF DeliveryTypes
            <7>2. spawned' \in [Subs -> [Msgs -> Nat]]
              BY <5>1, <3>0, SpawnOne
            <7>3. spawned[s] \in [Msgs -> Nat] /\ spawned'[s] \in [Msgs -> Nat]
              BY <7>1, <7>2
            <7> QED BY <7>3, <3>0
          <6>2. CASE h = n
            <7>1. spawned'[s][n] > 0
              BY <5>2, <6>2
            <7>2. Taken(s, n)'
              BY <7>1 DEF Taken
            <7> QED BY <7>2 DEF Ahead
          <6>3. CASE spawned[s][n] > 0
            <7>1. spawned'[s][n] > 0
              BY <5>2, <6>1, <6>3
            <7>2. Taken(s, n)'
              BY <7>1 DEF Taken
            <7> QED BY <7>2 DEF Ahead
          <6>4. CASE Taken(s, n) /\ ~(spawned[s][n] > 0)
            <7>1. handled'[s][n] > 0
              BY <6>4, <4>1 DEF Taken
            <7>2. Taken(s, n)'
              BY <7>1 DEF Taken
            <7> QED BY <7>2 DEF Ahead
          <6> QED BY <5>3, <6>2, <6>3, <6>4
        <5>4. CASE ~Taken(s, n) /\ h # n
          <6>1. ~Taken(s, m) /\ \A j \in 1..Len(q) : q[j] = m => \E k \in 1..(j - 1) : q[k] = n
            BY <4>2, <5>4 DEF Ahead
          <6>2. /\ Len(q) \in Nat /\ Len(q) > 0 /\ h = q[1]
                /\ Len(Tail(q)) = Len(q) - 1 /\ \A i \in 1..Len(Tail(q)) : Tail(q)[i] = q[i + 1]
            BY <5>1, <3>0, TailElements
          <6>3. h # m
            <7>1. 1 \in 1..Len(q) /\ ~\E k \in 1..(1 - 1) : q[k] = n
              BY <6>2
            <7> QED BY <7>1, <6>1, <6>2
          <6>4. spawned'[s][m] = spawned[s][m]
            BY <5>1, <6>3 DEF Spawn, DeliveryTypes
          <6>5. ASSUME NEW j \in 1..Len(Tail(q)), Tail(q)[j] = m PROVE \E k \in 1..(j - 1) : Tail(q)[k] = n
            <7>1. j + 1 \in 1..Len(q) /\ q[j + 1] = m
              BY <6>2, <6>5
            <7>2. PICK k \in 1..((j + 1) - 1) : q[k] = n
              BY <7>1, <6>1
            <7>3. k # 1
              BY <7>2, <6>2, <5>4
            <7>4. k - 1 \in 1..(j - 1) /\ k - 1 \in 1..Len(Tail(q)) /\ (k - 1) + 1 = k
              BY <7>3, <6>2
            <7>5. Tail(q)[k - 1] = n
              BY <7>2, <7>4, <6>2
            <7> QED BY <7>4, <7>5
          <6>6. ~Taken(s, m)'
            BY <6>1, <6>4, <4>1 DEF Taken
          <6> QED BY <5>1, <6>5, <6>6 DEF Ahead
        <5> QED BY <5>3, <5>4
      <4> QED BY <4>3, <4>4
    <3>7. ASSUME NEW z \in Subs, NEW x \in Msgs, HandlerReturns(z, x) PROVE Goal
      <4>1. UNCHANGED <<queue, reach>> /\ spawned[z][x] \in Nat /\ handled[z][x] \in Nat /\ spawned[z][x] > 0
        BY <3>7 DEF HandlerReturns, DeliveryTypes
      <4>2. ASSUME NEW y \in Msgs PROVE Taken(s, y)' <=> Taken(s, y)
        <5>1. spawned'[s][y] = (IF z = s /\ x = y THEN spawned[z][x] - 1 ELSE spawned[s][y])
          BY <3>7 DEF HandlerReturns, DeliveryTypes
        <5>2. handled'[s][y] = (IF z = s /\ x = y THEN handled[z][x] + 1 ELSE handled[s][y])
          BY <3>7 DEF HandlerReturns, DeliveryTypes
        <5> QED BY <4>1, <5>1, <5>2 DEF Taken
      <4>3. Ahead(s, n, m)
        BY <2>5, <3>1, <4>1
      <4> QED BY <4>1, <4>2, <4>3, <3>0 DEF Ahead
    <3>8. ASSUME NEW z \in Subs, NEW state \in {"down", "ended"}, Drop(z, state) PROVE Goal
      <4>1. UNCHANGED <<spawned, handled>> /\ reach'[n] = reach[n] \ {z}
        BY <3>8, <3>0 DEF Drop
      <4>2. s # z /\ s \in reach[n]
        BY <2>5, <4>1
      <4>3. queue'[s] = queue[s] /\ Ahead(s, n, m)
        BY <3>8, <4>2, <3>1 DEF Drop, DeliveryTypes
      <4> QED BY <4>1, <4>3 DEF Ahead, Taken
    <3>9. ASSUME NEW z \in Subs, ReceiveFails(z) \/ LoopEnds(z) PROVE Goal
      BY <3>8, <3>9 DEF ReceiveFails, LoopEnds
    <3>10. ASSUME NEW z \in Subs, Subscribe(z) \/ Connect(z) \/ ContextEnds(z) \/ FakeSubscribe(z) PROVE Goal
      BY <2>5, <3>3, <3>10 DEF Subscribe, Connect, ContextEnds, FakeSubscribe
    <3>11. ASSUME NEW z \in Msgs, PublishReturns(z) \/ AttemptFails(z) \/ FakePublish(z) \/ FakeReturns(z) PROVE Goal
      BY <2>5, <3>3, <3>11 DEF PublishReturns, AttemptFails, FakePublish, FakeReturns
    <3>12. ASSUME NEW z \in Msgs, FakeSpawn(z) PROVE FALSE
      <4>1. UNCHANGED reach /\ kind = "fake"
        BY <3>12 DEF FakeSpawn, DeliveryTypes
      <4> QED BY <2>5, <3>1, <4>1
    <3>13. CASE UNCHANGED vars
      BY <2>5, <3>3, <3>13 DEF vars
    <3> QED BY <3>4, <3>5, <3>6, <3>7, <3>9, <3>10, <3>11, <3>12, <3>13 DEF Next, Subscriber, Publisher
  <2> QED BY <2>1, <2>3, <2>4, <2>5 DEF OrderInv
<1> QED BY <1>1, <1>2, Typing, Reached, Unpublished, PTL DEF Spec

(* A later message is not taken before an earlier one. *)
THEOREM InOrder == Spec => []TakenInOrder
<1>1. OrderInv => TakenInOrder
  BY DEF OrderInv, TakenInOrder, Ahead
<1> QED BY <1>1, Ordered, PTL

-------------------------------------------------------------------------------
\* Counting in a queue: its length bounds the count.
LEMMA CountType ==
  ASSUME NEW S, NEW q \in Seq(S), NEW x
  PROVE  /\ Count(q, x) \in Nat /\ IsFiniteSet({i \in 1..Len(q) : q[i] = x})
         /\ (x \notin Elements(q)) <=> Count(q, x) = 0
<1> DEFINE T == {i \in 1..Len(q) : q[i] = x}
<1>1. Len(q) \in Nat /\ IsFiniteSet(1..Len(q))
  BY FS_Interval
<1>2. IsFiniteSet(T) /\ Cardinality(T) \in Nat /\ (Cardinality(T) = 0 <=> T = {})
  BY <1>1, FS_Subset, FS_CardinalityType, FS_EmptySet
<1>3. T = {} <=> x \notin Elements(q)
  BY DEF Elements
<1> QED BY <1>2, <1>3 DEF Count

\* The empty queue.
LEMMA CountEmpty == \A x : Count(<<>>, x) = 0
BY CountType, FS_EmptySet DEF Elements, Count

\* One joins the queue.
LEMMA CountAppend ==
  ASSUME NEW S, NEW q \in Seq(S), NEW y \in S, NEW x
  PROVE  Count(Append(q, y), x) = Count(q, x) + (IF y = x THEN 1 ELSE 0)
<1> DEFINE T == {i \in 1..Len(q) : q[i] = x}
           a == Append(q, y)
           U == {i \in 1..Len(a) : a[i] = x}
<1>1. Len(q) \in Nat /\ Len(a) = Len(q) + 1 /\ a[Len(q) + 1] = y /\ \A i \in 1..Len(q) : a[i] = q[i]
  OBVIOUS
<1>2. U = IF y = x THEN T \union {Len(q) + 1} ELSE T
  BY <1>1
<1>3. Len(q) + 1 \notin T
  BY <1>1
<1>4. IsFiniteSet(T) /\ Cardinality(T) \in Nat
  BY CountType DEF Count
<1>5. Cardinality(T \union {Len(q) + 1}) = Cardinality(T) + 1
  BY <1>3, <1>4, FS_AddElement
<1> HIDE DEF T, U
<1>6. Cardinality(U) = Cardinality(T) + (IF y = x THEN 1 ELSE 0)
  BY <1>2, <1>4, <1>5
<1> QED BY <1>6 DEF Count, T, U

\* The first leaves it.
LEMMA CountTail ==
  ASSUME NEW S, NEW q \in Seq(S), q # <<>>, NEW x
  PROVE  /\ Head(q) \in S /\ Tail(q) \in Seq(S)
         /\ Count(q, x) = Count(Tail(q), x) + (IF Head(q) = x THEN 1 ELSE 0)
<1> DEFINE T == {i \in 1..Len(q) : q[i] = x}
           R == T \ {1}
           U == {i \in 1..Len(Tail(q)) : Tail(q)[i] = x}
<1>1. /\ Len(q) \in Nat /\ Len(q) > 0 /\ Head(q) = q[1] /\ Tail(q) \in Seq(S) /\ Head(q) \in S
      /\ Len(Tail(q)) = Len(q) - 1 /\ \A i \in 1..Len(Tail(q)) : Tail(q)[i] = q[i + 1]
  OBVIOUS
<1>2. IsFiniteSet(T) /\ Cardinality(T) \in Nat /\ IsFiniteSet(R)
      /\ Cardinality(R) = IF 1 \in T THEN Cardinality(T) - 1 ELSE Cardinality(T)
  <2>1. IsFiniteSet(T) /\ Cardinality(T) \in Nat
    BY CountType DEF Count
  <2> HIDE DEF T
  <2> QED BY <2>1, FS_RemoveElement
<1>3. 1 \in T <=> Head(q) = x
  BY <1>1
<1>4. Cardinality(U) = Cardinality(R)
  <2> DEFINE f == [i \in R |-> i - 1]
  <2>1. f \in [R -> U]
    <3> SUFFICES ASSUME NEW i \in R PROVE i - 1 \in U
      OBVIOUS
    <3>1. i \in 2..Len(q) /\ q[i] = x
      BY <1>1
    <3>2. i - 1 \in 1..Len(Tail(q)) /\ (i - 1) + 1 = i
      BY <1>1, <3>1
    <3> QED BY <1>1, <3>1, <3>2
  <2>2. \A i, j \in R : f[i] = f[j] => i = j
    BY <1>1
  <2>3. ASSUME NEW j \in U PROVE \E i \in R : f[i] = j
    <3>1. j + 1 \in R
      BY <1>1
    <3> QED BY <3>1, <1>1
  <2>4. f \in Bijection(R, U)
    BY <2>1, <2>2, <2>3, Fun_IsBij
  <2> HIDE DEF f, R, U
  <2>5. ExistsBijection(R, U)
    BY <2>4 DEF ExistsBijection
  <2> QED BY <2>5, <1>2, FS_Bijection
<1> HIDE DEF T, R, U
<1>5. Cardinality(T) = Cardinality(U) + (IF Head(q) = x THEN 1 ELSE 0)
  BY <1>2, <1>3, <1>4
<1> QED BY <1>1, <1>5 DEF Count, T, U

\* Where nobody occurs twice, everybody counts once.
LEMMA CountOnce ==
  ASSUME NEW S, NEW q \in Seq(S), \A i, j \in 1..Len(q) : q[i] = q[j] => i = j, NEW x
  PROVE  Count(q, x) = IF x \in Elements(q) THEN 1 ELSE 0
<1>1. CASE x \notin Elements(q)
  BY <1>1, CountType
<1>2. CASE x \in Elements(q)
  <2>1. PICK i \in 1..Len(q) : q[i] = x
    BY <1>2 DEF Elements
  <2>2. {j \in 1..Len(q) : q[j] = x} = {i}
    BY <2>1
  <2>3. Count(q, x) = Cardinality({i})
    BY <2>2 DEF Count
  <2> QED BY <2>3, <1>2, FS_Singleton
<1> QED BY <1>1, <1>2

-------------------------------------------------------------------------------
\* Publish sends its message out once for every attempt and one of the fake once.
CopiesInv ==
  /\ copies \in [Msgs -> 0..Attempts] /\ tries \in [Msgs -> 0..Attempts]
  /\ \A m \in Msgs :
       /\ pub[m] = "new" => copies[m] = 0 /\ tries[m] = 0
       /\ pub[m] = "sending" => copies[m] <= tries[m] /\ tries[m] < Attempts
       /\ pub[m] = "sent" => copies[m] <= tries[m] + 1 /\ tries[m] < Attempts
       /\ kind = "fake" => pub[m] \in {"new", "spawning", "ok"} /\ (pub[m] # "new" => copies[m] = 1)
       /\ pub[m] # "spawning" => todo[m] = <<>>

\* Nobody is twice among the fake's subscribers, and nothing waits for them.
ListInv ==
  /\ kind = "fake" => \A s \in Subs : queue[s] = <<>>
  /\ kind = "redis" => list = <<>>
  /\ Elements(list) \subseteq Connected
  /\ \A i, j \in 1..Len(list) : list[i] = list[j] => i = j

\* Nobody has or had more deliveries of a message than it was sent out.
DueInv == \A s \in Subs, m \in Msgs : Due(s, m) + handled[s][m] <= copies[m]

(* A message is sent out at most as often as its Publish is attempted. *)
THEOREM Copied == Spec => []CopiesInv
<1>1. Init => CopiesInv
  BY PubSubAssumption DEF Init, CopiesInv
<1>2. DeliveryTypes /\ CopiesInv /\ [Next]_vars => CopiesInv'
  <2> SUFFICES ASSUME DeliveryTypes, CopiesInv, [Next]_vars PROVE CopiesInv'
    OBVIOUS
  <2> USE DEF redis, fake, SubIs, PubIs
  <2>1. UNCHANGED kind
    BY DEF Next, vars, Subscriber, Publisher, Subscribe, Connect, ReceiveFails, LoopEnds, Receive,
           ContextEnds, FakeSubscribe, HandlerReturns, Drop, Publish, Execute, PublishReturns, AttemptFails,
           FakePublish, FakeSpawn, FakeReturns
  <2>2. CASE UNCHANGED <<pub, tries, copies, todo>>
    BY <2>1, <2>2 DEF CopiesInv
  <2>3. ASSUME NEW s \in Subs, Subscriber(s) PROVE UNCHANGED <<pub, tries, copies, todo>>
    BY <2>3 DEF Subscriber, Subscribe, Connect, ReceiveFails, LoopEnds, Receive, ContextEnds, FakeSubscribe,
                HandlerReturns, Drop
  <2>4. ASSUME NEW m \in Msgs, Publisher(m) PROVE CopiesInv'
    <3> DEFINE Good(n) ==
          /\ pub'[n] = "new" => copies'[n] = 0 /\ tries'[n] = 0
          /\ pub'[n] = "sending" => copies'[n] <= tries'[n] /\ tries'[n] < Attempts
          /\ pub'[n] = "sent" => copies'[n] <= tries'[n] + 1 /\ tries'[n] < Attempts
          /\ kind' = "fake" => pub'[n] \in {"new", "spawning", "ok"} /\ (pub'[n] # "new" => copies'[n] = 1)
          /\ pub'[n] # "spawning" => todo'[n] = <<>>
    <3>1. ASSUME NEW n \in Msgs, n # m
          PROVE  pub'[n] = pub[n] /\ tries'[n] = tries[n] /\ copies'[n] = copies[n] /\ todo'[n] = todo[n]
      BY <2>4, <3>1 DEF Publisher, Publish, Execute, PublishReturns, AttemptFails, FakePublish, FakeSpawn,
                        FakeReturns, DeliveryTypes, CopiesInv
    <3>2. ASSUME NEW n \in Msgs, n # m PROVE Good(n)
      BY <3>1, <3>2, <2>1 DEF CopiesInv
    <3>3. /\ copies[m] \in 0..Attempts /\ tries[m] \in 0..Attempts /\ Attempts \in Nat /\ Attempts > 0
          /\ pub[m] \in Pubs /\ todo[m] \in Seq(Subs)
      BY PubSubAssumption DEF CopiesInv, DeliveryTypes
    <3>4. CASE Publish(m) \/ PublishReturns(m) \/ FakeReturns(m)
      <4>1. UNCHANGED <<tries, copies, todo>>
        BY <3>4 DEF Publish, PublishReturns, FakeReturns
      <4>2. pub'[m] \in {"sending", "ok"} /\ (pub'[m] = "sending" => pub[m] = "new" /\ kind = "redis")
            /\ (pub[m] = "spawning" => todo[m] = <<>>)
            /\ (pub'[m] = "ok" => pub[m] \in {"sent", "spawning"})
        BY <3>4 DEF Publish, PublishReturns, FakeReturns, DeliveryTypes
      <4>3. Good(m)
        BY <4>1, <4>2, <3>3, <2>1 DEF CopiesInv
      <4> QED BY <4>1, <4>3, <3>2 DEF CopiesInv
    <3>5. CASE Execute(m)
      <4>1. copies'[m] = copies[m] + 1 /\ copies' \in [Msgs -> 0..Attempts] /\ UNCHANGED <<tries, todo>>
        <5>1. copies[m] <= tries[m] /\ tries[m] < Attempts
          BY <3>5 DEF Execute, CopiesInv
        <5>2. copies[m] + 1 \in 0..Attempts
          BY <5>1, <3>3
        <5> QED BY <5>2, <3>5 DEF Execute, CopiesInv
      <4>2. pub[m] = "sending" /\ pub'[m] = "sent"
        BY <3>5 DEF Execute, DeliveryTypes
      <4>3. copies[m] <= tries[m] /\ tries[m] < Attempts /\ kind # "fake" /\ todo[m] = <<>>
        BY <4>2 DEF CopiesInv
      <4>4. copies'[m] <= tries'[m] + 1 /\ tries'[m] < Attempts
        BY <4>1, <4>3, <3>3
      <4>5. Good(m)
        BY <4>1, <4>2, <4>3, <4>4, <2>1
      <4> QED BY <4>1, <4>5, <3>2 DEF CopiesInv
    <3>6. CASE AttemptFails(m)
      <4>1. tries'[m] = tries[m] + 1 /\ tries' \in [Msgs -> 0..Attempts] /\ UNCHANGED <<copies, todo>>
        BY <3>3, <3>6 DEF AttemptFails, CopiesInv
      <4>2. pub[m] \in {"sending", "sent"} /\ (pub'[m] = "failed" \/ (pub'[m] = "sending" /\ tries[m] + 1 < Attempts))
        BY <3>6 DEF AttemptFails, DeliveryTypes
      <4>3. copies[m] <= tries[m] + 1 /\ kind # "fake" /\ todo[m] = <<>>
        <5>1. copies[m] <= tries[m] \/ copies[m] <= tries[m] + 1
          BY <4>2 DEF CopiesInv
        <5>2. copies[m] <= tries[m] + 1
          BY <5>1, <3>3
        <5> QED BY <5>2, <4>2 DEF CopiesInv
      <4>4. copies'[m] <= tries'[m]
        BY <4>1, <4>3
      <4>5. Good(m)
        BY <4>1, <4>2, <4>3, <4>4, <2>1
      <4> QED BY <4>1, <4>5, <3>2 DEF CopiesInv
    <3>7. CASE FakePublish(m)
      <4>1. copies'[m] = 1 /\ copies' \in [Msgs -> 0..Attempts] /\ UNCHANGED tries
        BY <3>3, <3>7 DEF FakePublish, CopiesInv
      <4>2. pub'[m] = "spawning"
        BY <3>7 DEF FakePublish, DeliveryTypes
      <4> QED BY <4>1, <4>2, <3>2 DEF CopiesInv
    <3>8. CASE FakeSpawn(m)
      <4>1. UNCHANGED <<pub, tries, copies>> /\ pub[m] = "spawning"
        BY <3>8 DEF FakeSpawn
      <4> QED BY <4>1, <3>2, <2>1 DEF CopiesInv
    <3> QED BY <2>4, <3>4, <3>5, <3>6, <3>7, <3>8 DEF Publisher
  <2>5. CASE UNCHANGED vars
    BY <2>2, <2>5 DEF vars
  <2> QED BY <2>2, <2>3, <2>4, <2>5 DEF Next
<1> QED BY <1>1, <1>2, Typing, PTL DEF Spec

(* A subscription to the fake is in its list once at most, and has a connection. *)
THEOREM Listed == Spec => []ListInv
<1>1. Init => ListInv
  BY DEF Init, ListInv, Elements
<1>2. DeliveryTypes /\ CopiesInv /\ ListInv /\ [Next]_vars => ListInv'
  <2> SUFFICES ASSUME DeliveryTypes, CopiesInv, ListInv, [Next]_vars PROVE ListInv'
    OBVIOUS
  <2> USE DEF redis, fake, SubIs, PubIs
  <2>1. CASE UNCHANGED <<kind, queue, list, sub>>
    BY <2>1 DEF ListInv, Connected, Elements
  <2>2. ASSUME NEW m \in Msgs, Publisher(m) PROVE ListInv'
    <3>1. ~Execute(m) => UNCHANGED <<kind, queue, list, sub>>
      BY <2>2 DEF Publisher, Publish, PublishReturns, AttemptFails, FakePublish, FakeSpawn, FakeReturns
    <3>2. CASE Execute(m)
      <4>1. kind' = "redis" /\ list' = <<>>
        BY <3>2 DEF Execute, CopiesInv, DeliveryTypes, ListInv
      <4> QED BY <4>1 DEF ListInv, Elements
    <3> QED BY <2>1, <3>1, <3>2
  <2>3. ASSUME NEW s \in Subs,
               Subscribe(s) \/ Connect(s) \/ ReceiveFails(s) \/ LoopEnds(s)
        PROVE  ListInv'
    <3>1. kind' = "redis" /\ list' = <<>>
      BY <2>3 DEF Subscribe, Connect, ReceiveFails, LoopEnds, Drop, ListInv
    <3> QED BY <3>1 DEF ListInv, Elements
  <2>4. ASSUME NEW s \in Subs, FakeSubscribe(s) PROVE ListInv'
    <3>1. kind' = "fake" /\ Connected' = Connected \union {s} /\ s \notin Connected
      BY <2>4 DEF FakeSubscribe, Connected, DeliveryTypes
    <3>0. UNCHANGED <<kind, queue>>
      BY <2>4 DEF FakeSubscribe
    <3>2. CASE list' = list
      BY <3>0, <3>1, <3>2 DEF ListInv, Elements
    <3>3. CASE list' = Append(list, s)
      <4>1. list \in Seq(Subs) /\ Len(list) \in Nat
        BY DEF DeliveryTypes
      <4>2. /\ Len(list') = Len(list) + 1 /\ list'[Len(list) + 1] = s
            /\ \A i \in 1..Len(list) : list'[i] = list[i]
        BY <4>1, <3>3
      <4>3. Elements(list') = Elements(list) \union {s} /\ s \notin Elements(list)
        BY <4>1, <4>2, <3>1 DEF Elements, ListInv
      <4>4. \A i, j \in 1..Len(list') : list'[i] = list'[j] => i = j
        BY <4>1, <4>2, <4>3 DEF Elements, ListInv
      <4> QED BY <4>3, <4>4, <3>0, <3>1 DEF ListInv
    <3> QED BY <2>4, <3>2, <3>3 DEF FakeSubscribe, Update
  <2>5. ASSUME NEW s \in Subs, Receive(s) PROVE ListInv'
    <3>1. kind' = "redis" /\ list' = <<>>
      BY <2>5 DEF Receive, ListInv, DeliveryTypes
    <3> QED BY <3>1 DEF ListInv, Elements
  <2>7. ASSUME NEW s \in Subs, ContextEnds(s) \/ \E m \in Msgs : HandlerReturns(s, m)
        PROVE  UNCHANGED <<kind, queue, list, sub>>
    BY <2>7 DEF ContextEnds, HandlerReturns
  <2>6. CASE UNCHANGED vars
    BY <2>1, <2>6 DEF vars
  <2> QED BY <2>1, <2>2, <2>3, <2>4, <2>5, <2>6, <2>7 DEF Next, Subscriber
<1> QED BY <1>1, <1>2, Typing, Copied, PTL DEF Spec

-------------------------------------------------------------------------------
(* What each step does to the deliveries under way *)

\* Their number is a number.
LEMMA DueType ==
  ASSUME DeliveryTypes, NEW s \in Subs, NEW m \in Msgs
  PROVE  Due(s, m) \in Nat /\ Count(queue[s], m) \in Nat /\ Count(todo[m], s) \in Nat
<1>1. queue[s] \in Seq(Msgs) /\ todo[m] \in Seq(Subs) /\ spawned[s][m] \in Nat
  BY DEF DeliveryTypes
<1>2. Count(queue[s], m) \in Nat /\ Count(todo[m], s) \in Nat
  BY <1>1, CountType
<1> QED BY <1>1, <1>2 DEF Due

\* A goroutine that is created counts where it is.
LEMMA SpawnCounts ==
  ASSUME DeliveryTypes, NEW z \in Subs, NEW n \in Msgs, Spawn(z, n), NEW s \in Subs, NEW m \in Msgs
  PROVE  spawned'[s][m] = spawned[s][m] + (IF z = s /\ n = m THEN 1 ELSE 0)
<1>1. spawned \in [Subs -> [Msgs -> Nat]] /\ spawned[s][m] \in Nat
  BY DEF DeliveryTypes
<1>2. spawned'[s][m] = IF z = s /\ n = m THEN spawned[s][m] + 1 ELSE spawned[s][m]
  BY <1>1 DEF Spawn
<1> QED BY <1>1, <1>2

\* Receive and the fake's loop create a goroutine for what was due.
LEMMA DueStays ==
  ASSUME DeliveryTypes, NEW z \in Subs, NEW n \in Msgs, Receive(z) \/ FakeSpawn(n),
         NEW s \in Subs, NEW m \in Msgs
  PROVE  Due(s, m)' = Due(s, m)
<1> USE DEF redis, fake
<1>0. spawned[s][m] \in Nat /\ Count(queue[s], m) \in Nat /\ Count(todo[m], s) \in Nat
  BY DueType DEF DeliveryTypes
<1>1. CASE Receive(z)
  <2>1. queue[z] \in Seq(Msgs) /\ queue[z] # <<>> /\ UNCHANGED todo
    BY <1>1 DEF DeliveryTypes, Receive
  <2>2. /\ Head(queue[z]) \in Msgs
        /\ Count(queue[z], m) = Count(Tail(queue[z]), m) + (IF Head(queue[z]) = m THEN 1 ELSE 0)
    BY <2>1, CountTail
  <2>3. spawned'[s][m] = spawned[s][m] + (IF z = s /\ Head(queue[z]) = m THEN 1 ELSE 0)
    BY <1>1, <2>2, SpawnCounts DEF Receive
  <2>4. queue'[s] = IF z = s THEN Tail(queue[z]) ELSE queue[s]
    BY <1>1 DEF Receive, DeliveryTypes
  <2>5. Tail(queue[z]) \in Seq(Msgs)
    BY <2>1, CountTail
  <2>6. Count(Tail(queue[z]), m) \in Nat
    BY <2>5, CountType
  <2>7. CASE z = s
    <3>1. Count(queue'[s], m) + spawned'[s][m] = Count(queue[s], m) + spawned[s][m]
      BY <2>7, <2>2, <2>3, <2>4, <2>6, <1>0
    <3> QED BY <3>1, <2>1 DEF Due
  <2>8. CASE z # s
    BY <2>8, <2>1, <2>3, <2>4, <1>0 DEF Due
  <2> QED BY <2>7, <2>8
<1>2. CASE FakeSpawn(n)
  <2>1. todo[n] \in Seq(Subs) /\ todo[n] # <<>> /\ UNCHANGED queue
    BY <1>2 DEF DeliveryTypes, FakeSpawn
  <2>2. /\ Head(todo[n]) \in Subs /\ Tail(todo[n]) \in Seq(Subs)
        /\ Count(todo[n], s) = Count(Tail(todo[n]), s) + (IF Head(todo[n]) = s THEN 1 ELSE 0)
    BY <2>1, CountTail
  <2>3. spawned'[s][m] = spawned[s][m] + (IF n = m /\ Head(todo[n]) = s THEN 1 ELSE 0)
    BY <1>2, <2>2, SpawnCounts DEF FakeSpawn
  <2>4. todo'[m] = IF n = m THEN Tail(todo[n]) ELSE todo[m]
    BY <1>2 DEF FakeSpawn, DeliveryTypes
  <2>6. Count(Tail(todo[n]), s) \in Nat
    BY <2>2, CountType
  <2>7. CASE n = m
    <3>1. spawned'[s][m] + Count(todo'[m], s) = spawned[s][m] + Count(todo[m], s)
      BY <2>7, <2>2, <2>3, <2>4, <2>6, <1>0
    <3>2. Count(todo'[m], s) \in Nat /\ spawned'[s][m] \in Nat
      BY <2>3, <2>4, <2>6, <1>0
    <3>3. Count(queue'[s], m) = Count(queue[s], m)
      BY <2>1
    <3>4. Count(queue'[s], m) + spawned'[s][m] + Count(todo'[m], s)
            = Count(queue[s], m) + spawned[s][m] + Count(todo[m], s)
      BY <3>1, <3>2, <3>3, <1>0
    <3> QED BY <3>4 DEF Due
  <2>8. CASE n # m
    BY <2>8, <2>1, <2>3, <2>4, <1>0 DEF Due
  <2> QED BY <2>7, <2>8
<1> QED BY <1>1, <1>2

\* A handler that returns is one delivery less.
LEMMA DueReturns ==
  ASSUME DeliveryTypes, NEW z \in Subs, NEW n \in Msgs, HandlerReturns(z, n),
         NEW s \in Subs, NEW m \in Msgs
  PROVE  IF z = s /\ n = m
         THEN Due(s, m) > 0 /\ Due(s, m)' = Due(s, m) - 1 /\ handled'[s][m] = handled[s][m] + 1
         ELSE Due(s, m)' = Due(s, m) /\ handled'[s][m] = handled[s][m]
<1>1. spawned[s][m] \in Nat /\ Count(queue[s], m) \in Nat /\ Count(todo[m], s) \in Nat
  BY DueType DEF DeliveryTypes
<1>2. UNCHANGED <<queue, todo>> /\ spawned[z][n] > 0
  BY DEF HandlerReturns, redis, fake
<1>3. spawned'[s][m] = IF z = s /\ n = m THEN spawned[s][m] - 1 ELSE spawned[s][m]
  BY DEF HandlerReturns, DeliveryTypes
<1>4. handled'[s][m] = IF z = s /\ n = m THEN handled[s][m] + 1 ELSE handled[s][m]
  BY DEF HandlerReturns, DeliveryTypes
<1> QED BY <1>1, <1>2, <1>3, <1>4 DEF Due

\* A message that is sent out is due once more to some of those who have subscribed.
LEMMA DuePublish ==
  ASSUME DeliveryTypes, ListInv, CopiesInv, NEW n \in Msgs, Execute(n) \/ FakePublish(n)
  PROVE  /\ copies[n] < Attempts /\ copies' = [copies EXCEPT ![n] = @ + 1]
         /\ \E to \in SUBSET {s \in Subs : sub[s] # "idle"} : \A s \in Subs, m \in Msgs :
              Due(s, m)' = Due(s, m) + (IF m = n /\ s \in to THEN 1 ELSE 0)
<1> USE DEF redis, fake
<1>0. /\ copies[n] \in Nat /\ tries[n] \in Nat /\ Attempts \in Nat /\ Attempts > 0
      /\ \A s \in Subs, m \in Msgs :
           spawned[s][m] \in Nat /\ Count(queue[s], m) \in Nat /\ Count(todo[m], s) \in Nat
  BY DueType, PubSubAssumption DEF CopiesInv, DeliveryTypes
<1>1. Connected \in SUBSET {s \in Subs : sub[s] # "idle"}
  BY DEF Connected
<1>2. CASE Execute(n)
  <2>1. copies[n] < Attempts /\ copies' = [copies EXCEPT ![n] = @ + 1]
    <3>1. copies[n] <= tries[n] /\ tries[n] < Attempts
      BY <1>2 DEF Execute, CopiesInv
    <3> QED BY <3>1, <1>0, <1>2 DEF Execute
  <2>2. ASSUME NEW s \in Subs, NEW m \in Msgs
        PROVE  Due(s, m)' = Due(s, m) + (IF m = n /\ s \in Connected THEN 1 ELSE 0)
    <3>1. queue[s] \in Seq(Msgs)
      BY DEF DeliveryTypes
    <3>2. Count(Append(queue[s], n), m) = Count(queue[s], m) + (IF n = m THEN 1 ELSE 0)
      BY <3>1, CountAppend
    <3>3. queue'[s] = (IF s \in Connected THEN Append(queue[s], n) ELSE queue[s]) /\ UNCHANGED <<spawned, todo>>
      BY <1>2 DEF Execute
    <3>4. Count(queue'[s], m) = Count(queue[s], m) + (IF m = n /\ s \in Connected THEN 1 ELSE 0)
      BY <3>2, <3>3, <1>0
    <3> QED BY <3>3, <3>4, <1>0 DEF Due
  <2> QED BY <1>1, <2>1, <2>2
<1>3. CASE FakePublish(n)
  <2>1. kind = "fake" /\ pub[n] = "new" /\ UNCHANGED <<queue, spawned>>
    BY <1>3 DEF FakePublish
  <2>2. copies[n] = 0 /\ todo[n] = <<>>
    BY <2>1 DEF CopiesInv
  <2>3. copies[n] < Attempts /\ copies' = [copies EXCEPT ![n] = @ + 1]
    BY <2>2, <1>0, <1>3 DEF FakePublish
  <2>4. Elements(list) \in SUBSET {s \in Subs : sub[s] # "idle"}
    BY <1>1 DEF ListInv
  <2>5. ASSUME NEW s \in Subs, NEW m \in Msgs
        PROVE  Due(s, m)' = Due(s, m) + (IF m = n /\ s \in Elements(list) THEN 1 ELSE 0)
    <3>1. Count(list, s) = (IF s \in Elements(list) THEN 1 ELSE 0)
      BY CountOnce DEF ListInv, DeliveryTypes
    <3>2. todo'[m] = IF m = n THEN list ELSE todo[m]
      BY <1>3 DEF FakePublish, DeliveryTypes
    <3>3. Count(todo'[m], s) = Count(todo[m], s) + (IF m = n /\ s \in Elements(list) THEN 1 ELSE 0)
      BY <3>1, <3>2, <2>2, <1>0, CountEmpty
    <3> QED BY <3>3, <2>1, <1>0 DEF Due
  <2> QED BY <2>3, <2>4, <2>5
<1> QED BY <1>2, <1>3

\* What is dropped was due.
LEMMA DueDrop ==
  ASSUME DeliveryTypes, NEW z \in Subs, ReceiveFails(z) \/ LoopEnds(z), NEW s \in Subs, NEW m \in Msgs
  PROVE  /\ Due(s, m)' \in Nat /\ Due(s, m)' <= Due(s, m)
         /\ s # z => Due(s, m)' = Due(s, m)
<1>1. queue'[s] = (IF s = z THEN <<>> ELSE queue[s]) /\ UNCHANGED <<spawned, todo>>
  BY DEF ReceiveFails, LoopEnds, Drop, DeliveryTypes, fake
<1>2. spawned[s][m] \in Nat /\ Count(queue[s], m) \in Nat /\ Count(todo[m], s) \in Nat
  BY DueType DEF DeliveryTypes
<1>3. Count(queue'[s], m) = IF s = z THEN 0 ELSE Count(queue[s], m)
  BY <1>1, CountEmpty
<1> QED BY <1>1, <1>2, <1>3 DEF Due

-------------------------------------------------------------------------------
(* Each delivery has a copy of its own. *)
THEOREM DueBounded == Spec => []DueInv
<1>1. Init => DueInv
  BY CountEmpty DEF Init, DueInv, Due
<1>2. DeliveryTypes /\ ListInv /\ CopiesInv /\ DueInv /\ [Next]_vars => DueInv'
  <2> SUFFICES ASSUME DeliveryTypes, ListInv, CopiesInv, DueInv, [Next]_vars, NEW s \in Subs, NEW m \in Msgs
               PROVE  Due(s, m)' + handled'[s][m] <= copies'[m]
    BY DEF DueInv
  <2> DEFINE Goal == Due(s, m)' + handled'[s][m] <= copies'[m]
  <2> USE DEF redis, fake
  <2>0. /\ Due(s, m) \in Nat /\ handled[s][m] \in Nat /\ copies[m] \in Nat
        /\ Due(s, m) + handled[s][m] <= copies[m]
    BY DueType DEF DeliveryTypes, CopiesInv, DueInv
  <2>1. CASE UNCHANGED <<queue, spawned, todo, handled, copies>>
    BY <2>0, <2>1 DEF Due
  <2>2. ASSUME NEW z \in Subs, NEW n \in Msgs, HandlerReturns(z, n) PROVE Goal
    <3>1. copies'[m] = copies[m]
      BY <2>2 DEF HandlerReturns
    <3> QED BY <3>1, <2>0, <2>2, DueReturns
  <2>3. ASSUME NEW z \in Subs, Receive(z) PROVE Goal
    BY <2>0, <2>3, DueStays DEF Receive
  <2>4. ASSUME NEW n \in Msgs, FakeSpawn(n) PROVE Goal
    BY <2>0, <2>4, DueStays DEF FakeSpawn
  <2>5. ASSUME NEW z \in Subs, ReceiveFails(z) \/ LoopEnds(z) PROVE Goal
    <3>1. Due(s, m)' \in Nat /\ Due(s, m)' <= Due(s, m)
      BY <2>5, DueDrop
    <3> QED BY <3>1, <2>0, <2>5 DEF ReceiveFails, LoopEnds, Drop
  <2>6. ASSUME NEW n \in Msgs, Execute(n) \/ FakePublish(n) PROVE Goal
    <3>1. copies' = [copies EXCEPT ![n] = @ + 1] /\ handled'[s][m] = handled[s][m]
      BY <2>6, DuePublish DEF Execute, FakePublish
    <3>2. copies'[m] = copies[m] + (IF m = n THEN 1 ELSE 0)
      BY <3>1, <2>0 DEF CopiesInv
    <3>3. PICK to \in SUBSET {x \in Subs : sub[x] # "idle"} :
            Due(s, m)' = Due(s, m) + (IF m = n /\ s \in to THEN 1 ELSE 0)
      BY <2>6, DuePublish
    <3> QED BY <3>1, <3>2, <3>3, <2>0
  <2>7. ASSUME NEW z \in Subs, Subscribe(z) \/ Connect(z) \/ ContextEnds(z) \/ FakeSubscribe(z) PROVE Goal
    BY <2>1, <2>7 DEF Subscribe, Connect, ContextEnds, FakeSubscribe
  <2>8. ASSUME NEW n \in Msgs, Publish(n) \/ PublishReturns(n) \/ AttemptFails(n) \/ FakeReturns(n) PROVE Goal
    BY <2>1, <2>8 DEF Publish, PublishReturns, AttemptFails, FakeReturns
  <2>9. CASE UNCHANGED vars
    BY <2>1, <2>9 DEF vars
  <2> QED BY <2>2, <2>3, <2>4, <2>5, <2>6, <2>7, <2>8, <2>9 DEF Next, Subscriber, Publisher
<1> QED BY <1>1, <1>2, Typing, Copied, Listed, PTL DEF Spec

\* The variables that deliveries do not depend on.
RestTypes ==
  /\ ctx \in [Subs -> {"open", "cancelled", "expired"}] /\ faults \in 0..MaxFaults
  /\ sent \in Nat /\ received \in Nat /\ alone \in BOOLEAN

(* The type invariant, with the bound on the handlers of a message. *)
THEOREM PubSubTypes == Spec => []TypeOK
<1>1. Init => RestTypes
  BY PubSubAssumption DEF Init, RestTypes
<1>2. DeliveryTypes /\ RestTypes /\ [Next]_vars => RestTypes'
  <2> SUFFICES ASSUME DeliveryTypes, RestTypes, [Next]_vars PROVE RestTypes'
    OBVIOUS
  <2> USE DEF redis, fake
  <2>1. ctx' \in [Subs -> {"open", "cancelled", "expired"}]
    <3>1. UNCHANGED ctx \/ \E s \in Subs : \E how \in {"cancelled", "expired"} : ctx' = [ctx EXCEPT ![s] = how]
      BY DEF Next, vars, Subscriber, Publisher, Subscribe, Connect, ReceiveFails, LoopEnds, Receive,
             ContextEnds, FakeSubscribe, HandlerReturns, Drop, Publish, Execute, PublishReturns, AttemptFails,
             FakePublish, FakeSpawn, FakeReturns
    <3> QED BY <3>1 DEF RestTypes
  <2>2. faults' \in 0..MaxFaults
    <3>1. UNCHANGED faults \/ Fault
      BY DEF Next, vars, Subscriber, Publisher, Subscribe, Connect, ReceiveFails, LoopEnds, Receive,
             ContextEnds, FakeSubscribe, HandlerReturns, Drop, Publish, Execute, PublishReturns, AttemptFails,
             FakePublish, FakeSpawn, FakeReturns
    <3> QED BY <3>1, PubSubAssumption DEF Fault, RestTypes
  <2>3. sent' \in {sent, sent + 1} /\ received' \in {received, received + 1} /\ alone' \in {alone, FALSE}
    <3>1. CASE UNCHANGED <<sent, received, alone>>
      BY <3>1
    <3>2. ASSUME NEW s \in Subs, Subscriber(s), ~FakeSubscribe(s) PROVE UNCHANGED <<sent, received, alone>>
      BY <3>2 DEF Subscriber, Subscribe, Connect, ReceiveFails, LoopEnds, Receive, ContextEnds,
                  HandlerReturns, Drop
    <3>3. ASSUME NEW s \in Subs, FakeSubscribe(s) PROVE UNCHANGED <<sent, received>> /\ alone' \in {alone, FALSE}
      BY <3>3 DEF FakeSubscribe, Update
    <3>4. ASSUME NEW m \in Msgs, Publish(m) \/ Execute(m) \/ PublishReturns(m) \/ AttemptFails(m) \/ FakeReturns(m)
          PROVE  UNCHANGED <<sent, received, alone>>
      BY <3>4 DEF Publish, Execute, PublishReturns, AttemptFails, FakeReturns
    <3>5. ASSUME NEW m \in Msgs, FakePublish(m) \/ FakeSpawn(m)
          PROVE  sent' \in {sent, sent + 1} /\ received' \in {received, received + 1} /\ alone' \in {alone, FALSE}
      BY <3>5 DEF FakePublish, FakeSpawn, Update
    <3>6. CASE UNCHANGED vars
      BY <3>1, <3>6 DEF vars
    <3> QED BY <3>1, <3>2, <3>3, <3>4, <3>5, <3>6 DEF Next, Publisher
  <2>4. sent' \in Nat /\ received' \in Nat
    BY <2>3 DEF RestTypes
  <2>5. alone' \in BOOLEAN
    BY <2>3, Zenon DEF RestTypes
  <2> QED BY <2>1, <2>2, <2>4, <2>5 DEF RestTypes
<1>3. DeliveryTypes /\ OrderInv /\ CopiesInv /\ DueInv /\ RestTypes => TypeOK
  <2> SUFFICES ASSUME DeliveryTypes, OrderInv, CopiesInv, DueInv, RestTypes PROVE TypeOK
    OBVIOUS
  <2>1. ASSUME NEW s \in Subs, NEW m \in Msgs
        PROVE  spawned[s][m] \in 0..Attempts /\ handled[s][m] \in 0..Attempts
    <3>1. /\ spawned[s][m] \in Nat /\ handled[s][m] \in Nat /\ copies[m] \in 0..Attempts /\ Attempts \in Nat
          /\ Count(queue[s], m) \in Nat /\ Count(todo[m], s) \in Nat
      BY DueType, PubSubAssumption DEF DeliveryTypes, CopiesInv
    <3>2. Count(queue[s], m) + spawned[s][m] + Count(todo[m], s) + handled[s][m] <= copies[m]
      BY DEF DueInv, Due
    <3> QED BY <3>1, <3>2
  <2>2. spawned \in [Subs -> [Msgs -> 0..Attempts]] /\ handled \in [Subs -> [Msgs -> 0..Attempts]]
    <3>1. spawned \in [Subs -> [Msgs -> Nat]] /\ handled \in [Subs -> [Msgs -> Nat]]
      BY DEF DeliveryTypes
    <3>2. ASSUME NEW s \in Subs PROVE spawned[s] \in [Msgs -> 0..Attempts] /\ handled[s] \in [Msgs -> 0..Attempts]
      <4>1. spawned[s] \in [Msgs -> Nat] /\ handled[s] \in [Msgs -> Nat]
        BY <3>1
      <4> QED BY <2>1, <4>1
    <3> QED BY <3>1, <3>2
  <2> QED BY <2>2 DEF TypeOK, DeliveryTypes, OrderInv, CopiesInv, RestTypes, Pubs
<1> QED BY <1>1, <1>2, <1>3, Typing, Ordered, Copied, DueBounded, PTL DEF Spec

-------------------------------------------------------------------------------
TakenPairs == {d \in Subs \X Msgs : Taken(d[1], d[2])}
Sent == {m \in Msgs : copies[m] > 0}

\* As long as no update of the fake was lost, its counters count, and its list has everybody.
ExactInv ==
  alone /\ kind = "fake" =>
    /\ IsFiniteSet(Sent) /\ sent = Cardinality(Sent)
    /\ IsFiniteSet(TakenPairs) /\ received = Cardinality(TakenPairs)
    /\ Connected \subseteq Elements(list)

(* The counters tell the truth at every moment at which a Publish does not stand between       *)
(* counting a handler and creating its goroutine, which the model does in one step.             *)
THEOREM Counted == Spec => []ExactInv
<1>1. Init => ExactInv
  <2> SUFFICES ASSUME Init PROVE ExactInv
    OBVIOUS
  <2>1. Sent = {} /\ TakenPairs = {} /\ Connected = {} /\ sent = 0 /\ received = 0
    BY DEF Init, Sent, TakenPairs, Taken, Connected
  <2> QED BY <2>1, FS_EmptySet DEF ExactInv
<1>2. DeliveryTypes /\ CopiesInv /\ ListInv /\ DueInv /\ ExactInv /\ [Next]_vars => ExactInv'
  <2> SUFFICES ASSUME DeliveryTypes, CopiesInv, ListInv, DueInv, ExactInv, [Next]_vars, alone', kind' = "fake"
               PROVE  /\ IsFiniteSet(Sent') /\ sent' = Cardinality(Sent')
                      /\ IsFiniteSet(TakenPairs') /\ received' = Cardinality(TakenPairs')
                      /\ Connected' \subseteq Elements(list')
    BY DEF ExactInv
  <2> DEFINE Goal == /\ IsFiniteSet(Sent') /\ sent' = Cardinality(Sent')
                     /\ IsFiniteSet(TakenPairs') /\ received' = Cardinality(TakenPairs')
                     /\ Connected' \subseteq Elements(list')
  <2> USE DEF redis, fake, SubIs, PubIs
  <2>0. alone /\ kind = "fake"
    BY DEF Next, vars, Subscriber, Publisher, Subscribe, Connect, ReceiveFails, LoopEnds, Receive,
           ContextEnds, FakeSubscribe, HandlerReturns, Drop, Publish, Execute, PublishReturns, AttemptFails,
           FakePublish, FakeSpawn, FakeReturns, Update
  <2>1. /\ IsFiniteSet(Sent) /\ sent = Cardinality(Sent)
        /\ IsFiniteSet(TakenPairs) /\ received = Cardinality(TakenPairs)
        /\ Connected \subseteq Elements(list)
    BY <2>0 DEF ExactInv
  <2>2. CASE UNCHANGED <<sent, received, copies, spawned, handled, sub, list>>
    BY <2>1, <2>2 DEF Sent, TakenPairs, Taken, Connected, Elements
  <2>3. ASSUME NEW s \in Subs, NEW m \in Msgs, HandlerReturns(s, m) PROVE Goal
    <3>1. ASSUME NEW z \in Subs, NEW n \in Msgs PROVE Taken(z, n)' <=> Taken(z, n)
      <4>1. spawned[z][n] \in Nat /\ handled[z][n] \in Nat /\ spawned[s][m] > 0
        BY <2>3 DEF HandlerReturns, DeliveryTypes
      <4>2. spawned'[z][n] = IF z = s /\ n = m THEN spawned[z][n] - 1 ELSE spawned[z][n]
        BY <2>3 DEF HandlerReturns, DeliveryTypes
      <4>3. handled'[z][n] = IF z = s /\ n = m THEN handled[z][n] + 1 ELSE handled[z][n]
        BY <2>3 DEF HandlerReturns, DeliveryTypes
      <4> QED BY <4>1, <4>2, <4>3 DEF Taken
    <3>2. TakenPairs' = TakenPairs
      BY <3>1 DEF TakenPairs
    <3>3. UNCHANGED <<sent, received, copies, sub, list>>
      BY <2>3 DEF HandlerReturns
    <3> QED BY <3>2, <3>3, <2>1 DEF Sent, Connected
  <2>4. ASSUME NEW s \in Subs, FakeSubscribe(s) PROVE Goal
    <3>1. list' = Append(list, s) /\ UNCHANGED <<sent, received, copies, spawned, handled>>
      BY <2>4 DEF FakeSubscribe, Update
    <3>2. list \in Seq(Subs) /\ Connected' \subseteq Connected \union {s}
      BY <2>4 DEF FakeSubscribe, Connected, DeliveryTypes
    <3>3. /\ Len(list) \in Nat /\ Len(list') = Len(list) + 1 /\ list'[Len(list) + 1] = s
          /\ \A i \in 1..Len(list) : list'[i] = list[i]
      BY <3>1, <3>2
    <3>4. Elements(list) \union {s} \subseteq Elements(list')
      BY <3>3 DEF Elements
    <3> QED BY <3>1, <3>2, <3>4, <2>1 DEF Sent, TakenPairs, Taken
  <2>5. ASSUME NEW m \in Msgs, FakePublish(m) PROVE Goal
    <3>1. sent' = sent + 1 /\ UNCHANGED <<received, spawned, handled, sub, list>>
      BY <2>5 DEF FakePublish, Update
    <3>2. copies[m] = 0 /\ copies' = [copies EXCEPT ![m] = 1]
      BY <2>5 DEF FakePublish, CopiesInv
    <3>3. m \notin Sent /\ Sent' = Sent \union {m}
      BY <3>2 DEF Sent, CopiesInv
    <3>4. IsFiniteSet(Sent') /\ Cardinality(Sent') = Cardinality(Sent) + 1
      BY <3>3, <2>1, FS_AddElement
    <3>5. TakenPairs' = TakenPairs /\ Connected' \subseteq Elements(list')
      BY <3>1, <2>1 DEF TakenPairs, Taken, Connected, Elements
    <3> QED BY <3>1, <3>4, <3>5, <2>1
  <2>6. ASSUME NEW m \in Msgs, FakeSpawn(m) PROVE Goal
    <3> DEFINE s == Head(todo[m])
    <3>1. received' = received + 1 /\ UNCHANGED <<sent, copies, handled, sub, list>> /\ Spawn(s, m)
      BY <2>6 DEF FakeSpawn, Update
    <3>2. todo[m] \in Seq(Subs) /\ todo[m] # <<>> /\ pub[m] = "spawning"
      BY <2>6 DEF FakeSpawn, DeliveryTypes
    <3>3. s \in Subs /\ Tail(todo[m]) \in Seq(Subs)
          /\ Count(todo[m], s) = Count(Tail(todo[m]), s) + 1
      BY <3>2, CountTail
    <3>4. Count(Tail(todo[m]), s) \in Nat
      BY <3>3, CountType
    <3> HIDE DEF s
    <3>5. ~Taken(s, m)
      <4>1. Due(s, m) + handled[s][m] <= copies[m] /\ copies[m] = 1
        BY <3>2, <3>3, <2>0 DEF DueInv, CopiesInv
      <4>2. spawned[s][m] \in Nat /\ handled[s][m] \in Nat /\ Count(queue[s], m) \in Nat
        BY <3>3, DueType DEF DeliveryTypes
      <4>3. Count(queue[s], m) + spawned[s][m] + (Count(Tail(todo[m]), s) + 1) + handled[s][m] <= 1
        BY <4>1, <3>3 DEF Due
      <4>4. spawned[s][m] = 0 /\ handled[s][m] = 0
        BY <4>2, <4>3, <3>4
      <4> QED BY <4>4 DEF Taken
    <3>6. ASSUME NEW z \in Subs, NEW n \in Msgs
          PROVE  Taken(z, n)' <=> (Taken(z, n) \/ (z = s /\ n = m))
      <4>1. spawned'[z][n] = spawned[z][n] + (IF s = z /\ m = n THEN 1 ELSE 0)
        BY <3>1, <3>3, SpawnCounts
      <4>2. spawned[z][n] \in Nat /\ handled'[z][n] = handled[z][n]
        BY <3>1 DEF DeliveryTypes
      <4> QED BY <4>1, <4>2 DEF Taken
    <3>7. TakenPairs' = TakenPairs \union {<<s, m>>} /\ <<s, m>> \notin TakenPairs
      BY <3>3, <3>5, <3>6 DEF TakenPairs
    <3>8. IsFiniteSet(TakenPairs') /\ Cardinality(TakenPairs') = Cardinality(TakenPairs) + 1
      BY <3>7, <2>1, FS_AddElement
    <3>9. Sent' = Sent /\ Connected' \subseteq Elements(list')
      BY <3>1, <2>1 DEF Sent, Connected, Elements
    <3> QED BY <3>1, <3>8, <3>9, <2>1
  <2>7. ASSUME NEW s \in Subs,
               Subscribe(s) \/ Connect(s) \/ ReceiveFails(s) \/ LoopEnds(s) \/ ContextEnds(s)
        PROVE  FALSE
    BY <2>0, <2>7 DEF Subscribe, Connect, ReceiveFails, LoopEnds, ContextEnds
  <2>8. ASSUME NEW s \in Subs, Receive(s) PROVE FALSE
    BY <2>0, <2>8 DEF Receive, ListInv
  <2>9. ASSUME NEW m \in Msgs, Publish(m) \/ PublishReturns(m) \/ AttemptFails(m) \/ FakeReturns(m) PROVE Goal
    BY <2>2, <2>9 DEF Publish, PublishReturns, AttemptFails, FakeReturns
  <2>10. ASSUME NEW m \in Msgs, Execute(m) PROVE FALSE
    BY <2>0, <2>10 DEF Execute, CopiesInv
  <2>11. CASE UNCHANGED vars
    BY <2>2, <2>11 DEF vars
  <2> QED BY <2>3, <2>4, <2>5, <2>6, <2>7, <2>8, <2>9, <2>10, <2>11 DEF Next, Subscriber, Publisher
<1>3. ExactInv /\ ListInv => CountsAreExact
  BY DEF ExactInv, ListInv, CountsAreExact, Sent, TakenPairs
<1> QED BY <1>1, <1>2, <1>3, Typing, Copied, Listed, DueBounded, PTL DEF Spec

(* CountsAreExact by itself. *)
THEOREM Exact == Spec => []CountsAreExact
<1>1. ExactInv /\ ListInv => CountsAreExact
  BY DEF ExactInv, ListInv, CountsAreExact, Sent, TakenPairs
<1> QED BY <1>1, Counted, Listed, PTL

-------------------------------------------------------------------------------
(* The refinement of Delivery: what its variables are here *)
Asked == {s \in Subs : sub[s] # "idle"}
DueNow == [s \in Subs |-> [m \in Msgs |-> Due(s, m)]]

(* Every step of both providers is a step of Delivery, or changes nothing of it.               *)
THEOREM Delivers == Spec => Implements
<1>1. Init => Promise!Init
  <2> SUFFICES ASSUME Init PROVE Promise!Init
    OBVIOUS
  <2>1. Asked = {} /\ copies = [m \in Msgs |-> 0] /\ handled = [s \in Subs |-> [m \in Msgs |-> 0]]
    BY DEF Init, Asked
  <2>2. \A s \in Subs, m \in Msgs : Due(s, m) = 0
    BY CountEmpty DEF Init, Due
  <2>3. DueNow = [s \in Subs |-> [m \in Msgs |-> 0]]
    BY <2>2 DEF DueNow
  <2> QED BY <2>1, <2>3 DEF Promise!Init, Asked, DueNow
<1>2. DeliveryTypes /\ ListInv /\ CopiesInv /\ DueInv /\ [Next]_vars => [Promise!Next]_(Promise!vars)
  <2> SUFFICES ASSUME DeliveryTypes, ListInv, CopiesInv, DueInv, [Next]_vars PROVE [Promise!Next]_(Promise!vars)
    OBVIOUS
  <2> DEFINE Same == UNCHANGED <<Asked, copies, DueNow, handled>>
             Goal == Same \/ Promise!Next
  <2> USE DEF redis, fake
  <2>0. /\ handled \in [Subs -> [Msgs -> Nat]]
        /\ \A s \in Subs, m \in Msgs : Due(s, m) \in Nat /\ Due(s, m) <= copies[m] /\ copies[m] \in 0..Attempts
    <3> SUFFICES ASSUME NEW s \in Subs, NEW m \in Msgs
                 PROVE  Due(s, m) \in Nat /\ Due(s, m) <= copies[m] /\ copies[m] \in 0..Attempts
      BY DEF DeliveryTypes
    <3>1. Due(s, m) \in Nat /\ handled[s][m] \in Nat /\ copies[m] \in 0..Attempts
          /\ Due(s, m) + handled[s][m] <= copies[m]
      BY DueType DEF DeliveryTypes, CopiesInv, DueInv
    <3> QED BY <3>1
  <2>1. ASSUME UNCHANGED <<sub, copies, queue, spawned, todo, handled>> PROVE Same
    BY <2>1 DEF Asked, DueNow, Due
  <2>2. ASSUME NEW s \in Subs, NEW m \in Msgs, HandlerReturns(s, m) PROVE Promise!Next
    <3>1. UNCHANGED <<sub, copies>> /\ handled' = [handled EXCEPT ![s][m] = @ + 1]
      BY <2>2 DEF HandlerReturns
    <3>2. Due(s, m) > 0 /\ \A z \in Subs, n \in Msgs :
            Due(z, n)' = IF s = z /\ m = n THEN Due(z, n) - 1 ELSE Due(z, n)
      BY <2>2, DueReturns
    <3>3. DueNow' = [DueNow EXCEPT ![s][m] = @ - 1]
      BY <3>2 DEF DueNow
    <3>4. Asked' = Asked /\ DueNow[s][m] > 0
      BY <3>1, <3>2 DEF Asked, DueNow
    <3>5. Promise!Handle(s, m)
      BY <3>1, <3>3, <3>4 DEF Promise!Handle, DueNow, Asked
    <3> QED BY <3>5 DEF Promise!Next
  <2>3. ASSUME NEW s \in Subs, Receive(s) PROVE Same
    <3>1. UNCHANGED <<sub, copies, handled>>
      BY <2>3 DEF Receive
    <3>2. \A z \in Subs, n \in Msgs : Due(z, n)' = Due(z, n)
      BY <2>3, DueStays
    <3> QED BY <3>1, <3>2 DEF Asked, DueNow
  <2>4. ASSUME NEW m \in Msgs, FakeSpawn(m) PROVE Same
    <3>1. UNCHANGED <<sub, copies, handled>>
      BY <2>4 DEF FakeSpawn
    <3>2. \A z \in Subs, n \in Msgs : Due(z, n)' = Due(z, n)
      BY <2>4, DueStays
    <3> QED BY <3>1, <3>2 DEF Asked, DueNow
  <2>5. ASSUME NEW s \in Subs, ReceiveFails(s) \/ LoopEnds(s) PROVE Promise!Next
    <3>1. UNCHANGED <<copies, handled>> /\ sub[s] # "idle" /\ \E state \in {"down", "ended"} : SubIs(s, state)
      BY <2>5 DEF ReceiveFails, LoopEnds, Drop
    <3>2. Asked' = Asked
      BY <3>1 DEF Asked, SubIs, DeliveryTypes
    <3>3. \A z \in Subs, n \in Msgs :
            Due(z, n)' \in Nat /\ Due(z, n)' <= Due(z, n) /\ (z # s => Due(z, n)' = Due(z, n))
      BY <2>5, DueDrop
    <3> DEFINE left == [m \in Msgs |-> Due(s, m)']
    <3>4. left \in [Msgs -> 0..Attempts] /\ \A m \in Msgs : left[m] <= DueNow[s][m]
      <4> SUFFICES ASSUME NEW m \in Msgs PROVE Due(s, m)' \in 0..Attempts /\ Due(s, m)' <= Due(s, m)
        BY DEF DueNow
      <4>1. Due(s, m) \in Nat /\ Due(s, m) <= copies[m] /\ copies[m] \in 0..Attempts /\ Attempts \in Nat
        BY <2>0, PubSubAssumption
      <4> QED BY <4>1, <3>3
    <3>5. DueNow' = [DueNow EXCEPT ![s] = left]
      BY <3>3 DEF DueNow
    <3> HIDE DEF left
    <3>6. Promise!Lose(s)
      BY <3>1, <3>2, <3>4, <3>5 DEF Promise!Lose, DueNow, Asked
    <3> QED BY <3>6 DEF Promise!Next
  <2>6. ASSUME NEW m \in Msgs, Execute(m) \/ FakePublish(m) PROVE Promise!Next
    <3>1. /\ copies[m] < Attempts /\ copies' = [copies EXCEPT ![m] = @ + 1]
          /\ \E to \in SUBSET Asked : \A s \in Subs, n \in Msgs :
               Due(s, n)' = Due(s, n) + (IF n = m /\ s \in to THEN 1 ELSE 0)
      BY <2>6, DuePublish DEF Asked
    <3>2. UNCHANGED <<sub, handled>>
      BY <2>6 DEF Execute, FakePublish
    <3>3. PICK to \in SUBSET Asked : \A s \in Subs, n \in Msgs :
            Due(s, n)' = Due(s, n) + (IF n = m /\ s \in to THEN 1 ELSE 0)
      BY <3>1
    <3>4. DueNow' = [s \in Subs |-> [DueNow[s] EXCEPT ![m] = IF s \in to THEN @ + 1 ELSE @]]
      <4>1. ASSUME NEW s \in Subs, NEW n \in Msgs
            PROVE  Due(s, n)' = [DueNow[s] EXCEPT ![m] = IF s \in to THEN @ + 1 ELSE @][n]
        BY <2>0, <3>3 DEF DueNow
      <4>2. ASSUME NEW s \in Subs
            PROVE  [n \in Msgs |-> Due(s, n)'] = [DueNow[s] EXCEPT ![m] = IF s \in to THEN @ + 1 ELSE @]
        BY <4>1 DEF DueNow
      <4> QED BY <4>2 DEF DueNow
    <3>5. Asked' = Asked
      BY <3>2 DEF Asked
    <3>6. Promise!Publish(m)
      BY <3>1, <3>2, <3>4, <3>5 DEF Promise!Publish, DueNow, Asked
    <3> QED BY <3>6 DEF Promise!Next
  <2>7. ASSUME NEW s \in Subs, Subscribe(s) \/ FakeSubscribe(s) PROVE Promise!Next
    <3>1. UNCHANGED <<copies, queue, spawned, todo, handled>> /\ \E state \in {"down", "up"} : SubIs(s, state)
      BY <2>7 DEF Subscribe, FakeSubscribe
    <3>2. Asked' = Asked \union {s}
      BY <3>1 DEF Asked, SubIs, DeliveryTypes
    <3>3. DueNow' = DueNow
      BY <3>1 DEF DueNow, Due
    <3>4. Promise!Subscribe(s)
      BY <3>1, <3>2, <3>3 DEF Promise!Subscribe, DueNow, Asked
    <3> QED BY <3>4 DEF Promise!Next
  <2>8. ASSUME NEW s \in Subs, Connect(s) \/ ContextEnds(s) PROVE Same
    <3>1. UNCHANGED <<copies, queue, spawned, todo, handled>>
      BY <2>8 DEF Connect, ContextEnds
    <3>2. Asked' = Asked
      BY <2>8 DEF Connect, ContextEnds, SubIs, Asked, DeliveryTypes
    <3> QED BY <3>1, <3>2 DEF DueNow, Due
  <2>9. ASSUME NEW m \in Msgs, Publish(m) \/ PublishReturns(m) \/ AttemptFails(m) \/ FakeReturns(m) PROVE Same
    BY <2>1, <2>9 DEF Publish, PublishReturns, AttemptFails, FakeReturns
  <2>10. ASSUME UNCHANGED vars PROVE Same
    BY <2>1, <2>10 DEF vars
  <2>11. Goal
    BY <2>2, <2>3, <2>4, <2>5, <2>6, <2>7, <2>8, <2>9, <2>10 DEF Next, Subscriber, Publisher
  <2> QED BY <2>11 DEF Promise!vars, Asked, DueNow
<1> QED BY <1>1, <1>2, Typing, Listed, Copied, DueBounded, PTL DEF Spec, Implements, Promise!Spec
===============================================================================
