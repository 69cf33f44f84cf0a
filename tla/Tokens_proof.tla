----------------------------- MODULE Tokens_proof -----------------------------
(* Proofs about Tokens, for any instances, configurations, clocks and permissions. *)
EXTENDS Tokens, TLAPS

Claim == [value : Permissions, list : BOOLEAN]

\* What Create and CreateCsrf make.
Token(t) ==
  /\ t.iat \in Nat /\ t.exp = t.iat + Ttl /\ t.claims \subseteq Claim
  /\ (t.type = "jwt" /\ t.key # None) \/ t.type = "csrf"

-------------------------------------------------------------------------------
(* The inductive invariants, as named parts. *)

\* Clocks, starts and configurations, and the tokens that were made.
MadeInv ==
  /\ now \in Nat /\ boot \in [Instances -> Nat]
  /\ DOMAIN config = Instances
  /\ \A i \in Instances : boot[i] > 0 => config[i] \in Configs /\ Starts(config[i])
  /\ \A t \in issued : Token(t)

\* CSRF secrets: every process has one, no two have the same, and a CSRF token has the secret
\* of a process exactly when it made the token.
SecretInv ==
  /\ drawn \in Nat /\ secret \in [Instances -> 0..drawn]
  /\ \A i, j \in Instances : boot[i] > 0 /\ secret[i] = secret[j] => i = j
  /\ \A i \in Instances : boot[i] > 0 => secret[i] > 0
  /\ \A t \in issued : t.type = "csrf" =>
       /\ t.key \in 1..drawn
       /\ \A i \in Instances : boot[i] > 0 => (t.key = secret[i] <=> t.by = <<i, boot[i]>>)
       /\ \A i \in Instances, n \in Nat : t.by = <<i, n>> => n <= boot[i]

\* The Authentication of a request is that of the token it came with.
AuthInv ==
  /\ DOMAIN pc = Requests /\ DOMAIN auth = Requests /\ DOMAIN carried = Requests
  /\ needs \in [Requests -> Permissions \union {None}]
  /\ \A r \in Requests :
       /\ carried[r] # None => Token(carried[r]) /\ auth[r] = GetClaimValues(carried[r])
       /\ carried[r] = None => auth[r] = None

\* A request that was decided was decided by its Authentication.
DecidedInv ==
  \A r \in Requests :
    pc[r] \in {"served", "unauthorized", "forbidden"} =>
      (pc[r] = "served" <=> auth[r] # None /\ (needs[r] # None => needs[r] \in auth[r]))

-------------------------------------------------------------------------------
(* Operators *)

\* Instances that run verify with the key they sign with.
LEMMA Keys ==
  ASSUME MadeInv, NEW i \in Instances, boot[i] > 0
  PROVE  VerifyingKey(i) = SigningKey(i)
<1>1. config[i] \in Configs /\ Starts(config[i])
  BY DEF MadeInv
<1> QED BY <1>1, TokensAssumption DEF Starts, VerifyingKey, SigningKey, pubkey, privkey

\* GetClaimValues returns permissions, those that are claimed as strings.
LEMMA ClaimValues ==
  ASSUME NEW t, t.claims \subseteq Claim
  PROVE  /\ GetClaimValues(t) \in SUBSET Permissions /\ GetClaimValues(t) # None
         /\ \A p \in Permissions :
              p \in GetClaimValues(t) <=> [value |-> p, list |-> FALSE] \in t.claims
<1>1. GetClaimValues(t) \in SUBSET Permissions
  BY DEF GetClaimValues, Claim
<1>2. ASSUME NEW p \in Permissions, p \in GetClaimValues(t)
      PROVE  [value |-> p, list |-> FALSE] \in t.claims
  <2>1. PICK c \in t.claims : ~c.list /\ c.value = p
    BY <1>2 DEF GetClaimValues
  <2>2. c \in Claim
    BY <2>1
  <2>3. c = [value |-> c.value, list |-> c.list] /\ c.list \in BOOLEAN
    BY <2>2 DEF Claim
  <2>4. c.list = FALSE
    BY <2>1, <2>3
  <2> QED BY <2>1, <2>3, <2>4
<1>3. ASSUME NEW p \in Permissions, [value |-> p, list |-> FALSE] \in t.claims
      PROVE  p \in GetClaimValues(t)
  BY <1>3 DEF GetClaimValues
<1> QED BY <1>1, <1>2, <1>3, TokensAssumption

-------------------------------------------------------------------------------
(* Running instances have a configuration they could start with, and tokens are well made. *)
THEOREM Made == Spec => []MadeInv
<1>1. Init => MadeInv
  BY DEF Init, MadeInv
<1>2. MadeInv /\ [Next]_vars => MadeInv'
  <2> SUFFICES ASSUME MadeInv, [Next]_vars PROVE MadeInv'
    OBVIOUS
  <2>1. CASE UNCHANGED <<now, instances, issued>>
    BY <2>1 DEF MadeInv, instances
  <2>2. CASE Tick
    BY <2>2 DEF Tick, MadeInv, instances
  <2>3. ASSUME NEW i \in Instances, Start(i) PROVE MadeInv'
    BY <2>3 DEF Start, Boot, MadeInv
  <2>4. ASSUME NEW i \in Instances, Create(i) PROVE MadeInv'
    <3>1. Clock(i) \in Nat
      BY TokensAssumption DEF MadeInv, Clock
    <3>2. ASSUME NEW p \in Permissions, NEW l \in BOOLEAN
          PROVE  Token([type |-> "jwt", key |-> SigningKey(i), iat |-> Clock(i),
                        exp |-> Clock(i) + Ttl, claims |-> {[value |-> p, list |-> l]}, by |-> None])
      BY <3>1, <2>4 DEF Token, Claim, Create
    <3> QED BY <3>2, <2>4 DEF Create, MadeInv, instances
  <2>5. ASSUME NEW i \in Instances, CreateCsrf(i) PROVE MadeInv'
    <3>1. Clock(i) \in Nat
      BY TokensAssumption DEF MadeInv, Clock
    <3>2. Token([type |-> "csrf", key |-> secret[i], iat |-> Clock(i),
                 exp |-> Clock(i) + Ttl, claims |-> {}, by |-> <<i, boot[i]>>])
      BY <3>1 DEF Token
    <3> QED BY <3>2, <2>5 DEF CreateCsrf, MadeInv, instances
  <2> QED BY <2>1, <2>2, <2>3, <2>4, <2>5 DEF Next, vars, Route, Middlewares, Decide
<1> QED BY <1>1, <1>2, PTL DEF Spec

(* No two processes have the same CSRF secret, and a token tells by its key which made it. *)
THEOREM Secrets == Spec => []SecretInv
<1>1. Init => SecretInv
  BY DEF Init, SecretInv
<1>2. MadeInv /\ SecretInv /\ [Next]_vars => SecretInv'
  <2> SUFFICES ASSUME MadeInv, SecretInv, [Next]_vars PROVE SecretInv'
    OBVIOUS
  <2>1. CASE UNCHANGED <<instances, issued>>
    BY <2>1 DEF SecretInv, instances
  <2>2. ASSUME NEW i \in Instances, Start(i) PROVE SecretInv'
    <3>1. /\ boot \in [Instances -> Nat] /\ boot' = [boot EXCEPT ![i] = @ + 1]
          /\ drawn' = drawn + 1 /\ secret' = [secret EXCEPT ![i] = drawn + 1] /\ issued' = issued
      BY <2>2 DEF Start, Boot, MadeInv
    <3>2. /\ drawn' \in Nat /\ secret' \in [Instances -> 0..drawn']
          /\ \A j, k \in Instances : boot'[j] > 0 /\ secret'[j] = secret'[k] => j = k
          /\ \A j \in Instances : boot'[j] > 0 => secret'[j] > 0
      BY <3>1 DEF SecretInv
    <3>3. ASSUME NEW t \in issued, t.type = "csrf"
          PROVE  /\ t.key \in 1..drawn'
                 /\ \A j \in Instances : boot'[j] > 0 => (t.key = secret'[j] <=> t.by = <<j, boot'[j]>>)
                 /\ \A j \in Instances, n \in Nat : t.by = <<j, n>> => n <= boot'[j]
      <4>1. /\ t.key \in 1..drawn
            /\ \A j \in Instances : boot[j] > 0 => (t.key = secret[j] <=> t.by = <<j, boot[j]>>)
            /\ \A j \in Instances, n \in Nat : t.by = <<j, n>> => n <= boot[j]
        BY <3>3 DEF SecretInv
      <4>2. t.key # secret'[i] /\ t.by # <<i, boot'[i]>>
        BY <3>1, <4>1 DEF SecretInv
      <4>3. \A j \in Instances : j # i => boot'[j] = boot[j] /\ secret'[j] = secret[j]
        BY <3>1 DEF SecretInv
      <4>4. t.key \in 1..drawn' /\ \A j \in Instances, n \in Nat : t.by = <<j, n>> => n <= boot'[j]
        BY <3>1, <4>1 DEF SecretInv
      <4> QED BY <4>1, <4>2, <4>3, <4>4
    <3> QED BY <3>1, <3>2, <3>3 DEF SecretInv
  <2>3. ASSUME NEW i \in Instances, CreateCsrf(i) PROVE SecretInv'
    <3> DEFINE T == [type |-> "csrf", key |-> secret[i], iat |-> Clock(i),
                     exp |-> Clock(i) + Ttl, claims |-> {}, by |-> <<i, boot[i]>>]
    <3>1. boot[i] > 0 /\ UNCHANGED instances /\ issued' = issued \union {T} /\ boot[i] \in Nat
      BY <2>3 DEF CreateCsrf, MadeInv
    <3>2. /\ T.key \in 1..drawn
          /\ \A j \in Instances : boot[j] > 0 => (T.key = secret[j] <=> T.by = <<j, boot[j]>>)
          /\ \A j \in Instances, n \in Nat : T.by = <<j, n>> => n <= boot[j]
      BY <3>1 DEF SecretInv
    <3> QED BY <3>1, <3>2 DEF SecretInv, instances
  <2>4. ASSUME NEW i \in Instances, Create(i) PROVE SecretInv'
    <3>1. UNCHANGED instances /\ \A t \in issued' : t \in issued \/ t.type = "jwt"
      BY <2>4 DEF Create
    <3> QED BY <3>1 DEF SecretInv, instances
  <2> QED BY <2>1, <2>2, <2>3, <2>4 DEF Next, vars, Tick, Route, Middlewares, Decide
<1> QED BY <1>1, <1>2, Made, PTL DEF Spec

(* Tokens are good where they were made, and nowhere else: a CSRF token only at its process. *)
THEOREM Good == Spec => []GoodWhereMade
<1>1. MadeInv /\ SecretInv => GoodWhereMade
  <2> SUFFICES ASSUME MadeInv, SecretInv, NEW t \in issued, NEW i \in Instances, boot[i] > 0
               PROVE  /\ Verify(i, t) <=> /\ t.type = "jwt" /\ t.key = SigningKey(i)
                                          /\ Clock(i) \in t.iat..(t.exp - 1)
                      /\ t.type = "csrf" =>
                           (VerifyCsrf(i, t) <=> t.by = <<i, boot[i]>> /\ Clock(i) <= t.iat + Ttl)
    BY DEF GoodWhereMade
  <2>1. Token(t) /\ Clock(i) \in Nat /\ VerifyingKey(i) = SigningKey(i)
    BY Keys, TokensAssumption DEF MadeInv, Clock
  <2>2. Clock(i) \in t.iat..(t.exp - 1) <=> t.iat <= Clock(i) /\ Clock(i) < t.exp
    BY <2>1, TokensAssumption DEF Token
  <2>3. Verify(i, t) <=> t.type = "jwt" /\ t.key = SigningKey(i) /\ Clock(i) \in t.iat..(t.exp - 1)
    BY <2>1, <2>2 DEF Verify, Token
  <2>4. t.type = "csrf" => (t.key = secret[i] <=> t.by = <<i, boot[i]>>)
    BY DEF SecretInv
  <2>5. t.type = "csrf" =>
          (VerifyCsrf(i, t) <=> t.by = <<i, boot[i]>> /\ Clock(i) <= t.iat + Ttl)
    BY <2>1, <2>4 DEF VerifyCsrf, Token
  <2> QED BY <2>3, <2>5
<1> QED BY <1>1, Made, Secrets, PTL

(* Nobody has an Authentication but that of a good token. *)
THEOREM Authenticated == Spec => []AuthInv
<1>1. Init => AuthInv
  BY DEF Init, AuthInv
<1>2. MadeInv /\ AuthInv /\ [Next]_vars => AuthInv'
  <2> SUFFICES ASSUME MadeInv, AuthInv, [Next]_vars PROVE AuthInv'
    OBVIOUS
  <2>1. CASE UNCHANGED <<auth, needs, carried>> /\ DOMAIN pc' = Requests
    BY <2>1 DEF AuthInv
  <2>2. ASSUME NEW r \in Requests, NEW i \in Instances, Route(r, i) PROVE AuthInv'
    <3>1. PICK t \in issued \union {None} :
            LET good == t # None /\ Verify(i, t) IN
            /\ auth' = [auth EXCEPT ![r] = IF good THEN GetClaimValues(t) ELSE None]
            /\ carried' = [carried EXCEPT ![r] = IF good THEN t ELSE None]
      BY <2>2 DEF Route
    <3>2. /\ DOMAIN pc' = Requests /\ DOMAIN auth' = Requests /\ DOMAIN carried' = Requests
          /\ needs' = needs
      BY <2>2, <3>1 DEF Route, AuthInv
    <3>3. \A q \in Requests : q # r => auth'[q] = auth[q] /\ carried'[q] = carried[q]
      BY <3>1 DEF AuthInv
    <3>4. carried'[r] # None => carried'[r] \in issued /\ auth'[r] = GetClaimValues(carried'[r])
      BY <3>1 DEF AuthInv
    <3>5. carried'[r] = None => auth'[r] = None
      BY <3>1 DEF AuthInv
    <3> QED BY <3>2, <3>3, <3>4, <3>5 DEF AuthInv, MadeInv
  <2>3. \/ UNCHANGED <<auth, needs, carried>> /\ DOMAIN pc' = Requests
        \/ \E r \in Requests, i \in Instances : Route(r, i)
    BY DEF Next, vars, requests, Tick, Start, Boot, Create, CreateCsrf, Middlewares, Decide, AuthInv
  <2> QED BY <2>1, <2>2, <2>3
<1> QED BY <1>1, <1>2, Made, PTL DEF Spec

(* Requests are decided by their Authentication. *)
THEOREM Decided == Spec => []DecidedInv
<1>1. Init => DecidedInv
  BY DEF Init, DecidedInv
<1>2. AuthInv /\ DecidedInv /\ [Next]_vars => DecidedInv'
  <2> SUFFICES ASSUME AuthInv, DecidedInv, [Next]_vars, NEW r \in Requests,
                      pc'[r] \in {"served", "unauthorized", "forbidden"}
               PROVE  pc'[r] = "served" <=> auth'[r] # None /\ (needs'[r] # None => needs'[r] \in auth'[r])
    BY DEF DecidedInv
  <2>1. needs' = needs
    BY DEF Next, vars, requests, Tick, Start, Boot, Create, CreateCsrf, Route, Middlewares, Decide
  <2>2. CASE pc'[r] = pc[r] /\ auth'[r] = auth[r]
    BY <2>1, <2>2 DEF DecidedInv
  <2>3. CASE Middlewares(r)
    BY <2>3, <2>1 DEF Middlewares, Decide, AuthInv
  <2>4. ASSUME NEW q \in Requests, Middlewares(q), q # r PROVE pc'[r] = pc[r] /\ auth'[r] = auth[r]
    BY <2>4 DEF Middlewares, Decide, AuthInv
  <2>5. ASSUME NEW i \in Instances, Start(i) PROVE pc'[r] = pc[r] /\ auth'[r] = auth[r]
    <3>1. pc'[r] # "lost" => pc'[r] = pc[r]
      BY <2>5 DEF Start, Boot
    <3> QED BY <3>1, <2>5 DEF Start
  <2>6. ASSUME NEW q \in Requests, NEW i \in Instances, Route(q, i)
        PROVE  pc'[r] = pc[r] /\ auth'[r] = auth[r]
    <3>1. pc'[q] = "routed"
      BY <2>6 DEF Route, AuthInv
    <3>2. q # r
      BY <3>1
    <3> QED BY <2>6, <3>2 DEF Route, AuthInv
  <2>7. \/ UNCHANGED <<pc, auth>> \/ (\E q \in Requests : Middlewares(q)) \/ (\E i \in Instances : Start(i))
        \/ \E q \in Requests, i \in Instances : Route(q, i)
    BY DEF Next, vars, requests, Tick, Create, CreateCsrf
  <2> QED BY <2>2, <2>3, <2>4, <2>5, <2>6, <2>7
<1> QED BY <1>1, <1>2, Authenticated, PTL DEF Spec

(* A request is served exactly when it may be. *)
THEOREM Served == Spec => []ServedIfPermitted
<1>1. AuthInv /\ DecidedInv => ServedIfPermitted
  <2> SUFFICES ASSUME AuthInv, DecidedInv, NEW r \in Requests,
                      pc[r] \in {"served", "unauthorized", "forbidden"}
               PROVE  pc[r] = "served" <=>
                        /\ carried[r] # None
                        /\ needs[r] # None => [value |-> needs[r], list |-> FALSE] \in carried[r].claims
    BY DEF ServedIfPermitted
  <2>1. pc[r] = "served" <=> auth[r] # None /\ (needs[r] # None => needs[r] \in auth[r])
    BY DEF DecidedInv
  <2>2. CASE carried[r] = None
    BY <2>1, <2>2 DEF AuthInv
  <2>3. CASE carried[r] # None
    <3>1. carried[r].claims \subseteq Claim /\ auth[r] = GetClaimValues(carried[r])
      BY <2>3 DEF AuthInv, Token
    <3>2. auth[r] # None /\ \A p \in Permissions :
            p \in auth[r] <=> [value |-> p, list |-> FALSE] \in carried[r].claims
      BY <3>1, ClaimValues
    <3>3. needs[r] # None => needs[r] \in Permissions
      BY DEF AuthInv
    <3> QED BY <2>1, <2>3, <3>2, <3>3
  <2> QED BY <2>2, <2>3
<1> QED BY <1>1, Authenticated, Decided, PTL
===============================================================================
