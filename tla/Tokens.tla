-------------------------------- MODULE Tokens --------------------------------
(* Tokens and the requests that carry them, over several instances of one   *)
(* application: JWTs (adapters/token_impl.go), signed with keys that come   *)
(* from the configuration; CSRF tokens (h/crypto.go), signed with a secret   *)
(* each process draws for itself; the authentication of the router and the   *)
(* middlewares of core/tenant.go.  Instances restart, their configuration    *)
(* changes with it, and their clocks differ.  Signatures are the key they     *)
(* were made with.                                                           *)
EXTENDS Integers, FiniteSets

CONSTANTS Instances, Requests,
          Configs,     \* what an instance may be started with: the private and public key
                       \* and the secret of JwtConfig, or None for each
          Permissions, \* what a route may ask for
          Skew,        \* by how much each instance's clock is ahead of the slowest one
          Ttl,         \* of every token
          MaxTime,     \* bound of the exploration: the clock
          MaxBoots,    \* bound of the exploration: starts of an instance
          MaxTokens,   \* bound of the exploration: tokens made
          None

ASSUME TokensAssumption ==
  /\ Skew \in [Instances -> Nat] /\ Ttl \in Nat /\ MaxTime \in Nat
  /\ MaxBoots \in Nat /\ MaxTokens \in Nat
  /\ None \notin Permissions /\ \A P \in SUBSET Permissions : P # None
  /\ \A c \in Configs : c.private # None /\ c.public # None => c.private = c.public

VARIABLES now,      \* the slowest clock
          boot,     \* per instance: how often it was started
          drawn,    \* CSRF secrets drawn so far; each is the number of its drawing
          secret,   \* per instance: the CSRF secret of the process, 0 before the first start
          config,   \* per instance: its JwtConfig, None before the first start
          issued,   \* the tokens that were made
          pc,       \* per request: "new", "routed", "served", "unauthorized", "forbidden", "lost"
          at,       \* per request: the instance it is at
          auth,     \* per request: the permissions of its Authentication, or None
          needs,    \* per request: what its route asks for: None (AuthMiddleware) or a permission
          carried   \* history, per request: its token when that was good at arrival, or None

requests == <<pc, at, auth, needs, carried>>
instances == <<boot, drawn, secret, config>>
vars == <<now, instances, issued, requests>>

Init ==
  /\ now = 0 /\ boot = [i \in Instances |-> 0] /\ config = [i \in Instances |-> None]
  /\ drawn = 0 /\ secret = boot
  /\ issued = {}
  /\ pc = [r \in Requests |-> "new"] /\ at = [r \in Requests |-> None]
  /\ auth = [r \in Requests |-> None] /\ needs \in [Requests -> Permissions \union {None}]
  /\ carried = [r \in Requests |-> None]

Clock(i) == now + Skew[i]

-------------------------------------------------------------------------------
(* The providers of an instance *)

\* NewTokenProvider parses the keys only if there is a private one, and then needs both.
Starts(c) == c.private # None => c.public # None
privkey(i) == config[i].private
pubkey(i) == IF config[i].private = None THEN None ELSE config[i].public

\* The key Create signs with, or None: then Create fails.
SigningKey(i) == IF privkey(i) # None THEN privkey(i) ELSE config[i].secret

\* Mutant: the secret comes first.
VerifyingKeySecret(i) == IF config[i].secret # None THEN config[i].secret ELSE pubkey(i)

\* The key Verify and VerifyWithIssuer check the signature with; a pair of keys has one name.
VerifyingKey(i) == IF pubkey(i) # None THEN pubkey(i) ELSE config[i].secret

\* jwt.Parse: the signature is right, the token was not made in the future and is not over.
Verify(i, t) ==
  /\ t.type = "jwt" /\ VerifyingKey(i) # None /\ t.key = VerifyingKey(i)
  /\ t.iat <= Clock(i) /\ Clock(i) < t.exp

\* VerifyCsrf: the last second counts.
VerifyCsrf(i, t) == t.type = "csrf" /\ t.key = secret[i] /\ Clock(i) <= t.exp

\* GetClaimValues reads the claims that are strings; a list gives nothing.
GetClaimValues(t) == {c.value : c \in {d \in t.claims : ~d.list}}

-------------------------------------------------------------------------------
(* Instances *)

Tick == now < MaxTime /\ now' = now + 1 /\ UNCHANGED <<instances, issued, requests>>

\* An instance starts, or stops and starts, with any configuration: its requests are lost.
Boot(i) ==
  /\ boot[i] < MaxBoots /\ boot' = [boot EXCEPT ![i] = @ + 1]
  /\ \E c \in {d \in Configs : Starts(d)} : config' = [config EXCEPT ![i] = c]
  /\ pc' = [r \in Requests |-> IF pc[r] = "routed" /\ at[r] = i THEN "lost" ELSE pc[r]]

\* Mutant: an instance that has a secret keeps it over a restart.
StartWithOldSecret(i) ==
  /\ Boot(i)
  /\ IF secret[i] = 0 THEN drawn' = drawn + 1 /\ secret' = [secret EXCEPT ![i] = drawn + 1]
     ELSE UNCHANGED <<drawn, secret>>
  /\ UNCHANGED <<now, issued, at, auth, needs, carried>>

\* NewCsrfTokenProvider draws a secret at every start; two drawings never agree.
Start(i) ==
  /\ Boot(i)
  /\ drawn' = drawn + 1 /\ secret' = [secret EXCEPT ![i] = drawn + 1]
  /\ UNCHANGED <<now, issued, at, auth, needs, carried>>

\* defaultJwtProvider.Create, and NewJwt, which does the same with a secret.  A permission is
\* claimed as a string or in a list.
Create(i) ==
  /\ boot[i] > 0 /\ SigningKey(i) # None /\ Cardinality(issued) < MaxTokens
  /\ \E p \in Permissions, l \in BOOLEAN :
       issued' = issued \union {[type |-> "jwt", key |-> SigningKey(i), iat |-> Clock(i),
                                 exp |-> Clock(i) + Ttl, claims |-> {[value |-> p, list |-> l]}, by |-> None]}
  /\ UNCHANGED <<now, instances, requests>>

\* NewCsrf, with the secret of the process, which is remembered (history).
CreateCsrf(i) ==
  /\ boot[i] > 0 /\ Cardinality(issued) < MaxTokens
  /\ issued' = issued \union {[type |-> "csrf", key |-> secret[i], iat |-> Clock(i),
                               exp |-> Clock(i) + Ttl, claims |-> {}, by |-> <<i, boot[i]>>]}
  /\ UNCHANGED <<now, instances, requests>>

-------------------------------------------------------------------------------
(* Requests *)

\* The router's middleware, where no AuthProvider knows the token: a token that Verify
\* refuses leaves the request without Authentication, and no error.
Route(r, i) ==
  /\ pc[r] = "new" /\ boot[i] > 0 /\ pc' = [pc EXCEPT ![r] = "routed"] /\ at' = [at EXCEPT ![r] = i]
  /\ \E t \in issued \union {None} :
       LET good == t # None /\ Verify(i, t) IN
       /\ auth' = [auth EXCEPT ![r] = IF good THEN GetClaimValues(t) ELSE None]
       /\ carried' = [carried EXCEPT ![r] = IF good THEN t ELSE None]
  /\ UNCHANGED <<now, instances, issued, needs>>

Decide(r, outcome) ==
  /\ pc' = [pc EXCEPT ![r] = outcome]
  /\ UNCHANGED <<now, instances, issued, at, auth, needs, carried>>

\* Mutant: a route that asks for a permission is content with any.
MiddlewaresAny(r) ==
  /\ pc[r] = "routed"
  /\ Decide(r, IF auth[r] = None THEN "unauthorized"
               ELSE IF needs[r] # None /\ auth[r] = {} THEN "forbidden" ELSE "served")

\* AuthMiddleware or PermissionMiddleware, of the route or of its group; then the handler.
Middlewares(r) ==
  /\ pc[r] = "routed"
  /\ Decide(r, IF auth[r] = None THEN "unauthorized"
               ELSE IF needs[r] # None /\ needs[r] \notin auth[r] THEN "forbidden" ELSE "served")

Next ==
  \/ Tick
  \/ \E i \in Instances : Start(i) \/ Create(i) \/ CreateCsrf(i) \/ \E r \in Requests : Route(r, i)
  \/ \E r \in Requests : Middlewares(r)

Spec == Init /\ [][Next]_vars

-------------------------------------------------------------------------------
(* Properties *)

\* A JWT is good at every running instance that signs with the key it was made with, before
\* and after restarts, in whichever way private key and secret are given, from the moment it
\* was made until it is over by that instance's clock, and nowhere else.  A CSRF token is
\* good, until it is over, exactly at the process that made it: neither another instance nor
\* the same one started again takes it.
GoodWhereMade ==
  \A t \in issued, i \in {j \in Instances : boot[j] > 0} :
    /\ Verify(i, t) <=> /\ t.type = "jwt" /\ t.key = SigningKey(i)
                        /\ Clock(i) \in t.iat..(t.exp - 1)
    /\ t.type = "csrf" => (VerifyCsrf(i, t) <=> t.by = <<i, boot[i]>> /\ Clock(i) <= t.iat + Ttl)

\* Whatever has become of its token since, a request is served exactly when the token was
\* good at its arrival and, on a route that asks for a permission, claims it as a string.
ServedIfPermitted ==
  \A r \in Requests :
    pc[r] \in {"served", "unauthorized", "forbidden"} =>
      (pc[r] = "served" <=>
         /\ carried[r] # None
         /\ needs[r] # None => [value |-> needs[r], list |-> FALSE] \in carried[r].claims)

================================================================================
