--------------------------- MODULE RequestTx_proof ---------------------------
(* Proofs about RequestTx, for any number of requests and tenants.             *)
EXTENDS RequestTx, TLAPS

-------------------------------------------------------------------------------
(* The inductive invariant, as named parts about one request. *)

BeforeTenantTx == {"idle", "middlewares", "beginDefault", "lookupTenant", "beginTenant"}
InBody == BeforeTenantTx \cup {"handler"}

\* The way out is decided when the body is left; a foreign panic skips the deferred work.
ExitInv(r) ==
  /\ pc[r] \in InBody <=> exit[r] = "none"
  /\ pc[r] = "deferTenant" => exit[r] # "panicOther"
  /\ ctx[r] = "ended" => pc[r] = "over"

\* A transaction is committed, or fails to, after a return only.
CommitInv(r) ==
  /\ \A k \in Keys : tx[r][k] \in {"committed", "failed"} => exit[r] \in {"nil", "err"}
  /\ durable[r] # {} => exit[r] \in {"nil", "err"}

\* A transaction is rolled back after a panic or a cancellation only, and stays open
\* past its turn in the deferred function only after one of them.
FateInv(r) ==
  /\ \A k \in Keys : tx[r][k] = "rolledback" => exit[r] \in {"panicError", "panicOther"} \/ ctx[r] = "gone"
  /\ pc[r] \in {"deferTenant", "echo", "over"} /\ tx[r]["default"] = "active"
       => exit[r] = "panicOther" \/ ctx[r] = "gone"
  /\ pc[r] \in {"echo", "over"} /\ tx[r]["tenant"] = "active"
       => exit[r] = "panicOther" \/ ctx[r] = "gone"

\* Writes are made in a transaction that has begun, and are durable once it is committed.
WriteInv(r) ==
  \A k \in dirty[r] : tx[r][k] # "none" /\ (tx[r][k] = "committed" => k \in durable[r])

\* Between the middlewares and the handler the tenant does not change, and the tenant
\* transaction begins with the last step before the handler.
TenantInv(r) ==
  /\ pc[r] \in {"beginDefault", "lookupTenant", "beginTenant"} => ctxTenant[r] = tenant[r]
  /\ pc[r] \in BeforeTenantTx => tx[r]["tenant"] = "none"

IInv == \A r \in Requests : ExitInv(r) /\ CommitInv(r) /\ FateInv(r) /\ WriteInv(r) /\ TenantInv(r)

-------------------------------------------------------------------------------
(* Changing one transaction of one request keeps the type of tx. *)
LEMMA TxUpdate ==
  ASSUME NEW f \in [Requests -> [Keys -> TxStates]], NEW r \in Requests, NEW k \in Keys,
         NEW s \in TxStates
  PROVE  [f EXCEPT ![r][k] = s] \in [Requests -> [Keys -> TxStates]]
<1>1. [f[r] EXCEPT ![k] = s] \in [Keys -> TxStates]
  OBVIOUS
<1> QED BY <1>1

(* RequestTx is well typed: no step, of the code or of its environment, takes a   *)
(* variable out of its type.                                                      *)
THEOREM Typing == Spec => []TypeOK
<1>1. Init => TypeOK
  BY DEF Init, TypeOK, Places, Exits, TxStates
<1>2. TypeOK /\ [Next]_vars => TypeOK'
  <2> SUFFICES ASSUME TypeOK, [Next]_vars PROVE TypeOK'
    OBVIOUS
  <2>1. CASE UNCHANGED vars
    BY <2>1 DEF TypeOK, vars
  <2>2. ASSUME NEW r \in Requests, Arrive(r) PROVE TypeOK'
    BY <2>2 DEF TypeOK, Arrive, Goto, Places
  <2>3. ASSUME NEW r \in Requests, ClientGone(r) PROVE TypeOK'
    BY <2>3 DEF TypeOK, ClientGone
  <2>4. ASSUME NEW r \in Requests, Progress(r) PROVE TypeOK'
    <3>1. CASE PassMiddlewares(r)
      BY <3>1 DEF TypeOK, PassMiddlewares, Goto, Places
    <3>2. CASE RefuseInMiddleware(r)
      BY <3>2 DEF TypeOK, RefuseInMiddleware, Leave, Goto, Send, Places, Exits
    <3>11. CASE PanicInMiddleware(r)
      BY <3>11 DEF TypeOK, PanicInMiddleware, Leave, Goto, Places, Exits
    <3>3. CASE SkipDefault(r) \/ SkipTenant(r) \/ FailDefault(r) \/ FailTenant(r)
      BY <3>3 DEF TypeOK, SkipDefault, SkipTenant, FailDefault, FailTenant, Leave, Goto, Places, Exits
    <3>4. CASE BeginDefault(r)
      BY <3>4, TxUpdate DEF TypeOK, BeginDefault, Begin, Goto, Places, Keys, TxStates
    <3>12. CASE BeginTenant(r)
      BY <3>12, TxUpdate DEF TypeOK, BeginTenant, Begin, Goto, Places, Keys, TxStates
    <3>5. CASE \E found \in {"cnx", "nil", "panic"} : LookupTenant(r, found)
      BY <3>5 DEF TypeOK, LookupTenant, Leave, Goto, Places, Exits
    <3>6. CASE HandlerReturnsNil(r)
      BY <3>6 DEF TypeOK, HandlerReturnsNil, Leave, Goto, Places, Exits
    <3>14. CASE HandlerPanics(r)
      BY <3>14 DEF TypeOK, HandlerPanics, Leave, Goto, Places, Exits
    <3>13. CASE HandlerReturnsError(r)
      BY <3>13 DEF TypeOK, HandlerReturnsError, Leave, Goto, Send, Places, Exits
    <3>7. CASE DeferRepanics(r) \/ EchoEnds(r)
      BY <3>7 DEF TypeOK, DeferRepanics, EchoEnds, Goto, Send, Places
    <3>8. ASSUME NEW k \in Keys, Finish(r, k)
          PROVE  tx' \in [Requests -> [Keys -> TxStates]] /\ durable' \in [Requests -> SUBSET Keys]
      <4>1. CASE UNCHANGED <<tx, durable>>
        BY <4>1 DEF TypeOK
      <4>2. CASE Rollback(r, k)
        BY <4>2, TxUpdate DEF TypeOK, Rollback, TxStates
      <4>3. CASE Commit(r, k) /\ ~UNCHANGED <<tx, durable>>
        <5>1. PICK s \in CommitCanFail :
                /\ tx' = [tx EXCEPT ![r][k] = s]
                /\ durable' = [durable EXCEPT ![r] =
                                 IF s = "committed" THEN @ \cup (dirty[r] \cap {k}) ELSE @]
          BY <4>3 DEF Commit
        <5>2. s \in TxStates
          BY DEF CommitCanFail, TxStates
        <5>3. tx' \in [Requests -> [Keys -> TxStates]]
          BY <5>1, <5>2, TxUpdate DEF TypeOK
        <5>4. durable[r] \cup (dirty[r] \cap {k}) \in SUBSET Keys /\ durable[r] \in SUBSET Keys
          BY DEF TypeOK
        <5>5. durable' \in [Requests -> SUBSET Keys]
          BY <5>1, <5>4 DEF TypeOK
        <5> QED BY <5>3, <5>5
      <4> QED BY <3>8, <4>1, <4>2, <4>3 DEF Finish
    <3>9. CASE DeferDefault(r)
      BY <3>8, <3>9 DEF TypeOK, DeferDefault, Goto, Places, Keys
    <3>10. CASE DeferTenant(r)
      BY <3>8, <3>10 DEF TypeOK, DeferTenant, Goto, Send, Places, Keys
    <3> QED BY <2>4, <3>1, <3>2, <3>3, <3>4, <3>5, <3>6, <3>7, <3>9, <3>10, <3>11, <3>12, <3>13, <3>14 DEF Progress
  <2>5. ASSUME NEW r \in Requests, HandlerWrites(r) PROVE TypeOK'
    BY <2>5 DEF TypeOK, HandlerWrites, CurrentKey, Keys
  <2>6. ASSUME NEW r \in Requests, HandlerAnswers(r) PROVE TypeOK'
    BY <2>6 DEF TypeOK, HandlerAnswers, Send
  <2>8. ASSUME NEW r \in Requests, HandlerSetsTenant(r) PROVE TypeOK'
    BY <2>8 DEF TypeOK, HandlerSetsTenant
  <2>7. ASSUME NEW r \in Requests, NEW k \in Keys, DriverRollsBack(r, k) PROVE TypeOK'
    BY <2>7, TxUpdate DEF TypeOK, DriverRollsBack, TxStates
  <2> QED BY <2>1, <2>2, <2>3, <2>4, <2>5, <2>6, <2>7, <2>8 DEF Next
<1> QED BY <1>1, <1>2, PTL DEF Spec

-------------------------------------------------------------------------------
(* The invariant of one request. *)
RInv(r) == ExitInv(r) /\ CommitInv(r) /\ FateInv(r) /\ WriteInv(r) /\ TenantInv(r)

\* A step that leaves the variables of a request alone leaves its invariant alone.
Same(q) ==
  /\ pc'[q] = pc[q] /\ tenant'[q] = tenant[q] /\ ctxTenant'[q] = ctxTenant[q]
  /\ tx'[q] = tx[q] /\ dirty'[q] = dirty[q] /\ durable'[q] = durable[q]
  /\ exit'[q] = exit[q] /\ ctx'[q] = ctx[q]

LEMMA SameInv == ASSUME NEW q \in Requests, RInv(q), Same(q) PROVE RInv(q)'
  BY DEF RInv, Same, ExitInv, CommitInv, FateInv, WriteInv, TenantInv

(* A step of the body that opens no transaction and stays in the body. *)
LEMMA BodyStep ==
  ASSUME TypeOK, NEW r \in Requests, RInv(r),
         PassMiddlewares(r) \/ SkipDefault(r) \/ SkipTenant(r) \/ Arrive(r)
  PROVE  RInv(r)' /\ \A q \in Requests \ {r} : Same(q)
<1> USE DEF RInv, ExitInv, CommitInv, FateInv, WriteInv, TenantInv, TypeOK, Same, Goto,
            InBody, BeforeTenantTx
<1>1. CASE PassMiddlewares(r) BY <1>1 DEF PassMiddlewares
<1>2. CASE SkipDefault(r) BY <1>2 DEF SkipDefault
<1>3. CASE SkipTenant(r) BY <1>3 DEF SkipTenant
<1>4. CASE Arrive(r) BY <1>4 DEF Arrive
<1> QED BY <1>1, <1>2, <1>3, <1>4

(* A step that begins a transaction. *)
LEMMA BeginStep ==
  ASSUME TypeOK, NEW r \in Requests, RInv(r), BeginDefault(r) \/ BeginTenant(r)
  PROVE  RInv(r)' /\ \A q \in Requests \ {r} : Same(q)
<1> USE DEF RInv, ExitInv, CommitInv, FateInv, WriteInv, TenantInv, TypeOK, Same, Goto,
            InBody, BeforeTenantTx, Begin, Keys
<1>1. CASE BeginDefault(r) BY <1>1 DEF BeginDefault
<1>2. CASE BeginTenant(r) BY <1>2 DEF BeginTenant
<1> QED BY <1>1, <1>2

(* A step that leaves the body, in any way. *)
LEMMA LeaveStep ==
  ASSUME TypeOK, NEW r \in Requests, RInv(r), NEW e \in Exits \ {"none"}, NEW from \in InBody,
         Leave(r, from, e), UNCHANGED <<tenant, ctxTenant, tx, dirty, durable, ctx>>
  PROVE  RInv(r)' /\ \A q \in Requests \ {r} : Same(q)
  BY DEF RInv, ExitInv, CommitInv, FateInv, WriteInv, TenantInv, TypeOK, Same, Leave, Goto,
         InBody, BeforeTenantTx, Exits

(* The handler writes or changes the tenant of its context. *)
LEMMA HandlerStep ==
  ASSUME TypeOK, NEW r \in Requests, RInv(r),
         HandlerWrites(r) \/ HandlerAnswers(r) \/ HandlerSetsTenant(r)
  PROVE  RInv(r)' /\ \A q \in Requests \ {r} : Same(q)
<1> USE DEF RInv, ExitInv, CommitInv, FateInv, WriteInv, TenantInv, TypeOK, Same,
            InBody, BeforeTenantTx
<1>1. CASE HandlerWrites(r) BY <1>1 DEF HandlerWrites, CurrentKey, Keys
<1>2. CASE HandlerAnswers(r) BY <1>2 DEF HandlerAnswers
<1>3. CASE HandlerSetsTenant(r) BY <1>3 DEF HandlerSetsTenant
<1> QED BY <1>1, <1>2, <1>3

(* The client leaves, or database/sql rolls back. *)
LEMMA OutsideStep ==
  ASSUME TypeOK, NEW r \in Requests, RInv(r),
         ClientGone(r) \/ \E k \in Keys : DriverRollsBack(r, k)
  PROVE  RInv(r)' /\ \A q \in Requests \ {r} : Same(q)
<1> USE DEF RInv, ExitInv, CommitInv, FateInv, WriteInv, TenantInv, TypeOK, Same,
            InBody, BeforeTenantTx
<1>1. CASE ClientGone(r) BY <1>1 DEF ClientGone
<1>2. CASE \E k \in Keys : DriverRollsBack(r, k) BY <1>2 DEF DriverRollsBack, Keys, TxStates
<1> QED BY <1>1, <1>2

(* What the deferred function does to one transaction: it ends the transaction, or *)
(* the context is done.                                                            *)
LEMMA FinishStep ==
  ASSUME TypeOK, NEW r \in Requests, RInv(r), NEW k \in Keys, Finish(r, k), exit[r] # "panicOther"
  PROVE  /\ \A q \in Requests : q # r => tx'[q] = tx[q] /\ durable'[q] = durable[q]
         /\ \A l \in Keys \ {k} : tx'[r][l] = tx[r][l]
         /\ tx'[r][k] = "active" => ctx[r] # "live"
         /\ tx'[r][k] = "none" <=> tx[r][k] = "none"
         /\ exit[r] = "panicError" => tx'[r][k] \notin {"committed", "failed"} /\ durable'[r] = durable[r]
         /\ exit[r] # "panicError" /\ tx'[r][k] = "rolledback" => tx[r][k] = "rolledback"
         /\ durable[r] \subseteq durable'[r]
         /\ tx'[r][k] = "committed" /\ k \in dirty[r] => k \in durable'[r]
<1> USE DEF TypeOK
<1>1. CASE UNCHANGED <<tx, durable>> /\ ~InTx(r)
  BY <1>1 DEF InTx, RInv, WriteInv, Keys
<1>2. CASE exit[r] = "panicError" /\ Rollback(r, k)
  BY <1>2 DEF Rollback, RInv, CommitInv, WriteInv, Keys
<1>3. CASE exit[r] # "panicError" /\ Commit(r, k)
  <2>1. CASE tx[r][k] = "active" /\ ctx[r] = "live"
    <3>1. PICK s \in CommitCanFail :
            /\ tx' = [tx EXCEPT ![r][k] = s]
            /\ durable' = [durable EXCEPT ![r] =
                             IF s = "committed" THEN @ \cup (dirty[r] \cap {k}) ELSE @]
      BY <1>3, <2>1 DEF Commit
    <3> QED BY <3>1, <1>3, <2>1 DEF CommitCanFail
  <2>2. CASE ~(tx[r][k] = "active" /\ ctx[r] = "live")
    BY <1>3, <2>2 DEF Commit, RInv, WriteInv
  <2> QED BY <2>1, <2>2
<1> QED BY <1>1, <1>2, <1>3 DEF Finish

(* The two halves of the deferred function. *)
LEMMA DeferStep ==
  ASSUME TypeOK, NEW r \in Requests, RInv(r),
         DeferRepanics(r) \/ DeferDefault(r) \/ DeferTenant(r)
  PROVE  RInv(r)' /\ \A q \in Requests \ {r} : Same(q)
<1> USE DEF TypeOK, Goto
<1>1. CASE DeferRepanics(r)
  BY <1>1 DEF DeferRepanics, RInv, ExitInv, CommitInv, FateInv, WriteInv, TenantInv, Same,
              InBody, BeforeTenantTx
<1>2. CASE DeferDefault(r)
  <2>1. exit[r] # "panicOther" /\ Finish(r, "default") /\ "default" \in Keys
    BY <1>2 DEF DeferDefault, Keys
  <2>2. exit[r] # "none" /\ ctx[r] # "ended"
    BY <1>2 DEF DeferDefault, RInv, ExitInv, InBody, BeforeTenantTx
  <2>5. /\ tx'[r]["tenant"] = tx[r]["tenant"]
        /\ tx'[r]["default"] = "active" => ctx[r] = "gone"
        /\ tx'[r]["default"] = "none" <=> tx[r]["default"] = "none"
        /\ exit[r] = "panicError" => tx'[r]["default"] \notin {"committed", "failed"} /\ durable'[r] = durable[r]
        /\ exit[r] # "panicError" /\ tx'[r]["default"] = "rolledback" => tx[r]["default"] = "rolledback"
        /\ durable[r] \subseteq durable'[r]
        /\ tx'[r]["default"] = "committed" /\ "default" \in dirty[r] => "default" \in durable'[r]
    BY <2>1, <2>2, FinishStep DEF Keys
  <2>6. exit' = exit /\ ctx' = ctx /\ dirty' = dirty /\ tenant' = tenant /\ ctxTenant' = ctxTenant
        /\ pc'[r] = "deferTenant" /\ pc[r] = "deferDefault"
    BY <1>2 DEF DeferDefault
  <2>7. exit[r] \in {"nil", "err", "panicError"}
    BY <2>1, <2>2 DEF Exits
  <2>8. ExitInv(r)' /\ TenantInv(r)'
    BY <2>1, <2>2, <2>6 DEF RInv, ExitInv, TenantInv, InBody, BeforeTenantTx
  <2>9. CommitInv(r)'
    BY <2>5, <2>6, <2>7 DEF RInv, CommitInv, Keys
  <2>10. FateInv(r)'
    BY <2>5, <2>6, <2>7 DEF RInv, FateInv, Keys
  <2>11. WriteInv(r)'
    BY <2>5, <2>6 DEF RInv, WriteInv, Keys
  <2>3. RInv(r)'
    BY <2>8, <2>9, <2>10, <2>11 DEF RInv
  <2>4. \A q \in Requests \ {r} : Same(q)
    BY <1>2, <2>1, FinishStep DEF DeferDefault, Same
  <2> QED BY <2>3, <2>4
<1>3. CASE DeferTenant(r)
  <2>1. exit[r] # "panicOther" /\ Finish(r, "tenant") /\ "tenant" \in Keys
    BY <1>3 DEF DeferTenant, RInv, ExitInv, Keys
  <2>2. exit[r] # "none" /\ ctx[r] # "ended"
    BY <1>3 DEF DeferTenant, RInv, ExitInv, InBody, BeforeTenantTx
  <2>5. /\ tx'[r]["default"] = tx[r]["default"]
        /\ tx'[r]["tenant"] = "active" => ctx[r] = "gone"
        /\ tx'[r]["tenant"] = "none" <=> tx[r]["tenant"] = "none"
        /\ exit[r] = "panicError" => tx'[r]["tenant"] \notin {"committed", "failed"} /\ durable'[r] = durable[r]
        /\ exit[r] # "panicError" /\ tx'[r]["tenant"] = "rolledback" => tx[r]["tenant"] = "rolledback"
        /\ durable[r] \subseteq durable'[r]
        /\ tx'[r]["tenant"] = "committed" /\ "tenant" \in dirty[r] => "tenant" \in durable'[r]
    BY <2>1, <2>2, FinishStep DEF Keys
  <2>6. exit' = exit /\ ctx' = ctx /\ dirty' = dirty /\ tenant' = tenant /\ ctxTenant' = ctxTenant
        /\ pc'[r] = "echo" /\ pc[r] = "deferTenant"
    BY <1>3 DEF DeferTenant
  <2>7. exit[r] \in {"nil", "err", "panicError"}
    BY <2>1, <2>2 DEF Exits
  <2>8. ExitInv(r)' /\ TenantInv(r)'
    BY <2>1, <2>2, <2>6 DEF RInv, ExitInv, TenantInv, InBody, BeforeTenantTx
  <2>9. CommitInv(r)'
    BY <2>5, <2>6, <2>7 DEF RInv, CommitInv, Keys
  <2>10. FateInv(r)'
    BY <2>5, <2>6, <2>7 DEF RInv, FateInv, Keys
  <2>11. WriteInv(r)'
    BY <2>5, <2>6 DEF RInv, WriteInv, Keys
  <2>3. RInv(r)'
    BY <2>8, <2>9, <2>10, <2>11 DEF RInv
  <2>4. \A q \in Requests \ {r} : Same(q)
    BY <1>3, <2>1, FinishStep DEF DeferTenant, Same
  <2> QED BY <2>3, <2>4
<1> QED BY <1>1, <1>2, <1>3

LEMMA EchoStep ==
  ASSUME TypeOK, NEW r \in Requests, RInv(r), EchoEnds(r)
  PROVE  RInv(r)' /\ \A q \in Requests \ {r} : Same(q)
  BY DEF TypeOK, Goto, EchoEnds, RInv, ExitInv, CommitInv, FateInv, WriteInv, TenantInv, Same,
         InBody, BeforeTenantTx

-------------------------------------------------------------------------------
(* Every step of one request keeps its invariant and leaves the others alone. *)
LEMMA StepInv ==
  ASSUME TypeOK, NEW r \in Requests, RInv(r),
         \/ Arrive(r) \/ ClientGone(r) \/ Progress(r)
         \/ HandlerWrites(r) \/ HandlerAnswers(r) \/ HandlerSetsTenant(r)
         \/ \E k \in Keys : DriverRollsBack(r, k)
  PROVE  RInv(r)' /\ \A q \in Requests \ {r} : Same(q)
<1>1. CASE PassMiddlewares(r) \/ SkipDefault(r) \/ SkipTenant(r) \/ Arrive(r)
  BY <1>1, BodyStep
<1>2. CASE BeginDefault(r) \/ BeginTenant(r)
  BY <1>2, BeginStep
<1>3. CASE RefuseInMiddleware(r) \/ PanicInMiddleware(r) \/ FailDefault(r) \/ FailTenant(r)
           \/ HandlerReturnsNil(r) \/ HandlerReturnsError(r) \/ HandlerPanics(r)
  <2>1. PICK e \in Exits \ {"none"}, from \in InBody :
          Leave(r, from, e) /\ UNCHANGED <<tenant, ctxTenant, tx, dirty, durable, ctx>>
    BY <1>3 DEF RefuseInMiddleware, PanicInMiddleware, FailDefault, FailTenant, HandlerReturnsNil,
                HandlerReturnsError, HandlerPanics, Exits, InBody, BeforeTenantTx
  <2> QED BY <2>1, LeaveStep
<1>4. CASE \E found \in {"cnx", "nil", "panic"} : LookupTenant(r, found)
  <2>1. CASE LookupTenant(r, "panic")
    <3>1. Leave(r, "lookupTenant", "panicOther")
          /\ UNCHANGED <<tenant, ctxTenant, tx, dirty, durable, ctx>>
      BY <2>1 DEF LookupTenant
    <3>2. "panicOther" \in Exits \ {"none"} /\ "lookupTenant" \in InBody
      BY DEF Exits, InBody, BeforeTenantTx
    <3> QED BY <3>1, <3>2, LeaveStep
  <2>2. CASE LookupTenant(r, "cnx") \/ LookupTenant(r, "nil")
    BY <2>2 DEF LookupTenant, Goto, TypeOK, RInv, ExitInv, CommitInv, FateInv, WriteInv, TenantInv,
                Same, InBody, BeforeTenantTx
  <2> QED BY <1>4, <2>1, <2>2
<1>5. CASE HandlerWrites(r) \/ HandlerAnswers(r) \/ HandlerSetsTenant(r)
  BY <1>5, HandlerStep
<1>6. CASE ClientGone(r) \/ \E k \in Keys : DriverRollsBack(r, k)
  BY <1>6, OutsideStep
<1>7. CASE DeferRepanics(r) \/ DeferDefault(r) \/ DeferTenant(r)
  BY <1>7, DeferStep
<1>8. CASE EchoEnds(r)
  BY <1>8, EchoStep
<1> QED BY <1>1, <1>2, <1>3, <1>4, <1>5, <1>6, <1>7, <1>8 DEF Progress

(* The inductive invariant holds in every reachable state. *)
THEOREM Invariance == Spec => []IInv
<1>1. Init => IInv
  BY DEF Init, IInv, ExitInv, CommitInv, FateInv, WriteInv, TenantInv, InBody, BeforeTenantTx, Keys
<1>2. TypeOK /\ IInv /\ [Next]_vars => IInv'
  <2> SUFFICES ASSUME TypeOK, IInv, [Next]_vars, NEW q \in Requests PROVE RInv(q)'
    BY DEF IInv, RInv
  <2>1. \A r \in Requests : RInv(r)
    BY DEF IInv, RInv
  <2>2. CASE UNCHANGED vars
    BY <2>1, <2>2, SameInv DEF vars, Same
  <2>3. CASE Next
    <3>1. PICK r \in Requests :
            \/ Arrive(r) \/ ClientGone(r) \/ Progress(r)
            \/ HandlerWrites(r) \/ HandlerAnswers(r) \/ HandlerSetsTenant(r)
            \/ \E k \in Keys : DriverRollsBack(r, k)
      BY <2>3 DEF Next
    <3>2. RInv(r)' /\ \A p \in Requests \ {r} : Same(p)
      BY <2>1, <3>1, StepInv
    <3> QED BY <2>1, <3>2, SameInv
  <2> QED BY <2>2, <2>3
<1> QED BY <1>1, <1>2, Typing, PTL DEF Spec

-------------------------------------------------------------------------------
(* A request whose wrapHandler panicked, in whatever way and wherever, has committed *)
(* nothing: the defect this excludes is a deferred function that commits after a     *)
(* panic between the two transactions.                                               *)
THEOREM NoCommitAfterPanic == Spec => []PanicNeverCommits
<1>1. IInv => PanicNeverCommits
  BY DEF IInv, CommitInv, PanicNeverCommits
<1> QED BY <1>1, Invariance, PTL

(* The default and the tenant transaction of a request are committed together or not *)
(* at all, when no commit failed and the client stayed.                              *)
THEOREM OneFate == Spec => []SharedFate
<1>1. TypeOK /\ IInv => SharedFate
  <2> SUFFICES ASSUME TypeOK, IInv, NEW r \in Requests, Left(r), ctx[r] # "gone",
                      \A k \in Keys : tx[r][k] \notin {"none", "failed"}
               PROVE  tx[r]["default"] = "committed" <=> tx[r]["tenant"] = "committed"
    BY DEF SharedFate
  <2>1. tx[r]["default"] \in {"active", "committed", "rolledback"}
        /\ tx[r]["tenant"] \in {"active", "committed", "rolledback"}
    BY DEF TypeOK, TxStates, Keys
  <2>2. CASE exit[r] \in {"nil", "err"}
    BY <2>1, <2>2 DEF IInv, FateInv, Left, Keys
  <2>3. CASE exit[r] \notin {"nil", "err"}
    BY <2>3 DEF IInv, CommitInv, Keys
  <2> QED BY <2>2, <2>3
<1> QED BY <1>1, Typing, Invariance, PTL

(* What a handler wrote in its transactions is in the database once it has returned, *)
(* with an error or not: only a failed commit or a client that left can lose it.     *)
THEOREM ReturnedDurable == Spec => []ReturnedIsDurable
<1>1. TypeOK /\ IInv => ReturnedIsDurable
  <2> SUFFICES ASSUME TypeOK, IInv, NEW r \in Requests, Left(r), exit[r] = "nil", ctx[r] # "gone",
                      NEW k \in dirty[r], tx[r][k] # "failed"
               PROVE  k \in durable[r]
    BY DEF ReturnedIsDurable
  <2>1. k \in Keys /\ tx[r][k] \in TxStates /\ tx[r][k] # "none"
    BY DEF TypeOK, IInv, WriteInv
  <2>2. tx[r][k] # "active" /\ tx[r][k] # "rolledback"
    BY <2>1 DEF IInv, FateInv, Left, Keys
  <2> QED BY <2>1, <2>2 DEF TxStates, IInv, WriteInv
<1> QED BY <1>1, Typing, Invariance, PTL

(* A transaction that is still open when wrapHandler has been left was left by a     *)
(* panic with a value that is no error, or by a client that went away.               *)
THEOREM NoLeak == Spec => []NoTxOutlivesWrapHandler
<1>1. IInv => NoTxOutlivesWrapHandler
  BY DEF IInv, FateInv, NoTxOutlivesWrapHandler, Left, Keys
<1> QED BY <1>1, Invariance, PTL

(* A handler starts with the tenant its tenant transaction was begun for, also when a *)
(* middleware changed the tenant.                                                     *)
THEOREM OneTenant == Spec => HandlerStartsWithOneTenant
<1>1. TypeOK /\ IInv /\ [Next]_vars => [StartsWithOneTenant]_vars
  <2> SUFFICES ASSUME TypeOK, IInv, Next, NEW q \in Requests, pc[q] # "handler", pc'[q] = "handler"
               PROVE  ctxTenant'[q] = tenant'[q]
                      /\ (tx'[q]["tenant"] # "none" => cnxTenant'[q] = ctxTenant'[q])
    BY DEF StartsWithOneTenant
  <2>1. PICK r \in Requests :
          \/ Arrive(r) \/ ClientGone(r) \/ Progress(r)
          \/ HandlerWrites(r) \/ HandlerAnswers(r) \/ HandlerSetsTenant(r)
          \/ \E k \in Keys : DriverRollsBack(r, k)
    BY DEF Next
  <2>2. RInv(q) /\ RInv(r)
    BY DEF IInv, RInv
  <2>3. q = r
    BY <2>1, <2>2, StepInv DEF Same
  <2>4. SkipDefault(r) \/ SkipTenant(r) \/ BeginTenant(r) \/ LookupTenant(r, "nil")
    BY <2>1, <2>3 DEF TypeOK, Goto, Leave, Arrive, ClientGone, Progress, HandlerWrites, HandlerAnswers,
       HandlerSetsTenant, DriverRollsBack, PassMiddlewares, RefuseInMiddleware, PanicInMiddleware,
       BeginDefault, FailDefault, LookupTenant, FailTenant, HandlerReturnsNil, HandlerReturnsError,
       HandlerPanics, DeferRepanics, DeferDefault, DeferTenant, EchoEnds
  <2>5. CASE BeginTenant(r)
    BY <2>2, <2>3, <2>5 DEF BeginTenant, Goto, RInv, TenantInv, TypeOK
  <2>6. CASE SkipDefault(r) \/ SkipTenant(r) \/ LookupTenant(r, "nil")
    BY <2>2, <2>3, <2>6 DEF SkipDefault, SkipTenant, LookupTenant, Leave, Goto, RInv, TenantInv,
       BeforeTenantTx, TypeOK
  <2> QED BY <2>4, <2>5, <2>6
<1> QED BY <1>1, Typing, Invariance, PTL DEF Spec, HandlerStartsWithOneTenant
=============================================================================
