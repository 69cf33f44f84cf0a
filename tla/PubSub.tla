-------------------------------- MODULE PubSub --------------------------------
(* Publish and Subscribe of adapters/pubsub_impl.go on one topic.  With     *)
(* Redis each Subscribe starts a goroutine that connects, receives and      *)
(* creates a goroutine per message for the handler; connections break,      *)
(* calls of Publish are repeated by the client library, contexts end.  The  *)
(* fake keeps subscribers and counters in maps that nothing protects: an    *)
(* update that races with another may be lost.  (The Go runtime may also    *)
(* stop the process then.)                                                   *)
EXTENDS Integers, Sequences, FiniteSets

CONSTANTS Subs,      \* calls of Subscribe
          Msgs,      \* calls of Publish, by the message
          RedisSubs, \* bound of the exploration: those of them made with Redis
          Attempts,  \* go-redis sends a command at most that often
          MaxFaults  \* bound of the exploration: broken connections, failed attempts and
                     \* contexts that end

ASSUME PubSubAssumption == RedisSubs \subseteq Subs /\ Attempts \in Nat \ {0} /\ MaxFaults \in Nat

VARIABLES kind,     \* the provider: "redis" or "fake"
          sub,      \* per subscription: "idle", "down" or "up" (without or with a
                    \* connection), "ended"
          ctx,      \* per subscription: its context is "open", "cancelled" or "expired"
          queue,    \* per subscription: what Redis has sent and ReceiveMessage not returned
          faults,   \* what has gone wrong so far
          spawned,  \* per subscription and message: goroutines created to run the handler and
                    \* not at their end; when each gets to run is up to the Go scheduler
          handled,  \* per subscription and message: handlers that have returned
          pub,      \* per message: where its Publish is
          tries,    \* per message: failed attempts of its Publish
          copies,   \* per message: how often it was sent out
          reach,    \* history: who was connected when Publish began and has been since
          before,   \* history, per message: those whose Publish had returned nil when its own began
          list,     \* the fake's subscribers
          sent, received, \* the fake's counters
          todo,     \* per message: the handlers the fake has still to create a goroutine for
          alone     \* history: no update of the fake's maps was lost

redis == <<ctx, queue, faults, tries, reach, before>>
fake == <<list, sent, received, todo, alone>>
vars == <<kind, sub, spawned, handled, pub, copies, redis, fake>>

Init ==
  /\ kind \in {"redis", "fake"}
  /\ sub = [s \in Subs |-> "idle"] /\ ctx = [s \in Subs |-> "open"]
  /\ queue = [s \in Subs |-> <<>>] /\ faults = 0
  /\ spawned = [s \in Subs |-> [m \in Msgs |-> 0]] /\ handled = spawned
  /\ pub = [m \in Msgs |-> "new"] /\ tries = [m \in Msgs |-> 0]
  /\ copies = tries /\ reach = [m \in Msgs |-> {}] /\ before = reach
  /\ list = <<>> /\ sent = 0 /\ received = 0 /\ todo = [m \in Msgs |-> <<>>]
  /\ alone = TRUE

Fault == faults < MaxFaults /\ faults' = faults + 1
SubIs(s, state) == sub' = [sub EXCEPT ![s] = state]
PubIs(m, state) == pub' = [pub EXCEPT ![m] = state]
Connected == {s \in Subs : sub[s] = "up"}

\* `go handler(ctx, message)` creates a goroutine; the handler has not begun with that.
Spawn(s, m) == spawned' = [spawned EXCEPT ![s][m] = @ + 1]

\* The scheduler has let one of the goroutines run, any of them, and its handler, which is the
\* application's, has returned.  When the handler began is no part of the state.
HandlerReturns(s, m) ==
  /\ spawned[s][m] > 0 /\ spawned' = [spawned EXCEPT ![s][m] = @ - 1]
  /\ handled' = [handled EXCEPT ![s][m] = @ + 1]
  /\ UNCHANGED <<kind, sub, pub, copies, redis, fake>>

-------------------------------------------------------------------------------
(* Redis: the subscriber *)

\* Subscribe returns at once; its goroutine has no connection yet.
Subscribe(s) ==
  /\ kind = "redis" /\ s \in RedisSubs /\ sub[s] = "idle" /\ SubIs(s, "down")
  /\ UNCHANGED <<kind, spawned, handled, pub, copies, redis, fake>>

\* ReceiveMessage connects, and subscribes again after a connection was lost.  It cannot when
\* the context has ended: the loop goes round on the error of a deadline.
Connect(s) ==
  /\ kind = "redis" /\ sub[s] = "down" /\ ctx[s] = "open" /\ SubIs(s, "up")
  /\ UNCHANGED <<kind, spawned, handled, pub, copies, redis, fake>>

\* Without a connection, what was sent and not yet received is gone.
Drop(s, state) ==
  /\ SubIs(s, state) /\ queue' = [queue EXCEPT ![s] = <<>>]
  /\ reach' = [m \in Msgs |-> reach[m] \ {s}]
  /\ UNCHANGED <<kind, spawned, handled, pub, ctx, tries, before, copies, fake>>

\* Mutant: the loop ends at any error.
ReceiveFailsForGood(s) ==
  /\ sub[s] = "up" /\ kind = "redis" /\ Fault /\ Drop(s, "ended")

\* The connection breaks: ReceiveMessage returns an error and the loop goes on.  The deadline
\* of the context is such an error too.
ReceiveFails(s) ==
  /\ sub[s] = "up" /\ kind = "redis"
  /\ \/ Fault
     \/ ctx[s] = "expired" /\ UNCHANGED faults
  /\ Drop(s, "down")

\* Only context.Canceled ends the loop, and closes the subscription.
LoopEnds(s) ==
  /\ sub[s] \in {"down", "up"} /\ kind = "redis" /\ ctx[s] = "cancelled"
  /\ UNCHANGED faults /\ Drop(s, "ended")

\* Mutant: the message is looked at and stays in the queue.
ReceivePeek(s) ==
  /\ sub[s] = "up" /\ queue[s] # <<>> /\ ctx[s] # "expired" /\ Spawn(s, Head(queue[s]))
  /\ UNCHANGED <<kind, sub, handled, pub, copies, redis, fake>>

\* Mutant: a message that arrives while a handler runs is dropped.
ReceiveUnlessBusy(s) ==
  /\ sub[s] = "up" /\ queue[s] # <<>> /\ ctx[s] # "expired"
  /\ queue' = [queue EXCEPT ![s] = Tail(@)]
  /\ IF \A m \in Msgs : spawned[s][m] = 0 THEN Spawn(s, Head(queue[s])) ELSE UNCHANGED spawned
  /\ UNCHANGED <<kind, sub, handled, pub, copies, ctx, faults, tries, reach, before, fake>>

\* Mutant: every message is received in a goroutine of its own.
ReceiveAny(s) ==
  /\ sub[s] = "up" /\ ctx[s] # "expired"
  /\ \E i \in 1..Len(queue[s]) :
       /\ queue' = [queue EXCEPT ![s] = SubSeq(@, 1, i - 1) \o SubSeq(@, i + 1, Len(@))]
       /\ Spawn(s, queue[s][i])
  /\ UNCHANGED <<kind, sub, handled, pub, copies, ctx, faults, tries, reach, before, fake>>

\* A message arrives and gets a goroutine of its own.  A read that waits does not notice that
\* the context was cancelled: the message still comes.
Receive(s) ==
  /\ sub[s] = "up" /\ queue[s] # <<>> /\ ctx[s] # "expired"
  /\ queue' = [queue EXCEPT ![s] = Tail(@)] /\ Spawn(s, Head(queue[s]))
  /\ UNCHANGED <<kind, sub, handled, pub, copies, ctx, faults, tries, reach, before, fake>>

\* The context of a subscription is cancelled or passes its deadline.
ContextEnds(s) ==
  /\ kind = "redis" /\ sub[s] # "idle" /\ ctx[s] = "open" /\ Fault
  /\ \E how \in {"cancelled", "expired"} : ctx' = [ctx EXCEPT ![s] = how]
  /\ UNCHANGED <<kind, sub, spawned, handled, pub, copies, queue, tries, reach, before, fake>>

-------------------------------------------------------------------------------
(* Redis: the publisher *)

Publish(m) ==
  /\ kind = "redis" /\ pub[m] = "new" /\ PubIs(m, "sending")
  /\ reach' = [reach EXCEPT ![m] = Connected]
  /\ before' = [before EXCEPT ![m] = {n \in Msgs : pub[n] = "ok"}]
  /\ UNCHANGED <<kind, sub, spawned, handled, copies, ctx, queue, faults, tries, fake>>

\* The server sends the message to everybody connected.
Execute(m) ==
  /\ pub[m] = "sending" /\ PubIs(m, "sent") /\ copies' = [copies EXCEPT ![m] = @ + 1]
  /\ queue' = [s \in Subs |-> IF s \in Connected THEN Append(queue[s], m) ELSE queue[s]]
  /\ UNCHANGED <<kind, sub, spawned, handled, ctx, faults, tries, reach, before, fake>>

\* Its answer arrives: Publish returns nil.
PublishReturns(m) ==
  /\ pub[m] = "sent" /\ PubIs(m, "ok")
  /\ UNCHANGED <<kind, sub, spawned, handled, copies, redis, fake>>

\* The command or its answer is lost: the client repeats it, or Publish returns the error
\* (at the last attempt, or when the context of Publish has ended).
AttemptFails(m) ==
  /\ pub[m] \in {"sending", "sent"} /\ Fault /\ tries' = [tries EXCEPT ![m] = @ + 1]
  /\ \/ tries[m] + 1 < Attempts /\ PubIs(m, "sending")
     \/ PubIs(m, "failed")
  /\ UNCHANGED <<kind, sub, spawned, handled, copies, ctx, queue, reach, before, fake>>

-------------------------------------------------------------------------------
(* The fake *)

\* An update of the fake's maps takes effect, or is lost to another at the same time.
Update(effect, none) == (effect /\ UNCHANGED alone) \/ (none /\ alone' = FALSE)

FakeSubscribe(s) ==
  /\ kind = "fake" /\ sub[s] = "idle" /\ SubIs(s, "up")
  /\ Update(list' = Append(list, s), UNCHANGED list)
  /\ UNCHANGED <<kind, spawned, handled, pub, copies, redis, sent, received, todo>>

\* Publish counts and takes the handlers there are,
FakePublish(m) ==
  /\ kind = "fake" /\ pub[m] = "new" /\ PubIs(m, "spawning")
  /\ Update(sent' = sent + 1, UNCHANGED sent)
  /\ todo' = [todo EXCEPT ![m] = list] /\ copies' = [copies EXCEPT ![m] = 1]
  /\ UNCHANGED <<kind, sub, spawned, handled, redis, list, received>>

\* Mutant: all are counted and one gets a goroutine.
FakeSpawnFirst(m) ==
  /\ pub[m] = "spawning" /\ todo[m] # <<>>
  /\ Update(received' = received + Len(todo[m]), UNCHANGED received)
  /\ Spawn(Head(todo[m]), m) /\ todo' = [todo EXCEPT ![m] = <<>>]
  /\ UNCHANGED <<kind, sub, handled, pub, copies, redis, list, sent>>

\* counts them and creates their goroutines one by one,
FakeSpawn(m) ==
  /\ pub[m] = "spawning" /\ todo[m] # <<>>
  /\ Update(received' = received + 1, UNCHANGED received)
  /\ Spawn(Head(todo[m]), m) /\ todo' = [todo EXCEPT ![m] = Tail(@)]
  /\ UNCHANGED <<kind, sub, handled, pub, copies, redis, list, sent>>

\* and returns.
FakeReturns(m) ==
  /\ pub[m] = "spawning" /\ todo[m] = <<>> /\ PubIs(m, "ok")
  /\ UNCHANGED <<kind, sub, spawned, handled, copies, redis, fake>>

-------------------------------------------------------------------------------
Subscriber(s) ==
  Subscribe(s) \/ Connect(s) \/ ReceiveFails(s) \/ LoopEnds(s) \/ Receive(s) \/ ContextEnds(s)
  \/ FakeSubscribe(s) \/ \E m \in Msgs : HandlerReturns(s, m)

Publisher(m) ==
  Publish(m) \/ Execute(m) \/ PublishReturns(m) \/ AttemptFails(m)
  \/ FakePublish(m) \/ FakeSpawn(m) \/ FakeReturns(m)

Next == (\E s \in Subs : Subscriber(s)) \/ (\E m \in Msgs : Publisher(m))

\* Redis can be reached again, and the goroutine of a subscription is scheduled.
Fairness == \A s \in Subs : WF_vars(Connect(s)) /\ WF_vars(Receive(s))

Spec == Init /\ [][Next]_vars /\ Fairness

-------------------------------------------------------------------------------
(* Properties *)

\* The types of the variables; nobody runs more handlers for a message than it was sent out.
TypeOK ==
  /\ kind \in {"redis", "fake"}
  /\ sub \in [Subs -> {"idle", "down", "up", "ended"}]
  /\ ctx \in [Subs -> {"open", "cancelled", "expired"}]
  /\ queue \in [Subs -> Seq(Msgs)] /\ faults \in 0..MaxFaults
  /\ spawned \in [Subs -> [Msgs -> 0..Attempts]] /\ handled \in [Subs -> [Msgs -> 0..Attempts]]
  /\ pub \in [Msgs -> {"new", "sending", "sent", "spawning", "ok", "failed"}]
  /\ tries \in [Msgs -> 0..Attempts] /\ copies \in [Msgs -> 0..Attempts]
  /\ reach \in [Msgs -> SUBSET Subs] /\ before \in [Msgs -> SUBSET Msgs]
  /\ list \in Seq(Subs) /\ todo \in [Msgs -> Seq(Subs)]
  /\ sent \in Nat /\ received \in Nat /\ alone \in BOOLEAN

Elements(q) == {q[i] : i \in 1..Len(q)}
Count(q, x) == Cardinality({i \in 1..Len(q) : q[i] = x})

\* Deliveries of m to s under way: sent and not received, with a goroutine, or still to get one.
Due(s, m) == Count(queue[s], m) + spawned[s][m] + Count(todo[m], s)

Promise == INSTANCE Delivery WITH
  asked <- {s \in Subs : sub[s] # "idle"},
  due <- [s \in Subs |-> [m \in Msgs |-> Due(s, m)]],
  done <- handled

\* Both providers keep the promise of Delivery: handlers get published messages only, after
\* they have subscribed, and at most once for every time the message was sent out.
Implements == Promise!Spec

\* When Publish has returned nil, every subscription that was connected when it began and has
\* been since has the message: it waits, has a goroutine, or was handled.
AckedReachesConnected ==
  \A m \in Msgs, s \in Subs :
    pub[m] = "ok" /\ s \in reach[m] =>
      m \in Elements(queue[s]) \/ spawned[s][m] > 0 \/ handled[s][m] > 0

\* The subscription s has taken m: there is a goroutine for it, or there was.
Taken(s, m) == spawned[s][m] > 0 \/ handled[s][m] > 0

\* Whoever publishes a message after the Publish of another has returned nil may count on the
\* order in which a subscription takes them that has been connected since the other began: the
\* receive loop does not create a goroutine for the later message before one for the earlier.
\* That is all the code orders.  Which of the two handlers begins or ends first is up to the
\* Go scheduler, and a repeated command may bring a second copy of the earlier afterwards.
TakenInOrder ==
  \A s \in Subs, m \in Msgs : \A n \in before[m] :
    s \in reach[n] /\ Taken(s, m) => Taken(s, n)

\* A subscription whose context is open gets over every error: it is connected again and
\* has taken what was sent to it, time and again.
StaysSubscribed ==
  \A s \in Subs :
    (sub[s] = "down" \/ queue[s] # <<>>) ~> ((sub[s] = "up" /\ queue[s] = <<>>) \/ ctx[s] # "open")

\* As long as no update was lost, the fake's counters tell a test the truth when no Publish is
\* under way: Sent the messages published, Received the goroutines created for handlers; and
\* nobody who has subscribed is missing.
CountsAreExact ==
  kind = "fake" /\ alone /\ (\A m \in Msgs : pub[m] # "spawning") =>
    /\ sent = Cardinality({m \in Msgs : copies[m] > 0})
    /\ received = Cardinality({d \in Subs \X Msgs : Taken(d[1], d[2])})
    /\ Elements(list) = Connected

================================================================================
