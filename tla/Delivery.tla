------------------------------- MODULE Delivery -------------------------------
(* What the publish-and-subscribe providers promise, and no more: a message *)
(* reaches some of those who have subscribed, each at most once for every   *)
(* time it was sent out, in any order, and any of it may be lost.           *)
EXTENDS Integers

CONSTANTS Subs,     \* subscriptions
          Msgs,     \* messages, each given to Publish once
          Attempts  \* how often one call of Publish may send its message out

VARIABLES asked,  \* those who have called Subscribe
          copies, \* how often each message was sent out
          due,    \* per subscription and message: deliveries under way
          done    \* per subscription and message: handlers that have returned

vars == <<asked, copies, due, done>>

Init ==
  /\ asked = {} /\ copies = [m \in Msgs |-> 0]
  /\ due = [s \in Subs |-> [m \in Msgs |-> 0]] /\ done = due

Subscribe(s) == asked' = asked \union {s} /\ UNCHANGED <<copies, due, done>>

Publish(m) ==
  /\ copies[m] < Attempts /\ copies' = [copies EXCEPT ![m] = @ + 1]
  /\ \E to \in SUBSET asked :
       due' = [s \in Subs |-> [due[s] EXCEPT ![m] = IF s \in to THEN @ + 1 ELSE @]]
  /\ UNCHANGED <<asked, done>>

Handle(s, m) ==
  /\ due[s][m] > 0 /\ due' = [due EXCEPT ![s][m] = @ - 1]
  /\ done' = [done EXCEPT ![s][m] = @ + 1]
  /\ UNCHANGED <<asked, copies>>

\* Of one subscription, any number of deliveries.
Lose(s) ==
  /\ \E left \in [Msgs -> 0..Attempts] :
       /\ \A m \in Msgs : left[m] <= due[s][m]
       /\ due' = [due EXCEPT ![s] = left]
  /\ UNCHANGED <<asked, copies, done>>

Next ==
  \/ \E s \in Subs : Subscribe(s) \/ Lose(s) \/ \E m \in Msgs : Handle(s, m)
  \/ \E m \in Msgs : Publish(m)

Spec == Init /\ [][Next]_vars
================================================================================
