------------------------------ MODULE Singletons ------------------------------
(* What core/di.go promises its callers, without locks: every operation takes  *)
(* effect at once, at some moment between its call and its return.  The first  *)
(* successful Lookup of a type fixes the component that all later ones return, *)
(* until Clear.                                                                 *)
CONSTANTS Goroutines, Types,
          Components,   \* what may be registered, the nil component included
          Absent,       \* no entry
          Pending       \* the call has not taken effect yet

VARIABLES provided,  \* the component registered last for each type
          resolved,  \* the component that was returned first
          call,      \* the call each goroutine has made: [op, type, arg]
          reply      \* the answer of that call, Pending before it takes effect

vars == <<provided, resolved, call, reply>>

Entries == Components \cup {Absent}
NoCall == [op |-> "none"]
Calls ==
  [op : {"provide"}, type : Types, arg : Components]
    \cup [op : {"lookup"}, type : Types] \cup [op : {"clear"}] \cup {NoCall}

Init ==
  /\ provided = [t \in Types |-> Absent]
  /\ resolved = [t \in Types |-> Absent]
  /\ call = [g \in Goroutines |-> NoCall]
  /\ reply = [g \in Goroutines |-> Pending]

Call(g, c) ==
  /\ call[g] = NoCall /\ c # NoCall
  /\ call' = [call EXCEPT ![g] = c]
  /\ UNCHANGED <<provided, resolved, reply>>

Answer(g, r) == reply[g] = Pending /\ reply' = [reply EXCEPT ![g] = r] /\ UNCHANGED call

Provide(g) ==
  /\ call[g].op = "provide"
  /\ Answer(g, call[g].arg)
  /\ provided' = [provided EXCEPT ![call[g].type] = call[g].arg]
  /\ UNCHANGED resolved

Lookup(g) ==
  /\ call[g].op = "lookup"
  /\ LET t == call[g].type
         c == IF resolved[t] # Absent THEN resolved[t] ELSE provided[t]
     IN Answer(g, c) /\ resolved' = [resolved EXCEPT ![t] = c]
  /\ UNCHANGED provided

Clear(g) ==
  /\ call[g].op = "clear"
  /\ Answer(g, Absent)
  /\ provided' = [t \in Types |-> Absent]
  /\ resolved' = [t \in Types |-> Absent]

Return(g) ==
  /\ reply[g] # Pending
  /\ call' = [call EXCEPT ![g] = NoCall]
  /\ reply' = [reply EXCEPT ![g] = Pending]
  /\ UNCHANGED <<provided, resolved>>

Next ==
  \E g \in Goroutines :
    \/ \E c \in Calls : Call(g, c)
    \/ Provide(g) \/ Lookup(g) \/ Clear(g) \/ Return(g)

Spec == Init /\ [][Next]_vars
=============================================================================
