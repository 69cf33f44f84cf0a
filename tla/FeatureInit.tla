----------------------------- MODULE FeatureInit -----------------------------
(* AppBuilder.Init of app/app.go: checkFeatures and orderFeatures put the       *)
(* features in dependency order, then the hooks and the infrastructure run in   *)
(* that order.  Sequential, but not deterministic: the first queue of the       *)
(* topological sort is filled in map order, and every provider may fail.        *)
(*                                                                              *)
(* Abstracted: a feature is its name; two features of one name are taken to     *)
(* have the same dependencies and hooks.  What the hooks and providers do is    *)
(* left out, except whether they fail; a feature without BeforeInit counts as   *)
(* one whose BeforeInit does nothing.                                           *)
EXTENDS Naturals, Sequences, FiniteSets, SequencesExt

CONSTANTS Names,     \* names of features
          NoName,    \* the empty name
          Worlds,    \* the dependency lists considered: functions from Names to sequences of names
          Lists,     \* the lists of features given to Init
          Providers  \* number of providers Init can set up, in its fixed order

ASSUME FeatureAssumption ==
  /\ NoName \notin Names
  /\ Worlds \subseteq [Names -> Seq(Names)]
  /\ Lists \subseteq Seq(Names \cup {NoName})
  /\ Providers \in Nat

VARIABLES
  deps,      \* DependsOn of each feature
  hookless,  \* the features without an OnInit hook
  given,     \* the list given to Init
  phase,     \* where Init is
  next,      \* index of the loop Init is in
  dep,       \* index of the loop inside it, over the dependencies of one feature
  loaded,    \* loadedFeatures
  indegree,  \* unmet dependencies of each loaded feature
  queue,     \* features whose dependencies are all in the order
  order,     \* the features in dependency order
  before,    \* the BeforeInit hooks called so far
  inits,     \* the OnInit hooks called so far
  error      \* the error Init returned

vars == <<deps, hookless, given, phase, next, dep, loaded, indegree, queue, order, before, inits, error>>
world == <<deps, hookless, given>>

Phases == {"check", "load", "count", "sort", "before", "providers", "init", "over"}
Errors == {"none", "unnamed", "duplicate", "cyclic", "noCreate", "provider"}

TypeOK ==
  /\ deps \in Worlds /\ hookless \subseteq Names /\ given \in Lists
  /\ phase \in Phases /\ error \in Errors /\ next \in Nat \ {0} /\ dep \in Nat \ {0}
  /\ loaded \in Seq(Names) /\ queue \in Seq(Names) /\ order \in Seq(Names)
  /\ before \in Seq(Names) /\ inits \in Seq(Names)
  /\ indegree \in [ToSet(loaded) -> Nat] \/ indegree = <<>>

Init ==
  /\ deps \in Worlds /\ given \in Lists
  /\ hookless \in {{}} \cup {{n} : n \in Names}
  /\ phase = "check" /\ next = 1 /\ dep = 1 /\ error = "none"
  /\ loaded = <<>> /\ indegree = <<>> /\ queue = <<>> /\ order = <<>>
  /\ before = <<>> /\ inits = <<>>

-------------------------------------------------------------------------------
Enter(p) == phase' = p /\ next' = 1 /\ UNCHANGED dep
Fail(e) == phase' = "over" /\ error' = e /\ UNCHANGED <<next, dep>>
Advance == next' = next + 1 /\ dep' = 1 /\ UNCHANGED phase

\* Times n occurs among the dependencies of m.
Edges(n, m) == Cardinality({i \in DOMAIN deps[m] : deps[m][i] = n})

\* checkFeatures: every feature is named, and named once.
CheckName ==
  /\ phase = "check" /\ next <= Len(given)
  /\ LET n == given[next] IN
       \/ n = NoName /\ Fail("unnamed") /\ UNCHANGED loaded
       \/ n \in ToSet(loaded) /\ Fail("duplicate") /\ UNCHANGED loaded
       \/ n # NoName /\ n \notin ToSet(loaded) /\ loaded' = Append(loaded, n) /\ Advance /\ UNCHANGED error
  /\ UNCHANGED <<world, indegree, queue, order, before, inits>>

NamesChecked ==
  /\ phase = "check" /\ next > Len(given)
  /\ Enter("load")
  /\ UNCHANGED <<world, loaded, indegree, queue, order, before, inits, error>>

\* A missing dependency of a feature is appended.  The outer loop ranges over the slice
\* as it was when the loop began, so over the given features only.
LoadDependency ==
  /\ phase = "load" /\ next <= Len(given) /\ dep <= Len(deps[loaded[next]])
  /\ LET d == deps[loaded[next]][dep]
     IN loaded' = IF d \in ToSet(loaded) THEN loaded ELSE Append(loaded, d)
  /\ dep' = dep + 1
  /\ UNCHANGED <<world, phase, next, indegree, queue, order, before, inits, error>>

FeatureLoaded ==
  /\ phase = "load" /\ next <= Len(given) /\ dep > Len(deps[loaded[next]])
  /\ Advance
  /\ UNCHANGED <<world, loaded, indegree, queue, order, before, inits, error>>

DependenciesLoaded ==
  /\ phase = "load" /\ next > Len(given)
  /\ Enter("count")
  /\ UNCHANGED <<world, loaded, indegree, queue, order, before, inits, error>>

\* Mutant: a feature that depends twice on another one is counted once.
CountDependenciesOnce ==
  /\ phase = "count"
  /\ indegree' = [m \in ToSet(loaded) |-> Cardinality(ToSet(deps[m]))]
  /\ \E q \in SetToSeqs({m \in ToSet(loaded) : deps[m] = <<>>}) : queue' = q
  /\ Enter("sort")
  /\ UNCHANGED <<world, loaded, order, before, inits, error>>

\* orderFeatures: the number of dependencies of each feature, and those without any
\* in the order of a map, which is any order.
CountDependencies ==
  /\ phase = "count"
  /\ indegree' = [m \in ToSet(loaded) |-> Len(deps[m])]
  /\ \E q \in SetToSeqs({m \in ToSet(loaded) : deps[m] = <<>>}) : queue' = q
  /\ Enter("sort")
  /\ UNCHANGED <<world, loaded, order, before, inits, error>>

\* Those that are ready join the queue in the order of loaded.
Join(ready) ==
  \E q \in SetToSeqs(ready) :
    /\ \A i, j \in DOMAIN loaded : \A k, l \in DOMAIN q :
         loaded[i] = q[k] /\ loaded[j] = q[l] /\ i < j => k < l
    /\ queue' = Tail(queue) \o q

\* Mutant: a dependent is queued when its first dependency is met.
PopEager ==
  /\ phase = "sort" /\ queue # <<>>
  /\ LET n == Head(queue)
     IN /\ order' = Append(order, n)
        /\ indegree' = [m \in DOMAIN indegree |-> IF Edges(n, m) > 0 THEN 0 ELSE indegree[m]]
        /\ Join({m \in ToSet(loaded) : Edges(n, m) > 0 /\ indegree[m] > 0})
  /\ UNCHANGED <<world, phase, next, dep, loaded, before, inits, error>>

\* The first of the queue is ordered; a feature that has no unmet dependency left
\* joins the queue.  graph[n] lists the dependents in the order of loaded, once per
\* edge, so they join in the order of their last edge, which is the order of loaded.
Pop ==
  /\ phase = "sort" /\ queue # <<>>
  /\ LET n == Head(queue)
     IN /\ order' = Append(order, n)
        /\ indegree' = [m \in DOMAIN indegree |-> indegree[m] - Edges(n, m)]
        /\ Join({m \in ToSet(loaded) : Edges(n, m) > 0 /\ indegree[m] = Edges(n, m)})
  /\ UNCHANGED <<world, phase, next, dep, loaded, before, inits, error>>

\* Mutant: what could be ordered is taken.
SortedPartly ==
  /\ phase = "sort" /\ queue = <<>>
  /\ Enter("before") /\ UNCHANGED error
  /\ UNCHANGED <<world, loaded, indegree, queue, order, before, inits>>

\* Mutant: the sort goes on until every feature is in the order.
SortedWhenComplete ==
  /\ phase = "sort" /\ queue = <<>> /\ Len(order) = Len(loaded)
  /\ Enter("before") /\ UNCHANGED error
  /\ UNCHANGED <<world, loaded, indegree, queue, order, before, inits>>

Sorted ==
  /\ phase = "sort" /\ queue = <<>>
  /\ IF Len(order) # Len(loaded) THEN Fail("cyclic") ELSE Enter("before") /\ UNCHANGED error
  /\ UNCHANGED <<world, loaded, indegree, queue, order, before, inits>>

\* A feature without OnInit ends Init when its turn comes, after the BeforeInit
\* hooks of the features before it have run.
BeforeHook ==
  /\ phase = "before" /\ next <= Len(order)
  /\ IF order[next] \in hookless
     THEN Fail("noCreate") /\ UNCHANGED before
     ELSE before' = Append(before, order[next]) /\ Advance /\ UNCHANGED error
  /\ UNCHANGED <<world, loaded, indegree, queue, order, inits>>

BeforeDone ==
  /\ phase = "before" /\ next > Len(order)
  /\ Enter("providers")
  /\ UNCHANGED <<world, loaded, indegree, queue, order, before, inits, error>>

\* Mutant: a provider that fails is logged.
SetUpProviderOrLog ==
  /\ phase = "providers" /\ next <= Providers
  /\ Advance /\ error' \in {"none", "provider"}
  /\ UNCHANGED <<world, loaded, indegree, queue, order, before, inits>>

\* The next provider is not configured or is set up and registered, or it fails: the
\* providers set up before it stay registered.
SetUpProvider ==
  /\ phase = "providers" /\ next <= Providers
  /\ \/ Advance /\ UNCHANGED error
     \/ Fail("provider")
  /\ UNCHANGED <<world, loaded, indegree, queue, order, before, inits>>

\* The router and the MCP server are created; neither can fail.
ProvidersDone ==
  /\ phase = "providers" /\ next > Providers
  /\ Enter("init")
  /\ UNCHANGED <<world, loaded, indegree, queue, order, before, inits, error>>

InitHook ==
  /\ phase = "init" /\ next <= Len(order)
  /\ inits' = Append(inits, order[next])
  /\ Advance
  /\ UNCHANGED <<world, loaded, indegree, queue, order, before, error>>

InitReturns ==
  /\ phase = "init" /\ next > Len(order)
  /\ phase' = "over"
  /\ UNCHANGED <<world, next, dep, loaded, indegree, queue, order, before, inits, error>>

Next ==
  \/ CheckName \/ NamesChecked \/ LoadDependency \/ FeatureLoaded \/ DependenciesLoaded
  \/ CountDependencies \/ Pop \/ Sorted
  \/ BeforeHook \/ BeforeDone \/ SetUpProvider \/ ProvidersDone \/ InitHook \/ InitReturns

Spec == Init /\ [][Next]_vars
FairSpec == Spec /\ WF_vars(Next)

-------------------------------------------------------------------------------
(* Properties *)

\* Reference definition, independent of the algorithm: a set of features can be put
\* in dependency order unless some of them each need one that is not in S or is
\* itself among them.
Orderable(S) ==
  ~ \E U \in (SUBSET S) \ {{}} : \A m \in U : \E d \in ToSet(deps[m]) : d \notin S \/ d \in U

\* orderFeatures succeeds exactly on the sets that can be ordered, whatever the map
\* order, duplicates in DependsOn and dependencies on oneself.
SucceedsIffOrderable ==
  /\ error = "cyclic" => ~Orderable(ToSet(loaded))
  /\ phase \in {"before", "providers", "init"} => Orderable(ToSet(loaded))

\* When a hook of a feature runs, the same hook of each of its dependencies has run
\* before, each hook runs at most once, and no feature outside the closure runs one.
HooksFollowDependencies ==
  \A ran \in {before, inits} :
    /\ IsInjective(ran) /\ ToSet(ran) \subseteq ToSet(loaded)
    /\ \A i \in DOMAIN ran : ToSet(deps[ran[i]]) \subseteq {ran[j] : j \in 1..(i - 1)}

\* An Init that fails has called no OnInit; one that succeeds has called the OnInit of
\* every given feature and of its direct dependencies, after all their BeforeInit.
AllOrNoInit ==
  /\ inits # <<>> => ToSet(before) = ToSet(loaded)
  /\ error # "none" => inits = <<>>
  /\ phase = "over" /\ error = "none"
       => \A n \in ToSet(given) : {n} \cup ToSet(deps[n]) \subseteq ToSet(inits)

\* Init returns, also for cyclic, duplicate and unknown dependencies.
InitEnds == <>(phase = "over")
=============================================================================
