---------------------------- MODULE JobQueue_proof ----------------------------
(* Proofs about JobQueue, for any number of requests, keys, retries and faults. *)
EXTENDS JobQueue, FiniteSetTheorems, SequenceTheorems, TLAPS

Job == [key : Keys, queue : {"default"}, state : States, retried : 0..MaxRetry]
Poll == [status : {mapTaskState(s) : s \in States} \union {"not found"}, retried : 0..MaxRetry]

-------------------------------------------------------------------------------
(* The inductive invariants, as named parts. *)

\* What a request has been answered with, has still to store or finds stored is a job of its key.
AnswerInv ==
  \A k \in Keys :
    /\ stored[k] # None => stored[k] \in JobsOf(k)
    /\ \A r \in Requests : key[r] = k /\ (job[r] # None \/ pc[r] = "set") => job[r] \in JobsOf(k)

\* One request at a time is under way for the key; it enqueues only if there is no job, and
\* there is never a second one; a job is stored unless it is about to be.
Orderly(k) ==
  /\ \A i, j \in JobsOf(k) : i = j
  /\ \A r, q \in Underway(k) : r = q
  /\ \A r \in Underway(k) : pc[r] = "enqueue" => JobsOf(k) = {}
  /\ (\A r \in Underway(k) : pc[r] # "set") /\ JobsOf(k) # {} => stored[k] # None

\* So it is with every key that nothing has disturbed.
KeyInv == \A k \in Keys \ disturbed : Orderly(k)

-------------------------------------------------------------------------------
\* The types of the variables, one by one.
LEMMA Types ==
  ASSUME TypeOK
  PROVE  /\ jobs \in Seq(Job) /\ Len(jobs) \in Nat /\ \A i \in Ids : jobs[i] \in Job
         /\ polled \in Seq({None} \union Poll) /\ Len(polled) = Len(jobs)
         /\ faults \in 0..MaxFaults /\ disturbed \in SUBSET Keys /\ blind \in SUBSET Ids
         /\ pc \in [Requests -> {"new", "get", "enqueue", "set", "done"}] /\ key \in [Requests -> Keys]
         /\ job \in [Requests -> Ids \union {None}] /\ stored \in [Keys -> Ids \union {None}]
<1>1. jobs \in Seq(Job) /\ polled \in Seq({None} \union Poll)
  BY DEF TypeOK, Job, Poll
<1>2. Len(jobs) \in Nat /\ \A i \in Ids : jobs[i] \in Job
  BY <1>1 DEF Ids
<1> QED BY <1>1, <1>2 DEF TypeOK

\* A fault, if there is one, is counted.
LEMMA Faults ==
  ASSUME TypeOK, Fault \/ UNCHANGED faults
  PROVE  faults' \in 0..MaxFaults
<1>1. faults \in 0..MaxFaults
  BY Types
<1> QED BY <1>1, JobQueueAssumption DEF Fault

\* What Add does to the jobs of a key.
LEMMA AddJob ==
  ASSUME NEW k \in Keys, TypeOK, Add(k)
  PROVE  /\ Len(jobs') = Len(jobs) + 1 /\ Ids' = Ids \union {Len(jobs) + 1}
         /\ jobs' \in Seq(Job) /\ polled' \in Seq({None} \union Poll) /\ Len(polled') = Len(jobs')
         /\ \A i \in Ids : jobs'[i] = jobs[i] /\ polled'[i] = polled[i]
         /\ jobs'[Len(jobs) + 1].key = k /\ jobs'[Len(jobs) + 1].queue = "default"
         /\ polled'[Len(jobs) + 1] = None
<1> DEFINE new == [key |-> k, queue |-> "default", state |-> "TaskStatePending", retried |-> 0]
<1>1. jobs \in Seq(Job) /\ polled \in Seq({None} \union Poll) /\ Len(polled) = Len(jobs)
  BY DEF TypeOK, Job, Poll
<1>2. new \in Job /\ new.key = k /\ new.queue = "default"
  BY JobQueueAssumption DEF Job, States
<1>3. jobs' = Append(jobs, new) /\ polled' = Append(polled, None)
  BY DEF Add
<1> HIDE DEF new
<1> QED BY <1>1, <1>2, <1>3 DEF Ids

\* What Add leaves alone are the jobs of other keys.
LEMMA AddJobsOf ==
  ASSUME NEW k \in Keys, TypeOK, Add(k), UNCHANGED key
  PROVE  /\ \A d \in Keys : JobsOf(d)' = IF d = k THEN JobsOf(d) \union {Len(jobs) + 1} ELSE JobsOf(d)
         /\ Len(jobs) + 1 \notin Ids
<1>1. Len(jobs) \in Nat /\ Len(jobs) + 1 \notin Ids
  BY Types DEF Ids
<1>2. \A d \in Keys : JobsOf(d)' = {i \in Ids' : jobs'[i].key = d}
  BY DEF JobsOf
<1> QED BY <1>1, <1>2, AddJob DEF JobsOf

\* A step of a job keeps its key and queue.
LEMMA WorkJob ==
  ASSUME TypeOK, NEW n \in Ids, Work(n)
  PROVE  /\ jobs' \in Seq(Job) /\ Len(jobs') = Len(jobs) /\ Ids' = Ids
         /\ \A i \in Ids : jobs'[i].key = jobs[i].key
         /\ \A i \in Ids : jobs[i].state = "deleted" => jobs'[i] = jobs[i]
<1>1. jobs \in Seq(Job) /\ jobs[n] \in Job /\ n \in 1..Len(jobs)
  BY Types DEF Ids
<1>2. \E j \in Job : j.key = jobs[n].key /\ jobs' = [jobs EXCEPT ![n] = j]
  <2>1. CASE Moved(n, "TaskStateActive")
    <3>1. [jobs[n] EXCEPT !.state = "TaskStateActive"] \in Job
      BY <1>1 DEF Job, States
    <3> QED BY <3>1, <2>1, <1>1 DEF Moved, Job
  <2>2. CASE Moved(n, "deleted")
    <3>1. [jobs[n] EXCEPT !.state = "deleted"] \in Job
      BY <1>1 DEF Job, States
    <3> QED BY <3>1, <2>2, <1>1 DEF Moved, Job
  <2>3. CASE Moved(n, "TaskStateArchived")
    <3>1. [jobs[n] EXCEPT !.state = "TaskStateArchived"] \in Job
      BY <1>1 DEF Job, States
    <3> QED BY <3>1, <2>3, <1>1 DEF Moved, Job
  <2>4. CASE jobs[n].retried < MaxRetry /\ jobs' = [jobs EXCEPT ![n].state = "TaskStateRetry", ![n].retried = @ + 1]
    <3> DEFINE j == [jobs[n] EXCEPT !.state = "TaskStateRetry", !.retried = @ + 1]
    <3>1. j \in Job /\ j.key = jobs[n].key
      <4>1. jobs[n].retried + 1 \in 0..MaxRetry /\ jobs[n].key \in Keys /\ jobs[n].queue = "default"
        BY <1>1, <2>4, JobQueueAssumption DEF Job
      <4> DEFINE s == [jobs[n] EXCEPT !.state = "TaskStateRetry"]
      <4>2. s \in Job /\ s.key = jobs[n].key /\ s.retried = jobs[n].retried
        BY <1>1 DEF Job, States
      <4>3. j = [s EXCEPT !.retried = s.retried + 1]
        BY <1>1 DEF Job
      <4> HIDE DEF s
      <4> QED BY <4>1, <4>2, <4>3 DEF Job
    <3>2. jobs' = [jobs EXCEPT ![n] = j]
      BY <2>4, <1>1
    <3> QED BY <3>1, <3>2
  <2> QED BY <2>1, <2>2, <2>3, <2>4 DEF Work
<1>3. jobs[n].state # "deleted"
  BY DEF Work
<1> QED BY <1>1, <1>2, <1>3 DEF Ids

-------------------------------------------------------------------------------
RequestStep(r) ==
  \/ Arrive(r) \/ GetHit(r) \/ GetMiss(r) \/ GetFails(r)
  \/ Enqueue(r) \/ EnqueueFails(r) \/ Set(r) \/ SetFails(r) \/ Crash(r)

\* A step of a request is about its key and about no other request.
LEMMA Frame ==
  ASSUME TypeOK, NEW r \in Requests, RequestStep(r)
  PROVE  /\ UNCHANGED <<kind, key>> /\ disturbed \subseteq disturbed'
         /\ \A q \in Requests : q # r => pc'[q] = pc[q] /\ job'[q] = job[q]
         /\ \A k \in Keys : k # key[r] =>
              stored'[k] = stored[k] /\ JobsOf(k)' = JobsOf(k) /\ Underway(k)' = Underway(k)
         /\ \A k \in Keys : JobsOf(k) \subseteq JobsOf(k)'
<1>1. UNCHANGED <<kind, key>> /\ disturbed \subseteq disturbed'
  BY DEF RequestStep, Arrive, GetHit, GetMiss, GetFails, Enqueue, EnqueueFails, Set, SetFails, Crash,
         cache, request, Goto, Disturb
<1>2. \A q \in Requests : q # r => pc'[q] = pc[q] /\ job'[q] = job[q]
  BY Types DEF RequestStep, Arrive, GetHit, GetMiss, GetFails, Enqueue, EnqueueFails, Set, SetFails, Crash, Goto
<1>3. \A k \in Keys : k # key[r] => stored'[k] = stored[k]
  BY Types DEF RequestStep, Arrive, GetHit, GetMiss, GetFails, Enqueue, EnqueueFails, Set, SetFails, Crash, cache
<1>4. UNCHANGED jobs \/ Add(key[r])
  BY DEF RequestStep, Arrive, GetHit, GetMiss, GetFails, Enqueue, EnqueueFails, Set, SetFails, Crash
<1>5. key[r] \in Keys
  BY Types
<1>6. \A k \in Keys : JobsOf(k) \subseteq JobsOf(k)' /\ (k # key[r] => JobsOf(k)' = JobsOf(k))
  <2>1. CASE UNCHANGED jobs
    BY <2>1 DEF JobsOf, Ids
  <2>2. CASE Add(key[r])
    BY <2>2, <1>1, <1>5, AddJobsOf
  <2> QED BY <1>4, <2>1, <2>2
<1>7. \A k \in Keys : k # key[r] => Underway(k)' = Underway(k)
  BY <1>1, <1>2 DEF Underway
<1> QED BY <1>1, <1>2, <1>3, <1>6, <1>7

\* The requests under way for the key of a request that took a step.
LEMMA UnderwayAfter ==
  ASSUME TypeOK, NEW r \in Requests, RequestStep(r)
  PROVE  /\ pc'[r] = "done" => Underway(key[r])' = Underway(key[r]) \ {r}
         /\ pc'[r] \in {"get", "enqueue", "set"} => Underway(key[r])' = Underway(key[r]) \union {r}
         /\ pc[r] # "new" => r \in Underway(key[r])
<1>1. pc[r] # "done"
  BY DEF RequestStep, Arrive, GetHit, GetMiss, GetFails, Enqueue, EnqueueFails, Set, SetFails, Crash
<1> QED BY <1>1, Frame DEF Underway

-------------------------------------------------------------------------------
(* JobQueue is well typed, and answers are IDs of jobs of the request's key. *)
THEOREM Typing == Spec => []TypeOK
<1>1. Init => TypeOK
  BY JobQueueAssumption DEF Init, TypeOK, Ids
<1>2. TypeOK /\ [Next]_vars => TypeOK'
  <2> SUFFICES ASSUME TypeOK, [Next]_vars PROVE TypeOK'
    OBVIOUS
  <2> USE JobQueueAssumption DEF cache, request, poll, Goto, Disturb
  <2>1. CASE UNCHANGED vars
    BY <2>1 DEF vars, TypeOK, Ids
  <2>2. ASSUME NEW r \in Requests, Arrive(r) \/ GetHit(r) \/ GetMiss(r) \/ GetFails(r) \/ Set(r) \/ SetFails(r) \/ Crash(r) PROVE TypeOK'
    <3>1. /\ UNCHANGED <<kind, jobs, key, poll>> /\ faults' \in 0..MaxFaults
          /\ disturbed' \in {disturbed, disturbed \union {key[r]}}
      <4>1. UNCHANGED <<kind, jobs, key, poll>> /\ (Fault \/ UNCHANGED faults)
        BY <2>2 DEF Arrive, GetHit, GetMiss, Set, GetFails, SetFails, Crash
      <4>2. disturbed' \in {disturbed, disturbed \union {}, disturbed \union {key[r]}}
        BY <2>2 DEF Arrive, GetHit, GetMiss, Set, GetFails, SetFails, Crash
      <4> QED BY <4>1, <4>2, Faults
    <3>2. pc' \in [Requests -> {"new", "get", "enqueue", "set", "done"}]
      BY <2>2 DEF Arrive, GetHit, GetMiss, GetFails, Set, SetFails, Crash, TypeOK
    <3>3. job' \in [Requests -> Ids \union {None}] /\ stored' \in [Keys -> Ids \union {None}]
      BY <2>2 DEF Arrive, GetHit, GetMiss, GetFails, Set, SetFails, Crash, TypeOK
    <3> QED BY <3>1, <3>2, <3>3 DEF TypeOK, Ids
  <2>3. ASSUME NEW r \in Requests, Enqueue(r) \/ EnqueueFails(r) PROVE TypeOK'
    <3>1. CASE UNCHANGED <<jobs, poll>>
      <4>1. EnqueueFails(r)
        <5>1. Add(key[r]) => jobs' # jobs
          BY AddJob, Types
        <5> QED BY <2>3, <3>1, <5>1 DEF Enqueue
      <4>2. /\ pc' \in [Requests -> {"new", "get", "enqueue", "set", "done"}]
            /\ disturbed' \in {disturbed, disturbed \union {key[r]}} /\ UNCHANGED <<cache, key, job>>
        BY <4>1, Types DEF EnqueueFails
      <4>3. faults' \in 0..MaxFaults
        BY <4>1, Faults DEF EnqueueFails
      <4> QED BY <3>1, <4>2, <4>3 DEF TypeOK, Ids
    <3>2. CASE Add(key[r])
      <4>1. /\ Len(jobs') = Len(jobs) + 1 /\ Ids' = Ids \union {Len(jobs) + 1}
            /\ jobs' \in Seq(Job) /\ polled' \in Seq({None} \union Poll) /\ Len(polled') = Len(jobs')
        BY <3>2, AddJob DEF TypeOK
      <4>2. /\ pc' \in [Requests -> {"new", "get", "enqueue", "set", "done"}] /\ faults' \in 0..MaxFaults
            /\ disturbed' \in {disturbed, disturbed \union {key[r]}}
        <5>1. Fault \/ UNCHANGED faults
          BY <2>3 DEF Enqueue, EnqueueFails
        <5> QED BY <2>3, <5>1, Types, Faults DEF Enqueue, EnqueueFails
      <4>3. job' \in [Requests -> Ids' \union {None}] /\ stored' \in [Keys -> Ids' \union {None}]
        BY <2>3, <4>1, Types DEF Enqueue, EnqueueFails
      <4>4. UNCHANGED <<kind, key, blind>>
        BY <2>3, <3>2 DEF Enqueue, EnqueueFails, Add
      <4> QED BY <4>1, <4>2, <4>3, <4>4 DEF TypeOK, Job, Poll
    <3> QED BY <2>3, <3>1, <3>2 DEF Enqueue, EnqueueFails
  <2>4. ASSUME NEW k \in Keys, Expire(k) PROVE TypeOK'
    <3>1. /\ UNCHANGED <<kind, jobs, request, poll>> /\ disturbed' = disturbed \union {k}
          /\ stored' = [stored EXCEPT ![k] = None] /\ faults' \in 0..MaxFaults
      BY <2>4, Faults DEF Expire
    <3> QED BY <3>1 DEF TypeOK, Ids
  <2>5. ASSUME NEW i \in Ids, Work(i) PROVE TypeOK'
    <3>1. jobs' \in Seq(Job) /\ Len(jobs') = Len(jobs) /\ Ids' = Ids
      BY <2>5, WorkJob
    <3>2. UNCHANGED <<cache, faults, request, disturbed, poll>>
      BY <2>5 DEF Work
    <3> QED BY <3>1, <3>2 DEF TypeOK, Job
  <2>6. ASSUME NEW i \in Ids, GetJobStatus(i) PROVE TypeOK'
    <3>1. /\ UNCHANGED <<cache, jobs, request, disturbed>>
          /\ faults' \in 0..MaxFaults /\ blind' \in {blind \ {i}, blind \union {i}}
      BY <2>6, Faults DEF GetJobStatus
    <3>2. PICK p : polled' = [polled EXCEPT ![i] = p] /\ p \in Poll
      <4>1. [status |-> "not found", retried |-> 0] \in Poll
        BY DEF Poll
      <4>2. [status |-> mapTaskState(jobs[i].state), retried |-> jobs[i].retried] \in Poll
        <5>1. jobs[i] \in Job
          BY Types
        <5>2. jobs[i].state \in States /\ jobs[i].retried \in 0..MaxRetry
          BY <5>1 DEF Job
        <5> QED BY <5>2 DEF Poll
      <4> QED BY <2>6, <4>1, <4>2 DEF GetJobStatus
    <3>3. polled \in Seq({None} \union Poll) /\ Len(polled) = Len(jobs)
      BY DEF TypeOK, Poll
    <3>4. polled' \in Seq({None} \union Poll) /\ Len(polled') = Len(polled)
      BY <3>2, <3>3 DEF Ids
    <3> QED BY <3>1, <3>3, <3>4 DEF TypeOK, Ids, Poll
  <2> QED BY <2>1, <2>2, <2>3, <2>4, <2>5, <2>6 DEF Next
<1> QED BY <1>1, <1>2, PTL DEF Spec

(* Every ID that is stored or was answered is of a job of the key. *)
THEOREM Answers == Spec => []AnswerInv
<1>1. Init => AnswerInv
  BY DEF Init, AnswerInv
<1>2. TypeOK /\ AnswerInv /\ [Next]_vars => AnswerInv'
  <2> SUFFICES ASSUME TypeOK, AnswerInv, [Next]_vars PROVE AnswerInv'
    OBVIOUS
  <2>1. CASE UNCHANGED vars
    BY <2>1 DEF vars, cache, request, AnswerInv, JobsOf, Ids
  <2>2. ASSUME NEW r \in Requests, RequestStep(r) PROVE AnswerInv'
    <3> SUFFICES ASSUME NEW k \in Keys
                 PROVE  /\ stored'[k] # None => stored'[k] \in JobsOf(k)'
                        /\ \A q \in Requests : key'[q] = k /\ (job'[q] # None \/ pc'[q] = "set")
                                              => job'[q] \in JobsOf(k)'
      BY DEF AnswerInv
    <3>1. /\ stored[k] # None => stored[k] \in JobsOf(k)
          /\ \A q \in Requests : key[q] = k /\ (job[q] # None \/ pc[q] = "set") => job[q] \in JobsOf(k)
          /\ JobsOf(k) \subseteq JobsOf(k)' /\ key' = key
      BY <2>2, Frame DEF AnswerInv
    <3>2. \A q \in Requests : q # r => pc'[q] = pc[q] /\ job'[q] = job[q]
      BY <2>2, Frame
    <3>3. stored'[k] = stored[k] \/ (pc[r] = "set" /\ key[r] = k /\ stored'[k] = job[r])
      BY <2>2, Types DEF RequestStep, Arrive, GetHit, GetMiss, GetFails, Enqueue, EnqueueFails, Set,
         SetFails, Crash, cache
    <3>4. key[r] = k /\ (job'[r] # None \/ pc'[r] = "set") => job'[r] \in JobsOf(k)'
      <4>1. CASE Enqueue(r)
        <5>1. job'[r] = Len(jobs) + 1 /\ Add(key[r])
          BY <4>1, Types DEF Enqueue
        <5> QED BY <5>1, <3>1, AddJobsOf
      <4>2. CASE ~Enqueue(r)
        <5>1. pc'[r] # "set" /\ job'[r] \in {job[r], stored[key[r]], None}
          BY <4>2, <2>2, Types DEF RequestStep, Arrive, GetHit, GetMiss, GetFails, EnqueueFails, Set, SetFails,
             Crash, Goto, request
        <5> QED BY <5>1, <3>1
      <4> QED BY <4>1, <4>2
    <3> QED BY <3>1, <3>2, <3>3, <3>4
  <2>3. ASSUME NEW k \in Keys, Expire(k) PROVE AnswerInv'
    BY <2>3, Types DEF Expire, request, AnswerInv, JobsOf, Ids
  <2>4. ASSUME NEW i \in Ids, Work(i) PROVE AnswerInv'
    <3>1. \A k \in Keys : JobsOf(k)' = JobsOf(k)
      BY <2>4, WorkJob DEF JobsOf
    <3>2. UNCHANGED <<cache, request>>
      BY <2>4 DEF Work
    <3> QED BY <3>1, <3>2, Types DEF cache, request, AnswerInv
  <2>5. ASSUME NEW i \in Ids, GetJobStatus(i) PROVE AnswerInv'
    BY <2>5 DEF GetJobStatus, cache, request, AnswerInv, JobsOf, Ids
  <2> QED BY <2>1, <2>2, <2>3, <2>4, <2>5 DEF Next, RequestStep
<1> QED BY <1>1, <1>2, Typing, PTL DEF Spec

(* Of a key that nothing disturbed there is one job. *)
THEOREM Keyed == Spec => []KeyInv
<1>1. Init => KeyInv
  BY DEF Init, KeyInv, Orderly, JobsOf, Underway, Ids
<1>2. TypeOK /\ AnswerInv /\ KeyInv /\ [Next]_vars => KeyInv'
  <2> SUFFICES ASSUME TypeOK, AnswerInv, KeyInv, [Next]_vars, NEW k \in Keys, k \notin disturbed'
               PROVE  Orderly(k)'
    BY DEF KeyInv
  <2>1. CASE UNCHANGED vars
    BY <2>1 DEF vars, cache, request, KeyInv, Orderly, JobsOf, Underway, Ids
  <2>2. ASSUME NEW r \in Requests, RequestStep(r) PROVE Orderly(k)'
    <3>1. Orderly(k) /\ \A i \in JobsOf(k) : i # None
      <4>1. None \notin JobsOf(k)
        BY Types, JobQueueAssumption DEF JobsOf, Ids
      <4> QED BY <4>1, <2>2, Frame DEF KeyInv
    <3>2. CASE k # key[r]
      <4>1. \A q \in Underway(k) : pc'[q] = pc[q]
        BY <3>2, <2>2, Frame DEF Underway
      <4> QED BY <3>1, <3>2, <4>1, <2>2, Frame DEF Orderly
    <3>3. CASE k = key[r]
      <4> USE DEF Goto, Disturb
      <4>1. \A q \in Underway(k) : q # r => pc'[q] = pc[q]
        BY <2>2, Frame DEF Underway
      <4>0. /\ pc'[r] = "done" => Underway(k)' = Underway(k) \ {r}
            /\ pc'[r] \in {"get", "enqueue", "set"} => Underway(k)' = Underway(k) \union {r}
            /\ pc[r] # "new" => r \in Underway(k)
        BY <3>3, <2>2, UnderwayAfter, Frame DEF Underway
      <4>2. CASE Arrive(r)
        <5>1. Underway(k) = {} /\ pc'[r] = "get"
          BY <4>2, <3>3, Types DEF Arrive
        <5>2. Underway(k)' = {r} /\ JobsOf(k)' = JobsOf(k) /\ stored'[k] = stored[k]
          BY <4>2, <5>1, <3>3, <2>2, UnderwayAfter DEF Arrive, cache, JobsOf, Ids
        <5> QED BY <5>1, <5>2, <3>1 DEF Orderly
      <4>3. CASE /\ pc[r] \in {"get", "enqueue"} /\ pc'[r] = "done"
                 /\ JobsOf(k)' = JobsOf(k) /\ stored'[k] = stored[k]
        <5>1. r \in Underway(k) /\ pc[r] # "set"
          BY <4>3, <3>3, <2>2, UnderwayAfter
        <5>2. Underway(k) = {r}
          BY <5>1, <3>1 DEF Orderly
        <5>3. Underway(k)' = {}
          BY <5>2, <4>3, <3>3, <4>0
        <5> QED BY <5>1, <5>2, <5>3, <4>3, <3>1 DEF Orderly
      <4>4. CASE GetMiss(r) \/ GetFails(r)
        <5>1. UNCHANGED <<cache, jobs>> /\ pc[r] = "get" /\ pc'[r] \in {"enqueue", "done"}
          BY <4>4, Types DEF GetMiss, GetFails
        <5>2. JobsOf(k)' = JobsOf(k) /\ stored'[k] = stored[k]
          BY <5>1 DEF cache, JobsOf, Ids
        <5>3. CASE pc'[r] = "enqueue"
          <6>0. Underway(k) = {r}
            BY <5>1, <4>0, <3>1 DEF Orderly
          <6>1. Underway(k) = {r} /\ Underway(k)' = {r}
            BY <5>3, <4>0, <6>0
          <6>2. JobsOf(k) = {}
            BY <4>4, <5>1, <6>1, <3>1, <3>3 DEF GetMiss, GetFails, Orderly
          <6> QED BY <5>2, <5>3, <6>1, <6>2 DEF Orderly
        <5> QED BY <4>3, <5>1, <5>2, <5>3
      <4>5. CASE GetHit(r) \/ Crash(r)
        BY <4>5, <4>3, Types DEF GetHit, Crash, cache, JobsOf, Ids
      <4>6. CASE Enqueue(r)
        <5>1. r \in Underway(k) /\ Underway(k) = {r} /\ JobsOf(k) = {} /\ Underway(k)' = {r}
          <6>1. pc[r] = "enqueue" /\ pc'[r] = "set"
            BY <4>6, Types DEF Enqueue
          <6>2. Underway(k) = {r}
            BY <6>1, <4>0, <3>1 DEF Orderly
          <6> QED BY <6>1, <6>2, <4>0, <3>1 DEF Orderly
        <5>2. JobsOf(k)' = {Len(jobs) + 1} /\ pc'[r] = "set"
          BY <4>6, <5>1, <3>3, <2>2, Frame, AddJobsOf, Types DEF Enqueue
        <5> QED BY <5>1, <5>2 DEF Orderly
      <4>7. CASE EnqueueFails(r)
        <5>1. UNCHANGED <<cache, jobs>> /\ pc[r] = "enqueue" /\ pc'[r] = "done"
          BY <4>7, <3>3, Types DEF EnqueueFails
        <5> QED BY <5>1, <4>3 DEF cache, JobsOf, Ids
      <4>8. CASE Set(r)
        <5>1. pc[r] = "set" /\ pc'[r] = "done" /\ stored'[k] = job[r] /\ UNCHANGED jobs
          BY <4>8, <3>3, Types DEF Set
        <5>2. JobsOf(k)' = JobsOf(k) /\ job[r] \in JobsOf(k)
          BY <5>1, <3>3, Types DEF AnswerInv, JobsOf, Ids
        <5>3. Underway(k) = {r} /\ Underway(k)' = {}
          <6>1. Underway(k) = {r}
            BY <5>1, <4>0, <3>1 DEF Orderly
          <6> QED BY <6>1, <5>1, <4>0
        <5> QED BY <5>1, <5>2, <5>3, <3>1 DEF Orderly
      <4>9. ~SetFails(r)
        BY <3>3 DEF SetFails
      <4> QED BY <2>2, <4>2, <4>4, <4>5, <4>6, <4>7, <4>8, <4>9 DEF RequestStep
    <3> QED BY <3>2, <3>3
  <2>3. ASSUME NEW d \in Keys, Expire(d) PROVE Orderly(k)'
    <3>1. k # d /\ k \notin disturbed /\ stored'[k] = stored[k] /\ UNCHANGED <<jobs, pc, key>>
      BY <2>3, Types DEF Expire, Disturb, request
    <3> QED BY <3>1 DEF KeyInv, Orderly, JobsOf, Underway, Ids
  <2>4. ASSUME NEW i \in Ids, Work(i) PROVE Orderly(k)'
    <3>1. JobsOf(k)' = JobsOf(k)
      BY <2>4, WorkJob DEF JobsOf
    <3>2. UNCHANGED <<cache, request, disturbed>>
      BY <2>4 DEF Work
    <3> QED BY <3>1, <3>2 DEF cache, request, KeyInv, Orderly, Underway
  <2>5. ASSUME NEW i \in Ids, GetJobStatus(i) PROVE Orderly(k)'
    <3>1. UNCHANGED <<stored, jobs, pc, key, disturbed>>
      BY <2>5 DEF GetJobStatus, cache, request
    <3> QED BY <3>1 DEF KeyInv, Orderly, JobsOf, Underway, Ids
  <2> QED BY <2>1, <2>2, <2>3, <2>4, <2>5 DEF Next, RequestStep
<1> QED BY <1>1, <1>2, Typing, Answers, PTL DEF Spec

(* One job per key, and its ID for all who ask with the key. *)
THEOREM OneJob == Spec => []OneJobPerKey
<1>1. TypeOK /\ AnswerInv /\ KeyInv => OneJobPerKey
  <2> SUFFICES ASSUME TypeOK, AnswerInv, KeyInv, NEW k \in Keys \ disturbed
               PROVE  /\ Cardinality(JobsOf(k)) <= 1
                      /\ \A r \in Requests : key[r] = k /\ job[r] # None => job[r] \in JobsOf(k)
    BY DEF OneJobPerKey
  <2>4. \A r \in Requests : key[r] = k /\ job[r] # None => job[r] \in JobsOf(k)
    BY DEF AnswerInv
  <2>1. CASE JobsOf(k) = {}
    <3>1. Cardinality(JobsOf(k)) = 0
      BY <2>1, FS_EmptySet
    <3> QED BY <3>1, <2>4
  <2>2. CASE JobsOf(k) # {}
    <3>1. \A i, j \in JobsOf(k) : i = j
      BY DEF KeyInv, Orderly
    <3>2. PICK i : JobsOf(k) = {i}
      BY <2>2, <3>1
    <3>3. Cardinality(JobsOf(k)) = 1
      BY <3>2, FS_Singleton
    <3> QED BY <3>3, <2>4
  <2> QED BY <2>1, <2>2
<1> QED BY <1>1, Typing, Answers, Keyed, PTL

(* A job that GetJobStatus does not find, the inspector having answered, was deleted. *)
THEOREM NotFound == Spec => []NotFoundMeansDone
<1>1. Init => NotFoundMeansDone
  <2> SUFFICES ASSUME jobs = <<>> PROVE Ids = {}
    BY DEF Init, NotFoundMeansDone
  <2> QED BY DEF Ids
<1>2. TypeOK /\ NotFoundMeansDone /\ [Next]_vars => NotFoundMeansDone'
  <2> SUFFICES ASSUME TypeOK, NotFoundMeansDone, [Next]_vars,
                      NEW i \in Ids', i \notin blind', polled'[i] # None, polled'[i].status = "not found"
               PROVE  jobs'[i].state = "deleted"
    BY DEF NotFoundMeansDone
  <2>1. CASE UNCHANGED <<jobs, poll>>
    BY <2>1 DEF poll, NotFoundMeansDone, Ids
  <2>2. ASSUME NEW k \in Keys, Add(k) PROVE jobs'[i].state = "deleted"
    <3>1. i \in Ids /\ UNCHANGED blind /\ jobs'[i] = jobs[i] /\ polled'[i] = polled[i]
      BY <2>2, AddJob DEF Add
    <3> QED BY <3>1 DEF NotFoundMeansDone
  <2>3. ASSUME NEW n \in Ids, Work(n) PROVE jobs'[i].state = "deleted"
    <3>1. i \in Ids /\ UNCHANGED poll
      BY <2>3, WorkJob DEF Work
    <3>2. jobs[i].state = "deleted"
      BY <3>1 DEF poll, NotFoundMeansDone
    <3>3. jobs'[i] = jobs[i]
      BY <2>3, <3>1, <3>2, WorkJob
    <3> QED BY <3>2, <3>3
  <2>4. ASSUME NEW n \in Ids, GetJobStatus(n) PROVE jobs'[i].state = "deleted"
    <3>1. UNCHANGED jobs /\ i \in Ids /\ n \in 1..Len(polled) /\ polled \in Seq({None} \union Poll)
      BY <2>4, Types DEF GetJobStatus, Ids
    <3>2. jobs[n].queue = "default" /\ jobs[n].state \in States /\ i \in 1..Len(polled)
      BY <3>1, Types DEF Job, Ids
    <3>0. n \in DOMAIN polled /\ i \in DOMAIN polled
      BY <3>1, <3>2, LenProperties
    <3>3. PICK p : /\ polled' = [polled EXCEPT ![n] = p] /\ blind' \in {blind \ {n}, blind \union {n}}
                   /\ p.status = "not found" => n \in blind' \/ jobs[n].state = "deleted"
      <4> DEFINE found == [status |-> mapTaskState(jobs[n].state), retried |-> jobs[n].retried]
                 missing == [status |-> "not found", retried |-> 0]
      <4>1. mapTaskState(jobs[n].state) # "not found"
        BY <3>2 DEF mapTaskState, States
      <4>2. found.status # "not found"
        BY <4>1
      <4>3. \/ polled' = [polled EXCEPT ![n] = found] /\ blind' = blind \ {n}
            \/ /\ polled' = [polled EXCEPT ![n] = missing] /\ blind' = blind \ {n}
               /\ jobs[n].queue # "default" \/ jobs[n].state = "deleted"
            \/ polled' = [polled EXCEPT ![n] = missing] /\ blind' = blind \union {n}
        BY <2>4, Zenon DEF GetJobStatus
      <4> HIDE DEF found, missing
      <4> QED BY <3>2, <4>2, <4>3
    <3>4. CASE i # n
      <4>1. i \notin blind /\ polled'[i] = polled[i]
        BY <3>0, <3>3, <3>4, Zenon
      <4> QED BY <3>1, <4>1 DEF NotFoundMeansDone
    <3>5. CASE i = n
      <4>1. polled'[n] = p
        BY <3>0, <3>3, Zenon
      <4> QED BY <3>1, <3>3, <3>5, <4>1
    <3> QED BY <3>4, <3>5
  <2>5. UNCHANGED <<jobs, poll>> \/ (\E k \in Keys : Add(k)) \/ (\E n \in Ids : Work(n) \/ GetJobStatus(n))
    <3>1. \A r \in Requests : key[r] \in Keys
      BY Types
    <3> QED BY <3>1 DEF Next, vars, Arrive, GetHit, GetMiss, GetFails, Enqueue, EnqueueFails, Set, SetFails,
               Crash, Expire
  <2> QED BY <2>1, <2>2, <2>3, <2>4, <2>5
<1> QED BY <1>1, <1>2, Typing, PTL DEF Spec
===============================================================================
