------------------------------- MODULE JobQueue -------------------------------
(* Requests that may be repeated: each looks its idempotency key up in the  *)
(* IdempotencyStore, enqueues a job when it misses, and stores the job's ID *)
(* under the key (adapters/idempotency_store.go over a cache provider of    *)
(* adapters/cache_impl.go; adapters/asynq_queue.go).  Any of the calls can   *)
(* fail after it has taken effect, and the process can stop between two.    *)
(* The order of the calls is the application's; it takes an error of Get    *)
(* for a miss, which with Redis it must.                                    *)
EXTENDS Integers, Sequences, FiniteSets

CONSTANTS Requests,  \* requests; a client that repeats one sends another
          Keys,      \* idempotency keys
          MaxRetry,  \* how often a failed job is tried again: 3
          MaxFaults, \* bound of the exploration: failures of calls, crashes, expired entries
          None       \* no entry, no job, no answer

ASSUME JobQueueAssumption == MaxRetry \in Nat /\ MaxFaults \in Nat /\ None \notin Nat

VARIABLES kind,      \* the cache provider: "redis" or "memory"
          stored,    \* per key: the ID in the cache, or None
          jobs,      \* every job ever enqueued, by ID: its key, queue, state and retries
          faults,    \* what has gone wrong so far
          pc, key, job, \* per request: its place, its key, the ID it has got, or None
          disturbed, \* history: keys of which a second job may come
          polled,    \* per job: the last answer of GetJobStatus, or None
          blind      \* history: jobs the inspector could not be asked about at the last poll

cache == <<kind, stored>>
request == <<pc, key, job>>
poll == <<polled, blind>>
vars == <<cache, jobs, faults, request, disturbed, poll>>

Ids == 1..Len(jobs)
JobsOf(k) == {i \in Ids : jobs[i].key = k}
Underway(k) == {r \in Requests : pc[r] \notin {"new", "done"} /\ key[r] = k}

Init ==
  /\ kind \in {"redis", "memory"} /\ stored = [k \in Keys |-> None]
  /\ jobs = <<>> /\ faults = 0
  /\ pc = [r \in Requests |-> "new"] /\ key \in [Requests -> Keys]
  /\ job = [r \in Requests |-> None]
  /\ disturbed = {} /\ polled = <<>> /\ blind = {}

Goto(r, where) == pc' = [pc EXCEPT ![r] = where]
Fault == faults < MaxFaults /\ faults' = faults + 1
Disturb(K) == disturbed' = disturbed \union K

-------------------------------------------------------------------------------
(* A request *)

Arrive(r) ==
  /\ pc[r] = "new" /\ Goto(r, "get")
  /\ Disturb(IF Underway(key[r]) = {} THEN {} ELSE {key[r]})
  /\ UNCHANGED <<cache, jobs, faults, key, job, poll>>

\* IdempotencyStore.Get finds the ID: the request is answered with it.
GetHit(r) ==
  /\ pc[r] = "get" /\ stored[key[r]] # None /\ Goto(r, "done")
  /\ job' = [job EXCEPT ![r] = stored[key[r]]]
  /\ UNCHANGED <<cache, jobs, faults, key, disturbed, poll>>

\* A key that is missing is an error of Redis; from the map comes nil, whose conversion to a
\* string panics.
GetMiss(r) ==
  /\ pc[r] = "get" /\ stored[key[r]] = None
  /\ Goto(r, IF kind = "redis" THEN "enqueue" ELSE "done")
  /\ UNCHANGED <<cache, jobs, faults, key, job, disturbed, poll>>

\* Redis cannot be asked: an error too.
GetFails(r) ==
  /\ pc[r] = "get" /\ kind = "redis" /\ Fault /\ Goto(r, "enqueue")
  /\ Disturb(IF JobsOf(key[r]) = {} THEN {} ELSE {key[r]})
  /\ UNCHANGED <<cache, jobs, key, job, poll>>

\* Mutant: the job goes to a queue the inspector is not asked about.
AddToQueueOfType(k) ==
  /\ jobs' = Append(jobs, [key |-> k, queue |-> "type", state |-> "TaskStatePending", retried |-> 0])
  /\ polled' = Append(polled, None) /\ UNCHANGED blind

\* Enqueue puts the task into the queue "default".
Add(k) ==
  /\ jobs' = Append(jobs, [key |-> k, queue |-> "default", state |-> "TaskStatePending", retried |-> 0])
  /\ polled' = Append(polled, None) /\ UNCHANGED blind

Enqueue(r) ==
  /\ pc[r] = "enqueue" /\ Goto(r, "set") /\ Add(key[r])
  /\ job' = [job EXCEPT ![r] = Len(jobs) + 1]
  /\ UNCHANGED <<cache, faults, key, disturbed>>

\* Enqueue fails: before the task was written or, the answer being lost, after.
EnqueueFails(r) ==
  /\ pc[r] = "enqueue" /\ Fault /\ Goto(r, "done")
  /\ \/ UNCHANGED <<jobs, poll, disturbed>>
     \/ Add(key[r]) /\ Disturb({key[r]})
  /\ UNCHANGED <<cache, key, job>>

\* Mutant: the ID is stored under the key as the client wrote it, and Get asks for another.
SetUnprefixed(r) ==
  /\ pc[r] = "set" /\ Goto(r, "done")
  /\ UNCHANGED <<cache, jobs, faults, key, job, disturbed, poll>>

\* IdempotencyStore.Set.
Set(r) ==
  /\ pc[r] = "set" /\ Goto(r, "done")
  /\ stored' = [stored EXCEPT ![key[r]] = job[r]]
  /\ UNCHANGED <<kind, jobs, faults, key, job, disturbed, poll>>

\* Set fails, or the process stops before it: the job is there and the key is not.
SetFails(r) ==
  /\ pc[r] = "set" /\ Fault /\ Goto(r, "done") /\ Disturb({key[r]})
  /\ \/ UNCHANGED job \/ job' = [job EXCEPT ![r] = None]
  /\ UNCHANGED <<cache, jobs, key, poll>>

\* The process stops before Enqueue: nothing has happened.
Crash(r) ==
  /\ pc[r] \in {"get", "enqueue"} /\ Fault /\ Goto(r, "done")
  /\ UNCHANGED <<cache, jobs, key, job, disturbed, poll>>

\* The hour of the store is over (Redis; the map keeps its keys).
Expire(k) ==
  /\ kind = "redis" /\ stored[k] # None /\ Fault /\ stored' = [stored EXCEPT ![k] = None]
  /\ Disturb({k}) /\ UNCHANGED <<kind, jobs, request, poll>>

-------------------------------------------------------------------------------
(* The life of a job, in asynq: what GetJobStatus reads *)

Moved(i, state) == jobs' = [jobs EXCEPT ![i].state = state]

\* A worker takes the task.  A task that succeeds is deleted, as Enqueue asks for no
\* retention; one that fails waits for the next try or, after MaxRetry, is archived.
Work(i) ==
  /\ \/ jobs[i].state \in {"TaskStatePending", "TaskStateRetry"} /\ Moved(i, "TaskStateActive")
     \/ jobs[i].state = "TaskStateActive" /\ Moved(i, "deleted")
     \/ /\ jobs[i].state = "TaskStateActive" /\ jobs[i].retried < MaxRetry
        /\ jobs' = [jobs EXCEPT ![i].state = "TaskStateRetry", ![i].retried = @ + 1]
     \/ jobs[i].state = "TaskStateActive" /\ jobs[i].retried = MaxRetry /\ Moved(i, "TaskStateArchived")
  /\ UNCHANGED <<cache, faults, request, disturbed, poll>>

\* asynq's states as the application sees them; asynq has others (groups), and no task of
\* this queue is scheduled or, having been deleted, completed.
mapTaskState(state) ==
  CASE state = "TaskStatePending" -> "pending"   [] state = "TaskStateActive" -> "active"
    [] state = "TaskStateRetry" -> "retry"       [] state = "TaskStateScheduled" -> "scheduled"
    [] state = "TaskStateArchived" -> "archived" [] state = "TaskStateCompleted" -> "completed"
    [] OTHER -> "unknown"

\* GetJobStatus asks the queue "default" and takes every error for a task that is not there.
GetJobStatus(i) ==
  /\ \/ /\ jobs[i].queue = "default" /\ jobs[i].state # "deleted"
        /\ polled' = [polled EXCEPT ![i] =
                        [status |-> mapTaskState(jobs[i].state), retried |-> jobs[i].retried]]
        /\ blind' = blind \ {i} /\ UNCHANGED faults
     \/ /\ jobs[i].queue # "default" \/ jobs[i].state = "deleted"
        /\ polled' = [polled EXCEPT ![i] = [status |-> "not found", retried |-> 0]]
        /\ blind' = blind \ {i} /\ UNCHANGED faults
     \/ /\ Fault /\ blind' = blind \union {i}
        /\ polled' = [polled EXCEPT ![i] = [status |-> "not found", retried |-> 0]]
  /\ UNCHANGED <<cache, jobs, request, disturbed>>

-------------------------------------------------------------------------------
Next ==
  \/ \E r \in Requests :
       \/ Arrive(r) \/ GetHit(r) \/ GetMiss(r) \/ GetFails(r)
       \/ Enqueue(r) \/ EnqueueFails(r) \/ Set(r) \/ SetFails(r) \/ Crash(r)
  \/ \E k \in Keys : Expire(k)
  \/ \E i \in Ids : Work(i) \/ GetJobStatus(i)

Spec == Init /\ [][Next]_vars

-------------------------------------------------------------------------------
(* Properties *)

States == {"TaskStatePending", "TaskStateActive", "TaskStateRetry", "TaskStateArchived", "deleted"}

\* The types of the variables; IDs in the cache and in answers are of jobs that exist.
TypeOK ==
  /\ kind \in {"redis", "memory"} /\ stored \in [Keys -> Ids \union {None}]
  /\ jobs \in Seq([key : Keys, queue : {"default"}, state : States, retried : 0..MaxRetry])
  /\ faults \in 0..MaxFaults /\ pc \in [Requests -> {"new", "get", "enqueue", "set", "done"}]
  /\ key \in [Requests -> Keys] /\ job \in [Requests -> Ids \union {None}]
  /\ disturbed \in SUBSET Keys /\ blind \in SUBSET Ids
  /\ Len(polled) = Len(jobs)
  /\ polled \in Seq({None} \union [status : {mapTaskState(s) : s \in States} \union {"not found"},
                             retried : 0..MaxRetry])

\* Requests with one key make one job, and all that get an answer get its ID, unless two of
\* them overlapped, a call failed after a job was there, the process stopped before the ID
\* was stored, or the hour of the store was over.
OneJobPerKey ==
  \A k \in Keys \ disturbed :
    /\ Cardinality(JobsOf(k)) <= 1
    /\ \A r \in Requests : key[r] = k /\ job[r] # None => job[r] \in JobsOf(k)

\* A job of which GetJobStatus says "job not found", without the inspector having failed, has
\* been carried out and deleted; one that failed for good is found.
NotFoundMeansDone ==
  \A i \in Ids \ blind :
    polled[i] # None /\ polled[i].status = "not found" => jobs[i].state = "deleted"
================================================================================
