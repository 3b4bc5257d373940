---------------------------- MODULE ThreadWorker ----------------------------
(***************************************************************************)
(* The pools of worker threads (thread_worker.h) that build pipelines and  *)
(* shaders, load textures and serve the file system: a queue of requests,  *)
(* workers that take them from its front or its back, clients that queue   *)
(* work or wait until all work is done, and an owner that stops the pool   *)
(* when no client is in a call.  queue_mutex is held by one thread; a      *)
(* worker gives it back in the step in which it takes it, a client that    *)
(* waits keeps it from its look at the counters until it sleeps.           *)
(***************************************************************************)
EXTENDS Integers, SequencesExt

CONSTANTS
  NumWorkers,
  Clients,
  RecentFirst,       \* the order RecentFirstWithFifoFairness, else Fifo
  RecentFirstBurst,  \* 8
  Works,             \* bound: requests in all
  Stops,             \* bound: whether the owner stops the pool, and how
  Nobody

ThreadWorkerAssumption ==
  /\ NumWorkers \in Nat \ {0} /\ RecentFirst \in BOOLEAN /\ RecentFirstBurst \in Nat
  /\ Works \in Nat /\ Stops \subseteq {"discard", "destroy"}

Workers == 1 .. NumWorkers
Requests == 1 .. Works

VARIABLES
  requests, queue_mutex,
  work_scheduled, work_done, workers_stopped,
  worker,            \* of each worker: "look", "asleep", "woken", "run", "count", "stopping", "stopped"
  task,              \* of each worker: the request it took last, or 0
  recent_first_count,
  stop_requested,    \* of each worker
  client,            \* of each client: "idle", "notify", "lock", "locked", "sleepy", "asleep"
  owner,             \* "using", or how it stops the pool, or "stopped"
  done, discarded,   \* history: requests that were run, and that were dropped
  bypassed, older    \* history: of each request, younger ones taken first, older ones queued

queue == <<requests, work_scheduled>>
counters == <<work_done, workers_stopped>>
workers == <<worker, task, recent_first_count>>
history == <<done, discarded, bypassed, older>>
vars == <<queue, queue_mutex, counters, workers, stop_requested, client, owner, history>>

Init ==
  /\ requests = <<>> /\ queue_mutex = Nobody
  /\ work_scheduled = 0 /\ work_done = 0 /\ workers_stopped = 0
  /\ worker = [w \in Workers |-> "look"]
  /\ task = [w \in Workers |-> 0]
  /\ recent_first_count = [w \in Workers |-> 0]
  /\ stop_requested = [w \in Workers |-> FALSE]
  /\ client = [c \in Clients |-> "idle"]
  /\ owner = "using"
  /\ done = {} /\ discarded = {}
  /\ bypassed = [r \in Requests |-> 0] /\ older = [r \in Requests |-> 0]

-----------------------------------------------------------------------------
(* A worker *)

WorkerGoto(w, from, to) == worker[w] \in from /\ worker' = [worker EXCEPT ![w] = to]

\* Faulty: nobody is told that the queue is empty
SleepSilently(w) ==
  /\ queue_mutex = Nobody
  /\ requests = <<>> /\ ~stop_requested[w]
  /\ WorkerGoto(w, {"look", "woken"}, "asleep")
  /\ UNCHANGED <<queue, queue_mutex, counters, task, recent_first_count, stop_requested, client, owner, history>>

\* The queue is empty: those who wait for that are told, once per turn of the loop
Sleep(w) ==
  /\ queue_mutex = Nobody
  /\ requests = <<>> /\ ~stop_requested[w]
  /\ WorkerGoto(w, {"look", "woken"}, "asleep")
  /\ client' = [c \in Clients |-> IF worker[w] = "look" /\ client[c] = "asleep" THEN "lock" ELSE client[c]]
  /\ UNCHANGED <<queue, queue_mutex, counters, task, recent_first_count, stop_requested, owner, history>>

TakesOldest(w) == ~RecentFirst \/ recent_first_count[w] >= RecentFirstBurst

TakeNewest(w) ==
  /\ queue_mutex = Nobody
  /\ requests # <<>> /\ ~stop_requested[w] /\ ~TakesOldest(w)
  /\ WorkerGoto(w, {"look", "woken"}, "run")
  /\ task' = [task EXCEPT ![w] = Last(requests)]
  /\ requests' = Front(requests)
  /\ recent_first_count' = [recent_first_count EXCEPT ![w] = @ + 1]
  /\ bypassed' = [r \in Requests |-> IF r \in ToSet(Front(requests)) THEN bypassed[r] + 1 ELSE bypassed[r]]
  /\ UNCHANGED <<queue_mutex, work_scheduled, counters, stop_requested, client, owner, done, discarded, older>>

TakeOldest(w) ==
  /\ queue_mutex = Nobody
  /\ requests # <<>> /\ ~stop_requested[w] /\ TakesOldest(w)
  /\ WorkerGoto(w, {"look", "woken"}, "run")
  /\ task' = [task EXCEPT ![w] = Head(requests)]
  /\ requests' = Tail(requests)
  /\ recent_first_count' = [recent_first_count EXCEPT ![w] = 0]
  /\ UNCHANGED <<queue_mutex, work_scheduled, counters, stop_requested, client, owner, history>>

Run(w) ==
  /\ WorkerGoto(w, {"run"}, "count")
  /\ done' = done \cup {task[w]}
  /\ UNCHANGED <<queue, queue_mutex, counters, task, recent_first_count, stop_requested, client, owner, discarded, bypassed, older>>

Count(w) ==
  /\ WorkerGoto(w, {"count"}, "look")
  /\ work_done' = work_done + 1
  /\ UNCHANGED <<queue, queue_mutex, workers_stopped, task, recent_first_count, stop_requested, client, owner, history>>

\* The loop ends, at its head or under the mutex, at the end of a wait
LeaveLoop(w) ==
  /\ stop_requested[w]
  /\ worker[w] = "woken" => queue_mutex = Nobody
  /\ WorkerGoto(w, {"look", "woken"}, "stopping")
  /\ UNCHANGED <<queue, queue_mutex, counters, task, recent_first_count, stop_requested, client, owner, history>>

EndWorker(w) ==
  /\ WorkerGoto(w, {"stopping"}, "stopped")
  /\ workers_stopped' = workers_stopped + 1
  /\ client' = [c \in Clients |-> IF client[c] = "asleep" THEN "lock" ELSE client[c]]
  /\ UNCHANGED <<queue, queue_mutex, work_done, task, recent_first_count, stop_requested, owner, history>>

-----------------------------------------------------------------------------
(* A client *)

ClientGoto(c, from, to) == client[c] = from /\ client' = [client EXCEPT ![c] = to]

\* A pool that was emptied and joined may be used again; one that was destroyed may not
Usable == owner \in {"using", "stopped"}

\* QueueWork, up to the end of the lock
QueueWork(c) ==
  /\ Usable /\ queue_mutex = Nobody /\ work_scheduled < Works
  /\ ClientGoto(c, "idle", "notify")
  /\ work_scheduled' = work_scheduled + 1
  /\ requests' = Append(requests, work_scheduled')
  /\ older' = [older EXCEPT ![work_scheduled'] = Len(requests)]
  /\ UNCHANGED <<queue_mutex, counters, workers, stop_requested, owner, done, discarded, bypassed>>

\* condition.notify_one: one of the workers that sleep, if any does
NotifyOne(c) ==
  /\ ClientGoto(c, "notify", "idle")
  /\ \/ \E w \in Workers : worker[w] = "asleep" /\ worker' = [worker EXCEPT ![w] = "woken"]
     \/ (\A w \in Workers : worker[w] # "asleep") /\ UNCHANGED worker
  /\ UNCHANGED <<queue, queue_mutex, counters, task, recent_first_count, stop_requested, owner, history>>

WaitForRequests(c) ==
  /\ Usable
  /\ ClientGoto(c, "idle", "lock")
  /\ UNCHANGED <<queue, queue_mutex, counters, workers, stop_requested, owner, history>>

Lock(c) ==
  /\ ClientGoto(c, "lock", "locked")
  /\ queue_mutex = Nobody /\ queue_mutex' = c
  /\ UNCHANGED <<queue, counters, workers, stop_requested, owner, history>>

AllDone == workers_stopped >= NumWorkers \/ work_done >= work_scheduled

EndWait(c) ==
  /\ AllDone
  /\ ClientGoto(c, "locked", "idle")
  /\ queue_mutex' = Nobody
  /\ UNCHANGED <<queue, counters, workers, stop_requested, owner, history>>

LookInVain(c) ==
  /\ ~AllDone
  /\ ClientGoto(c, "locked", "sleepy")
  /\ UNCHANGED <<queue, queue_mutex, counters, workers, stop_requested, owner, history>>

SleepClient(c) ==
  /\ ClientGoto(c, "sleepy", "asleep")
  /\ queue_mutex' = Nobody
  /\ UNCHANGED <<queue, counters, workers, stop_requested, owner, history>>

-----------------------------------------------------------------------------
(* The owner, when no client is in a call *)

ClientsIdle == \A c \in Clients : client[c] = "idle"

\* Under the mutex requests are dropped and all workers asked to stop; those that sleep wake
StopAndDiscardPending ==
  /\ "discard" \in Stops /\ owner = "using" /\ ClientsIdle
  /\ queue_mutex = Nobody
  /\ owner' = "discard"
  /\ discarded' = discarded \cup ToSet(requests) /\ requests' = <<>>
  /\ stop_requested' = [w \in Workers |-> TRUE]
  /\ worker' = [w \in Workers |-> IF worker[w] = "asleep" THEN "woken" ELSE worker[w]]
  /\ UNCHANGED <<work_scheduled, queue_mutex, counters, task, recent_first_count, client, done, bypassed, older>>

\* The destructor of each thread in turn asks it to stop and joins it; requests may be left
Destroy(w) ==
  /\ "destroy" \in Stops /\ owner \in {"using", "destroy"} /\ ClientsIdle
  /\ ~stop_requested[w] /\ \A v \in 1 .. w - 1 : worker[v] = "stopped"
  /\ owner' = "destroy"
  /\ stop_requested' = [stop_requested EXCEPT ![w] = TRUE]
  /\ worker' = [worker EXCEPT ![w] = IF @ = "asleep" THEN "woken" ELSE @]
  /\ UNCHANGED <<queue, queue_mutex, counters, task, recent_first_count, client, history>>

\* The last thread is joined: the pool is gone, or empty
Join ==
  /\ owner \in {"discard", "destroy"} /\ \A w \in Workers : worker[w] = "stopped"
  /\ owner' = IF owner = "discard" THEN "stopped" ELSE "gone"
  /\ UNCHANGED <<queue, queue_mutex, counters, workers, stop_requested, client, history>>

-----------------------------------------------------------------------------
WorkerNext(w) ==
  \/ Sleep(w) \/ TakeNewest(w) \/ TakeOldest(w) \/ Run(w) \/ Count(w)
  \/ LeaveLoop(w) \/ EndWorker(w)

InCall(c) == NotifyOne(c) \/ Lock(c) \/ EndWait(c) \/ LookInVain(c) \/ SleepClient(c)

OwnerNext == StopAndDiscardPending \/ (\E w \in Workers : Destroy(w)) \/ Join

Next ==
  \/ \E w \in Workers : WorkerNext(w)
  \/ \E c \in Clients : InCall(c) \/ QueueWork(c) \/ WaitForRequests(c)
  \/ OwnerNext

Spec == Init /\ [][Next]_vars

(* Threads run when they can, tasks end, and a pool that is being destroyed goes on to its    *)
(* last thread.  Nobody is kept from the mutex for ever by clients that wait again and again. *)
FairSpec ==
  /\ Spec
  /\ \A w \in Workers : SF_vars(WorkerNext(w))
  /\ \A c \in Clients : SF_vars(InCall(c))
  /\ WF_vars(Join) /\ WF_vars(owner = "destroy" /\ \E w \in Workers : Destroy(w))

-----------------------------------------------------------------------------
TypeOK ==
  /\ requests \in Seq(Requests) /\ queue_mutex \in Clients \cup {Nobody}
  /\ work_scheduled \in 0 .. Works /\ work_done \in 0 .. Works /\ workers_stopped \in 0 .. NumWorkers
  /\ worker \in [Workers -> {"look", "asleep", "woken", "run", "count", "stopping", "stopped"}]
  /\ task \in [Workers -> 0 .. Works]
  /\ recent_first_count \in [Workers -> 0 .. RecentFirstBurst]
  /\ stop_requested \in [Workers -> BOOLEAN]
  /\ client \in [Clients -> {"idle", "notify", "lock", "locked", "sleepy", "asleep"}]
  /\ owner \in {"using", "discard", "destroy", "stopped", "gone"}
  /\ done \subseteq Requests /\ discarded \subseteq Requests

Running == {w \in Workers : worker[w] = "run"}

(* Every request that was queued is in one place: queued, with one worker, done or dropped.   *)
WorkAccounted ==
  /\ IsInjective(requests) /\ \A v, w \in Running : task[v] = task[w] => v = w
  /\ LET running == {task[w] : w \in Running} IN
     /\ 1 .. work_scheduled = ToSet(requests) \cup running \cup done \cup discarded
     /\ Cardinality(running) + Len(requests) + Cardinality(done) + Cardinality(discarded) = work_scheduled

(* WaitForRequests returns only when no work is queued or running, unless the pool is stopped. *)
WaitCovers ==
  [][\A c \in Clients : client[c] = "locked" /\ client'[c] = "idle" =>
       owner = "stopped" \/ done = 1 .. work_scheduled]_vars

(* The newest requests go first, but not for ever: for each request that was older than a     *)
(* request as it was queued, and for each worker, at most RecentFirstBurst younger ones are   *)
(* taken before it.                                                                           *)
FifoFairness ==
  \A r \in Requests : bypassed[r] <= (older[r] + NumWorkers) * RecentFirstBurst

(* Each request is run, unless the pool is stopped.                                           *)
WorkEnds == \A r \in Requests : r \in ToSet(requests) ~> r \in done \/ owner # "using"

(* WaitForRequests returns, also after the pool was stopped.                                  *)
WaitEnds == \A c \in Clients : client[c] = "lock" ~> client[c] = "idle"

(* A pool that is being stopped or destroyed waits for the tasks that are running and no more. *)
StopEnds == owner \in {"discard", "destroy"} ~> owner \in {"stopped", "gone"}
=============================================================================
