----------------------------- MODULE ReadyQueue -----------------------------
(***************************************************************************)
(* The ready queues of one core (Common::ThreadQueueList) as the scheduler *)
(* of that core uses them (Kernel::ThreadManager).  The priorities that    *)
(* were ever used form a linked list that starts at "first"; a reschedule  *)
(* walks it, pops threads that may not be scheduled, puts them back and    *)
(* switches to the thread it found.  The walk is one loop turn per step,   *)
(* and nothing else happens until it has switched.                         *)
(***************************************************************************)
EXTENDS Integers, SequencesExt

CONSTANTS
  Threads,      \* the threads of this core
  NumQueues,    \* NUM_QUEUES, the number of priorities
  Modes,        \* the unschedule modes in use, a subset of {"SVC", "GDB"}
  SaveStates,   \* whether the state is saved and loaded
  Null,         \* no thread
  nullptr,      \* the null pointer to a queue
  UnlinkedTag   \* the pointer of a priority that was never used

Priorities == 0 .. NumQueues - 1

Pointers == Priorities \cup {nullptr, UnlinkedTag}

VARIABLES
  first, next_nonempty, data,                      \* ThreadQueueList
  status, current_priority, unschedule_mode,       \* Thread
  current_thread,                                  \* ThreadManager
  walk,                                            \* PopNextReadyThread under way, or Null
  saved                                            \* the last save state, or Null

queues == <<first, next_nonempty, data>>
threads == <<status, current_priority, unschedule_mode, current_thread>>
vars == <<queues, threads, walk, saved>>

Status == {"Unborn", "Ready", "Running", "Waiting", "Dead"}

\* "before" is history: the queues when the walk started, which no step reads
Walks ==
  [op : {"pop", "restore"}, better : BOOLEAN, cur : Pointers,
   skipped : Seq(Priorities \X Threads), it : Nat, next : Threads \cup {Null},
   before : [Priorities -> Seq(Threads)]]

\* What a save state holds, here and in PriorityScheduler
Saves ==
  [first : Int, next : [Priorities -> Int], data : [Priorities -> Seq(Threads)],
   threads : [Threads -> Status] \X [Threads -> Priorities] \X [Threads -> SUBSET Modes]
             \X (Threads \cup {Null})]
AbstractSaves ==
  [ready : [Priorities -> Seq(Threads)], status : [Threads -> Status],
   current_priority : [Threads -> Priorities], unscheduled : SUBSET Threads,
   current_thread : Threads \cup {Null}]

ASSUME PointersAssumption ==
  /\ NumQueues \in Nat \ {0}
  /\ nullptr \notin Int /\ UnlinkedTag \notin Int /\ nullptr # UnlinkedTag
  /\ Null \notin Threads /\ Null \notin Walks /\ Null \notin Saves /\ Null \notin AbstractSaves

TypeOK ==
  /\ first \in Priorities \cup {nullptr}
  /\ next_nonempty \in [Priorities -> Pointers]
  /\ data \in [Priorities -> Seq(Threads)]
  /\ status \in [Threads -> Status]
  /\ current_priority \in [Threads -> Priorities]
  /\ unschedule_mode \in [Threads -> SUBSET Modes]
  /\ current_thread \in Threads \cup {Null}
  /\ walk \in Walks \cup {Null}

Init ==
  /\ first = nullptr
  /\ next_nonempty = [p \in Priorities |-> UnlinkedTag]
  /\ data = [p \in Priorities |-> <<>>]
  /\ status = [t \in Threads |-> "Unborn"]
  /\ current_priority = [t \in Threads |-> 0]
  /\ unschedule_mode = [t \in Threads |-> {}]
  /\ current_thread = Null
  /\ walk = Null
  /\ saved = Null

-----------------------------------------------------------------------------
(* ThreadQueueList *)

Linked(p) == next_nonempty[p] # UnlinkedTag

LinkedBelow(p) == {q \in 0 .. p - 1 : Linked(q)}

\* Insert priority p into the list after the nearest used priority before it
link(p) ==
  IF LinkedBelow(p) = {}
  THEN first' = p /\ next_nonempty' = [next_nonempty EXCEPT ![p] = first]
  ELSE LET q == Max(LinkedBelow(p))
       IN /\ first' = first
          /\ next_nonempty' = [next_nonempty EXCEPT ![p] = next_nonempty[q], ![q] = p]

prepare(p) ==
  IF Linked(p) THEN UNCHANGED <<first, next_nonempty>> ELSE link(p)

push_front(d, p, t) == [d EXCEPT ![p] = <<t>> \o @]

push_back(d, p, t) == [d EXCEPT ![p] = Append(@, t)]

\* A thread is at most once in a queue, so erasing all of its entries erases the first
remove(d, p, t) == [d EXCEPT ![p] = RemoveFirst(@, t)]

-----------------------------------------------------------------------------
(* The operations of threads that reach the queues *)

Idle == walk = Null

\* CreateThread; the main thread of an application may start asleep
Create(t, p, make_ready) ==
  /\ Idle /\ status[t] = "Unborn"
  /\ prepare(p)
  /\ status' = [status EXCEPT ![t] = IF make_ready THEN "Ready" ELSE "Waiting"]
  /\ current_priority' = [current_priority EXCEPT ![t] = p]
  /\ data' = IF make_ready THEN push_back(data, p, t) ELSE data
  /\ UNCHANGED <<unschedule_mode, current_thread, walk, saved>>

\* Faulty: the priority of a thread that is not ready is not linked
SetPriorityWithoutPrepare(t, p) ==
  /\ Idle /\ status[t] \in {"Ready", "Running", "Waiting"}
  /\ IF status[t] = "Ready"
     THEN prepare(p) /\ data' = push_back(remove(data, current_priority[t], t), p, t)
     ELSE UNCHANGED queues
  /\ current_priority' = [current_priority EXCEPT ![t] = p]
  /\ UNCHANGED <<status, unschedule_mode, current_thread, walk, saved>>

\* SetPriority and BoostPriority
SetPriority(t, p) ==
  /\ Idle /\ status[t] \in {"Ready", "Running", "Waiting"}
  /\ prepare(p)
  /\ data' = IF status[t] = "Ready"
             THEN push_back(remove(data, current_priority[t], t), p, t)
             ELSE data
  /\ current_priority' = [current_priority EXCEPT ![t] = p]
  /\ UNCHANGED <<status, unschedule_mode, current_thread, walk, saved>>

ResumeFromWait(t) ==
  /\ Idle /\ status[t] = "Waiting"
  /\ data' = push_back(data, current_priority[t], t)
  /\ status' = [status EXCEPT ![t] = "Ready"]
  /\ UNCHANGED <<first, next_nonempty, current_priority, unschedule_mode, current_thread,
                 walk, saved>>

\* The current thread begins to wait
WaitCurrentThread ==
  /\ Idle /\ current_thread # Null /\ status[current_thread] = "Running"
  /\ status' = [status EXCEPT ![current_thread] = "Waiting"]
  /\ UNCHANGED <<queues, current_priority, unschedule_mode, current_thread, walk, saved>>

Stop(t) ==
  /\ Idle /\ status[t] \in {"Ready", "Running", "Waiting"}
  /\ status' = [status EXCEPT ![t] = "Dead"]
  /\ data' = IF status[t] = "Ready" THEN remove(data, current_priority[t], t) ELSE data
  /\ UNCHANGED <<first, next_nonempty, current_priority, unschedule_mode, current_thread,
                 walk, saved>>

-----------------------------------------------------------------------------
(* PopNextReadyThread and SwitchContext *)

CanSchedule(t) == unschedule_mode[t] = {}

\* PopNextReadyThread starts, with pop_first_better when the current thread may go on
StartWalk(modes) ==
  LET c == current_thread
      keeps == c # Null /\ status[c] = "Running" /\ modes[c] = {}
  IN walk' = [op |-> "pop", better |-> keeps, cur |-> first, skipped |-> <<>>, it |-> 0,
              next |-> Null, before |-> data]

Reschedule ==
  /\ Idle /\ StartWalk(unschedule_mode)
  /\ UNCHANGED <<queues, threads, saved>>

\* Whether the loop of pop_first (pop_first_better) looks at queue cur: the null pointer is
\* below every queue
Within ==
  IF walk.better
  THEN walk.cur = nullptr \/ walk.cur \in 0 .. current_priority[current_thread] - 1
  ELSE walk.cur # nullptr

NextQueue ==
  /\ data[walk.cur] = <<>>
  /\ walk' = [walk EXCEPT !.cur = next_nonempty[walk.cur]]
  /\ UNCHANGED data

\* The front thread is popped: it is the next one, or is skipped and the search starts over
PopFront ==
  /\ data[walk.cur] # <<>>
  /\ LET t == Head(data[walk.cur])
     IN IF CanSchedule(t)
        THEN walk' = [walk EXCEPT !.op = "restore", !.it = Len(walk.skipped), !.next = t]
        ELSE walk' = [walk EXCEPT !.skipped = Append(@, <<walk.cur, t>>), !.cur = first]
  /\ data' = [data EXCEPT ![walk.cur] = Tail(@)]

WalkStep ==
  /\ walk # Null /\ walk.op = "pop" /\ Within
  /\ walk.cur \in Priorities   \* anything else is an invalid access: see WalkStaysInList
  /\ NextQueue \/ PopFront
  /\ UNCHANGED <<first, next_nonempty, threads, saved>>

\* Nothing (better) is left: the current thread goes on, or the core has nothing to run
WalkEnds ==
  /\ walk # Null /\ walk.op = "pop" /\ ~ Within
  /\ walk' = [walk EXCEPT !.op = "restore", !.it = Len(walk.skipped),
                          !.next = IF walk.better THEN current_thread ELSE Null]
  /\ UNCHANGED <<queues, threads, saved>>

\* Faulty: the skipped threads are put back in the order in which they were popped
RestoreInOrder ==
  /\ walk # Null /\ walk.op = "restore" /\ walk.it > 0
  /\ LET s == walk.skipped[Len(walk.skipped) + 1 - walk.it]
     IN data' = push_front(data, s[1], s[2])
  /\ walk' = [walk EXCEPT !.it = @ - 1]
  /\ UNCHANGED <<first, next_nonempty, threads, saved>>

\* The skipped threads go back to the front of their queues, the last one first
RestoreSkipped ==
  /\ walk # Null /\ walk.op = "restore" /\ walk.it > 0
  /\ LET s == walk.skipped[walk.it] IN data' = push_front(data, s[1], s[2])
  /\ walk' = [walk EXCEPT !.it = @ - 1]
  /\ UNCHANGED <<first, next_nonempty, threads, saved>>

SwitchContext ==
  /\ walk # Null /\ walk.op = "restore" /\ walk.it = 0
  /\ LET c == current_thread
         new == walk.next
         stays == c # Null /\ status[c] = "Running"
         pushed == IF stays THEN push_front(data, current_priority[c], c) ELSE data
         stopped == IF stays THEN [status EXCEPT ![c] = "Ready"] ELSE status
     IN /\ data' = IF new = Null THEN pushed ELSE remove(pushed, current_priority[new], new)
        /\ status' = IF new = Null THEN stopped ELSE [stopped EXCEPT ![new] = "Running"]
        /\ current_thread' = new
  /\ walk' = Null
  /\ UNCHANGED <<first, next_nonempty, current_priority, unschedule_mode, saved>>

-----------------------------------------------------------------------------
(* Unschedule modes *)

Change(ts, mode, set) ==
  unschedule_mode' = [t \in Threads |->
    IF t \notin ts THEN unschedule_mode[t]
    ELSE IF set THEN unschedule_mode[t] \cup {mode} ELSE unschedule_mode[t] \ {mode}]

\* svcControlProcess: every thread of the process without the magic value, except the caller
ControlProcess(ts, set) ==
  /\ Idle /\ "SVC" \in Modes /\ current_thread # Null /\ status[current_thread] = "Running"
  /\ \A t \in ts : t # current_thread /\ status[t] \in {"Ready", "Running", "Waiting"}
  /\ Change(ts, "SVC", set)
  /\ UNCHANGED <<queues, status, current_priority, current_thread, walk, saved>>

\* Process::ChangeUnscheduleMode for the debugger, which reschedules at once
ChangeUnscheduleMode(ts, set) ==
  /\ Idle /\ "GDB" \in Modes
  /\ \A t \in ts : status[t] \in {"Ready", "Running", "Waiting"}
  /\ Change(ts, "GDB", set)
  /\ IF unschedule_mode' # unschedule_mode THEN StartWalk(unschedule_mode') ELSE UNCHANGED walk
  /\ UNCHANGED <<queues, status, current_priority, current_thread, saved>>

-----------------------------------------------------------------------------
(* Save states: pointers to queues are written as indices *)

ToIndex(q) == IF q = nullptr THEN -2 ELSE IF q = UnlinkedTag THEN -1 ELSE q

ToPointer(i) == IF i = -1 THEN UnlinkedTag ELSE IF i < 0 THEN nullptr ELSE i

Save ==
  /\ SaveStates /\ Idle
  /\ saved' = [first |-> ToIndex(first),
               next |-> [p \in Priorities |-> ToIndex(next_nonempty[p])],
               data |-> data, threads |-> threads]
  /\ UNCHANGED <<queues, threads, walk>>

Load ==
  /\ Idle /\ saved # Null
  /\ first' = ToPointer(saved.first)
  /\ next_nonempty' = [p \in Priorities |-> ToPointer(saved.next[p])]
  /\ data' = saved.data
  /\ status' = saved.threads[1]
  /\ current_priority' = saved.threads[2]
  /\ unschedule_mode' = saved.threads[3]
  /\ current_thread' = saved.threads[4]
  /\ UNCHANGED <<walk, saved>>

-----------------------------------------------------------------------------
Next ==
  \/ \E t \in Threads, p \in Priorities :
       \/ \E make_ready \in BOOLEAN : Create(t, p, make_ready)
       \/ SetPriority(t, p)
  \/ \E t \in Threads : ResumeFromWait(t) \/ Stop(t)
  \/ WaitCurrentThread
  \/ Reschedule \/ WalkStep \/ WalkEnds \/ RestoreSkipped \/ SwitchContext
  \/ \E ts \in SUBSET Threads, set \in BOOLEAN :
       ControlProcess(ts, set) \/ ChangeUnscheduleMode(ts, set)
  \/ Save \/ Load

Spec == Init /\ [][Next]_vars

\* A reschedule is a loop inside one call of the run loop: it runs to its end
FairSpec == Spec /\ WF_vars(WalkStep \/ WalkEnds \/ RestoreSkipped \/ SwitchContext)

-----------------------------------------------------------------------------
(* What the list promises *)

LinkedSet == {p \in Priorities : Linked(p)}

\* The successor of the priorities before p in the list, for p in 0 .. NumQueues
NextLinked(p) ==
  IF \E q \in LinkedSet : q >= p THEN Min({q \in LinkedSet : q >= p}) ELSE nullptr

(* The list that starts at first (ThreadQueueList::link) holds exactly the priorities ever   *)
(* prepared, in ascending order: each points to the least greater one, the last to nullptr.  *)
ListSorted ==
  /\ first = NextLinked(0)
  /\ \A p \in LinkedSet : next_nonempty[p] = NextLinked(p + 1)

(* push_front and push_back do not link a priority, so nothing may be queued at one that was *)
(* never prepared: pop_first would not find it and the thread would never run again.         *)
QueuedIsReachable ==
  /\ \A p \in Priorities : data[p] # <<>> => Linked(p)
  /\ \A t \in Threads : status[t] # "Unborn" => Linked(current_priority[t])

(* pop_first_better compares the pointer with the queue of the current thread and never with *)
(* nullptr, so its walk must meet that queue before the list ends.                           *)
WalkStaysInList ==
  walk # Null /\ walk.op = "pop" /\ walk.better
    => walk.cur \in LinkedSet /\ walk.cur <= current_priority[current_thread]

\* The skipped threads that are not back in their queues
Taken == IF walk.op = "pop" THEN DOMAIN walk.skipped ELSE 1 .. walk.it

\* How many entries thread t has in the queue of p, those skipped by the walk included
Entries(t, p) ==
  Cardinality({i \in DOMAIN data[p] : data[p][i] = t})
  + (IF walk = Null THEN 0
     ELSE Cardinality({i \in Taken : walk.skipped[i] = <<p, t>>}))

(* Outside a reschedule a thread is queued exactly when it is ready, once and at its current *)
(* priority; during one, only the thread about to run has left the queues.                   *)
QueuedOnce ==
  \A t \in Threads, p \in Priorities :
    Entries(t, p) = IF /\ status[t] = "Ready" /\ current_priority[t] = p
                       /\ ~ (walk # Null /\ walk.next = t)
                    THEN 1 ELSE 0

(* SwitchContext asserts that the new thread is ready; the current thread counts, as it has  *)
(* just been put back.                                                                       *)
SwitchAssert ==
  walk # Null /\ walk.op = "restore" /\ walk.next # Null
    => \/ status[walk.next] = "Ready"
       \/ walk.next = current_thread /\ status[walk.next] = "Running"

(* ThreadQueueList and PopNextReadyThread: through boosts, skips, saves and loads every ready *)
(* thread is queued once, at its current priority, where the scheduler finds it, and the walk *)
(* neither leaves the list nor switches to a thread that is not ready.                        *)
QueuesIntact ==
  /\ TypeOK /\ ListSorted /\ QueuedIsReachable /\ WalkStaysInList /\ QueuedOnce /\ SwitchAssert

(* A reschedule always gets to SwitchContext, however many threads it skips on the way.      *)
RescheduleEnds == walk # Null ~> walk = Null

-----------------------------------------------------------------------------
(* The list and its walk implement the scheduler of PriorityScheduler: until the switch the  *)
(* queues count as what they were when the walk started.                                     *)

AbstractReady == IF walk = Null THEN data ELSE walk.before

Unscheduled(modes) == {t \in Threads : modes[t] # {}}

AbstractSaved ==
  IF saved = Null THEN Null
  ELSE [ready |-> saved.data, status |-> saved.threads[1], current_priority |-> saved.threads[2],
        unscheduled |-> Unscheduled(saved.threads[3]), current_thread |-> saved.threads[4]]

Abstract == INSTANCE PriorityScheduler WITH
  ready <- AbstractReady,
  unscheduled <- Unscheduled(unschedule_mode),
  saved <- AbstractSaved

(* Every reschedule gives the core to the first schedulable thread of the best priority, or  *)
(* keeps the current thread when none is strictly better, and leaves the order of all others *)
(* as it was; loading a save state restores queues and threads.                              *)
ImplementsPriorityScheduler == Abstract!Spec
=============================================================================
