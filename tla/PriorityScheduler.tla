-------------------------- MODULE PriorityScheduler --------------------------
(***************************************************************************)
(* What the ready queues of a core promise the scheduler, without the      *)
(* linked list and its walk: per priority a sequence of ready threads, and *)
(* a reschedule that gives the core to the first schedulable thread of the *)
(* best priority, or leaves it to the current thread when none is better.  *)
(***************************************************************************)
EXTENDS Integers, SequencesExt

CONSTANTS Threads, NumQueues, Null

Priorities == 0 .. NumQueues - 1

VARIABLES ready, status, current_priority, unscheduled, current_thread, saved

vars == <<ready, status, current_priority, unscheduled, current_thread, saved>>

Init ==
  /\ ready = [p \in Priorities |-> <<>>]
  /\ status = [t \in Threads |-> "Unborn"]
  /\ current_priority = [t \in Threads |-> 0]
  /\ unscheduled = {}
  /\ current_thread = Null
  /\ saved = Null

\* The queues after thread t, ready at priority p, has left them
Without(t, p) == [ready EXCEPT ![p] = RemoveFirst(@, t)]

Create(t, p, make_ready) ==
  /\ status[t] = "Unborn"
  /\ status' = [status EXCEPT ![t] = IF make_ready THEN "Ready" ELSE "Waiting"]
  /\ current_priority' = [current_priority EXCEPT ![t] = p]
  /\ ready' = IF make_ready THEN [ready EXCEPT ![p] = Append(@, t)] ELSE ready
  /\ UNCHANGED <<unscheduled, current_thread, saved>>

SetPriority(t, p) ==
  /\ status[t] \in {"Ready", "Running", "Waiting"}
  /\ current_priority' = [current_priority EXCEPT ![t] = p]
  /\ ready' = IF status[t] = "Ready"
              THEN LET w == Without(t, current_priority[t]) IN [w EXCEPT ![p] = Append(@, t)]
              ELSE ready
  /\ UNCHANGED <<status, unscheduled, current_thread, saved>>

Resume(t) ==
  /\ status[t] = "Waiting"
  /\ status' = [status EXCEPT ![t] = "Ready"]
  /\ ready' = [ready EXCEPT ![current_priority[t]] = Append(@, t)]
  /\ UNCHANGED <<current_priority, unscheduled, current_thread, saved>>

Block ==
  /\ current_thread # Null /\ status[current_thread] = "Running"
  /\ status' = [status EXCEPT ![current_thread] = "Waiting"]
  /\ UNCHANGED <<ready, current_priority, unscheduled, current_thread, saved>>

Stop(t) ==
  /\ status[t] \in {"Ready", "Running", "Waiting"}
  /\ status' = [status EXCEPT ![t] = "Dead"]
  /\ ready' = IF status[t] = "Ready" THEN Without(t, current_priority[t]) ELSE ready
  /\ UNCHANGED <<current_priority, unscheduled, current_thread, saved>>

\* Unschedule modes change for any of the threads that exist
SetModes ==
  /\ unscheduled' \in SUBSET Threads
  /\ UNCHANGED <<ready, status, current_priority, current_thread, saved>>

\* The ready threads that may run, best first: by priority, then by place in the queue
IsBest(p, i) ==
  /\ ready[p][i] \notin unscheduled
  /\ \A j \in 1 .. i - 1 : ready[p][j] \in unscheduled
  /\ \A q \in 0 .. p - 1 : Range(ready[q]) \subseteq unscheduled

Runs(t) == t # Null /\ status[t] = "Running"

\* The previous thread goes back to the front of its queue if it still runs
GiveCoreTo(t) ==
  LET c == current_thread
      put == IF Runs(c) THEN [ready EXCEPT ![current_priority[c]] = <<c>> \o @] ELSE ready
      stopped == IF Runs(c) THEN [status EXCEPT ![c] = "Ready"] ELSE status
  IN /\ current_thread' = t
     /\ status' = IF t = Null THEN stopped ELSE [stopped EXCEPT ![t] = "Running"]
     /\ ready' = IF t = Null THEN put
                 ELSE [put EXCEPT ![current_priority[t]] = RemoveFirst(@, t)]
     /\ UNCHANGED <<current_priority, unscheduled, saved>>

Keeps(c) == Runs(c) /\ c \notin unscheduled

Reschedule ==
  \/ \E p \in Priorities : \E i \in DOMAIN ready[p] :
       /\ IsBest(p, i)
       /\ Keeps(current_thread) => p < current_priority[current_thread]
       /\ GiveCoreTo(ready[p][i])
  \/ /\ \A p \in Priorities :
          (Keeps(current_thread) => p < current_priority[current_thread])
            => Range(ready[p]) \subseteq unscheduled
     /\ IF Keeps(current_thread) THEN GiveCoreTo(current_thread) ELSE GiveCoreTo(Null)

Save ==
  /\ saved' = [ready |-> ready, status |-> status, current_priority |-> current_priority,
               unscheduled |-> unscheduled, current_thread |-> current_thread]
  /\ UNCHANGED <<ready, status, current_priority, unscheduled, current_thread>>

Load ==
  /\ saved # Null
  /\ ready' = saved.ready /\ status' = saved.status
  /\ current_priority' = saved.current_priority
  /\ unscheduled' = saved.unscheduled /\ current_thread' = saved.current_thread
  /\ UNCHANGED saved

Next ==
  \/ \E t \in Threads, p \in Priorities :
       \/ \E make_ready \in BOOLEAN : Create(t, p, make_ready)
       \/ SetPriority(t, p)
  \/ \E t \in Threads : Resume(t) \/ Stop(t)
  \/ Block
  \/ SetModes
  \/ Reschedule
  \/ Save \/ Load

Spec == Init /\ [][Next]_vars
=============================================================================
