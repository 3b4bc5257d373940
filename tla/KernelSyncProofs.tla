-------------------------- MODULE KernelSyncProofs --------------------------
(***************************************************************************)
(* Types, the ownership of mutexes, the inheritance of priorities, ready   *)
(* queues, current threads, timeouts and rescheduling in KernelSync, for   *)
(* every value of its constants.                                           *)
(***************************************************************************)
EXTENDS KernelSync, ListProofs

(* Frames are typed by the call they stand for. *)
LEMMA FrameType ==
  /\ \A t \in Threads, o \in Objects : /\ Frame("Acquire", t, o) \in Frames
                                       /\ Frame("AddWaiting", t, o) \in Frames
                                       /\ Frame("RemoveWaiting", t, o) \in Frames
  /\ \A o \in Objects : Frame("Wake", Null, o) \in Frames
  /\ \A t \in Threads : /\ Frame("Wakeup", t, Null) \in Frames
                        /\ Frame("Resume", t, Null) \in Frames
                        /\ Frame("Stop", t, Null) \in Frames
                        /\ Frame("ReleaseMutexes", t, Null) \in Frames
  /\ \A tm \in Timers : Frame("Rearm", Null, tm) \in Frames
  /\ \A m \in Mutexes : Frame("UpdatePriority", Null, m) \in Frames
  /\ \A t \in Threads, c \in Cores : Frame("TerminateThreads", t, c) \in Frames
  /\ \A c \in Cores : Frame("Reschedule", Null, c) \in Frames
BY DEF Frame, Frames

(* The arguments of the frame that runs next, by its name. *)
LEMMA FrameArguments ==
  ASSUME NEW f \in Frames
  PROVE  /\ f.fn \in {"Acquire", "AddWaiting", "RemoveWaiting"} => f.thr \in Threads /\ f.obj \in Objects
         /\ f.fn = "Wake" => f.obj \in Objects
         /\ f.fn \in {"Wakeup", "Resume", "Stop", "ReleaseMutexes"} => f.thr \in Threads
         /\ f.fn = "Rearm" => f.obj \in Timers
         /\ f.fn = "UpdatePriority" => f.obj \in Mutexes
         /\ f.fn = "TerminateThreads" => f.thr \in Threads /\ f.obj \in Cores
         /\ f.fn = "Reschedule" => f.obj \in Cores
BY DEF Frames

(* A call for every object of a list is a sequence of well-typed frames. *)
LEMMA ForEachType ==
  /\ \A t \in Threads, objs \in Seq(Objects) : /\ ForEach("Acquire", t, objs) \in Seq(Frames)
                                              /\ ForEach("AddWaiting", t, objs) \in Seq(Frames)
                                              /\ ForEach("RemoveWaiting", t, objs) \in Seq(Frames)
  /\ \A objs \in Seq(Mutexes) : ForEach("UpdatePriority", Null, objs) \in Seq(Frames)
<1>1. ASSUME NEW fn, NEW t, NEW S, NEW objs \in Seq(S), \A o \in S : Frame(fn, t, o) \in Frames
      PROVE  ForEach(fn, t, objs) \in Seq(Frames)
  <2>1. DOMAIN objs = 1 .. Len(objs) /\ Len(objs) \in Nat
    OBVIOUS
  <2>2. \A i \in 1 .. Len(objs) : Frame(fn, t, objs[i]) \in Frames
    BY <1>1, ElementOfSeq
  <2>3. ForEach(fn, t, objs) \in [1 .. Len(objs) -> Frames]
    BY <2>1, <2>2 DEF ForEach
  <2>4. QED
    BY <2>1, <2>3
<1>2. QED
  BY <1>1, FrameType

(* Thread::UpdatePriority computes a legal priority from legal ones. *)
LEMMA BestPriorityType ==
  ASSUME NEW nominal \in Priorities, NEW held, held \subseteq Mutexes,
         NEW prio \in [Mutexes -> Priorities]
  PROVE  BestPriority(nominal, held, prio) \in Priorities
<1> DEFINE P == {nominal} \cup {prio[m] : m \in held}
<1>1. Priorities \subseteq Nat
  BY PrioritiesAssumption DEF Priorities
<1>2. P \subseteq Priorities /\ P # {}
  OBVIOUS
<1>3. Min(P) \in P
  BY <1>1, <1>2, MinNat
<1>4. QED
  BY <1>2, <1>3 DEF BestPriority

-----------------------------------------------------------------------------
(* Type correctness *)

PrioTypeOK ==
  /\ current_priority \in [Threads -> Priorities]
  /\ priority \in [Mutexes -> Priorities]
  /\ ready_queue \in [Cores -> [Priorities -> Seq(Threads)]]

(* BoostPriority keeps priorities legal and the ready queues typed. *)
LEMMA BoostType ==
  ASSUME TypeOK, NEW t \in Threads, NEW new \in Priorities, BoostPriority(t, new)
  PROVE  /\ current_priority' \in [Threads -> Priorities]
         /\ ready_queue' \in [Cores -> [Priorities -> Seq(Threads)]]
<1> DEFINE c == CoreOf[t]
           removed == [ready_queue[c] EXCEPT ![current_priority[t]] = RemoveFirst(@, t)]
<1>1. c \in Cores /\ current_priority[t] \in Priorities
  BY CoresAssumption DEF TypeOK
<1>2. RemoveFirst(ready_queue[c][current_priority[t]], t) \in Seq(Threads)
  BY <1>1, RemoveFirstType DEF TypeOK
<1>3. removed \in [Priorities -> Seq(Threads)]
  BY <1>1, <1>2 DEF TypeOK
<1> DEFINE moved == [removed EXCEPT ![new] = Append(@, t)]
<1>4. MoveReady(t, new) = [ready_queue EXCEPT ![c] = moved]
  BY DEF MoveReady
<1> HIDE DEF removed
<1>5. moved \in [Priorities -> Seq(Threads)]
  BY <1>3
<1> HIDE DEF moved
<1>6. MoveReady(t, new) \in [Cores -> [Priorities -> Seq(Threads)]]
  BY <1>1, <1>4, <1>5 DEF TypeOK
<1>7. QED
  BY <1>6 DEF TypeOK, BoostPriority

(* Mutex::UpdatePriority keeps the priorities of mutex and holder legal. *)
LEMMA MutexUpdateType ==
  ASSUME TypeOK, NEW m \in Mutexes, NEW waiters \in Seq(Threads), MutexUpdatePriority(m, waiters)
  PROVE  PrioTypeOK'
<1> DEFINE P == {ThreadPrioLowest} \cup {current_priority[w] : w \in Range(waiters)}
           best == Min(P)
           h == holding_thread[m]
<1>1. CASE h = Null \/ best = priority[m]
  BY <1>1 DEF TypeOK, PrioTypeOK, MutexUpdatePriority, prio_vars
<1>2. CASE h # Null /\ best # priority[m]
  <2>1. Range(waiters) \subseteq Threads
    BY ElementOfSeq DEF Range
  <2>2. Priorities \subseteq Nat /\ ThreadPrioLowest \in Priorities
    BY PrioritiesAssumption DEF Priorities
  <2>3. P \subseteq Priorities
    BY <2>1, <2>2 DEF TypeOK
  <2>4. best \in Priorities
    BY <2>2, <2>3, MinNat
  <2>5. priority' = [priority EXCEPT ![m] = best]
        /\ BoostPriority(h, BestPriority(nominal_priority[h], held_mutexes[h], priority'))
    BY <1>2 DEF MutexUpdatePriority
  <2>6. priority' \in [Mutexes -> Priorities]
    BY <2>4, <2>5 DEF TypeOK
  <2>7. h \in Threads /\ nominal_priority[h] \in Priorities /\ held_mutexes[h] \subseteq Mutexes
    BY <1>2 DEF TypeOK
  <2>8. BestPriority(nominal_priority[h], held_mutexes[h], priority') \in Priorities
    BY <2>6, <2>7, BestPriorityType
  <2>9. QED
    BY <2>5, <2>6, <2>7, <2>8, BoostType DEF PrioTypeOK
<1>3. QED
  BY <1>1, <1>2

(* What is left of the pending calls once the first is dropped is well typed. *)
LEMMA TailType ==
  ASSUME TypeOK, todo # <<>>
  PROVE  Head(todo) \in Frames /\ Tail(todo) \in Seq(Frames)
BY DEF TypeOK

(* Mutex::Acquire keeps the types of what it changes. *)
LEMMA AcquireMutexType ==
  ASSUME TypeOK, NEW t \in Threads, NEW m \in Mutexes, AcquireMutex(m, t)
  PROVE  /\ PrioTypeOK'
         /\ lock_count' \in [Mutexes -> Nat]
         /\ held_mutexes' \in [Threads -> SUBSET Mutexes]
         /\ holding_thread' \in [Mutexes -> Threads \cup {Null}]
<1>1. lock_count' \in [Mutexes -> Nat]
  BY DEF TypeOK, AcquireMutex
<1>2. CASE lock_count[m] = 0
  <2>1. /\ priority' = [priority EXCEPT ![m] = current_priority[t]]
        /\ held_mutexes' = [held_mutexes EXCEPT ![t] = @ \cup {m}]
        /\ holding_thread' = [holding_thread EXCEPT ![m] = t]
        /\ BoostPriority(t, BestPriority(nominal_priority[t], held_mutexes'[t], priority'))
    BY <1>2 DEF AcquireMutex
  <2>2. priority' \in [Mutexes -> Priorities] /\ holding_thread' \in [Mutexes -> Threads \cup {Null}]
    BY <2>1 DEF TypeOK
  <2>3. held_mutexes' \in [Threads -> SUBSET Mutexes]
    BY <2>1 DEF TypeOK
  <2>4. nominal_priority[t] \in Priorities /\ held_mutexes'[t] \subseteq Mutexes
    BY <2>3 DEF TypeOK
  <2>5. BestPriority(nominal_priority[t], held_mutexes'[t], priority') \in Priorities
    BY <2>2, <2>4, BestPriorityType
  <2>6. QED
    BY <1>1, <2>1, <2>2, <2>3, <2>5, BoostType DEF PrioTypeOK
<1>3. CASE lock_count[m] # 0
  BY <1>1, <1>3 DEF AcquireMutex, TypeOK, PrioTypeOK, prio_vars
<1>4. QED
  BY <1>2, <1>3

(* Acquire on an object of any kind keeps the types. *)
LEMMA AcquireType ==
  ASSUME TypeOK, todo # <<>>, NEW t \in Threads, NEW o \in Objects, Acquire(t, o)
  PROVE  TypeOK'
<1> USE DEF Acquire, Return, Continue, PrepareReschedule, prio_vars, thread_vars, mutex_vars,
            wait_vars, signal_vars, event_vars, core_vars
<1>1. todo' \in Seq(Frames)
  BY TailType
<1>2. CASE o \in Mutexes /\ AcquireMutex(o, t)
  <2>1. reschedule_pending' \in BOOLEAN /\ running' \in Cores \cup {NoCore}
    BY <1>2 DEF AcquireMutex, TypeOK
  <2>2. UNCHANGED <<status, thread_vars, wait_vars, event_vars, advancing, slices, core_vars, signal_vars>>
    BY <1>2 DEF AcquireMutex
  <2>3. QED
    BY <1>1, <1>2, <2>1, <2>2, AcquireMutexType DEF TypeOK, PrioTypeOK
<1>3. CASE o \in Semaphores /\ AcquireSemaphore(o)
  BY <1>1, <1>3 DEF AcquireSemaphore, TypeOK
<1>4. CASE o \in Signals /\ AcquireSignal(o)
  BY <1>1, <1>4 DEF AcquireSignal, TypeOK
<1>5. CASE o \in Threads /\ AcquireThread(o)
  BY <1>1, <1>5 DEF AcquireThread, TypeOK
<1>6. QED
  BY <1>2, <1>3, <1>4, <1>5

(* AddWaitingThread and RemoveWaitingThread keep the types, of the mutex priorities too. *)
LEMMA WaitingListType ==
  ASSUME TypeOK, todo # <<>>, NEW t \in Threads, NEW o \in Objects,
         AddWaitingThread(t, o) \/ RemoveWaitingThread(t, o)
  PROVE  TypeOK'
<1> USE DEF prio_vars, thread_vars, mutex_vars, wait_vars, signal_vars, event_vars, loop_vars, core_vars
<1>1. todo' \in Seq(Frames)
  BY TailType DEF AddWaitingThread, RemoveWaitingThread, Return
<1>2. PICK ws \in Seq(Threads) :
        /\ waiting_threads' = [waiting_threads EXCEPT ![o] = ws]
        /\ o \in Mutexes => MutexUpdatePriority(o, ws)
        /\ o \notin Mutexes => UNCHANGED <<pending_mutexes, prio_vars>>
        /\ o \in Mutexes =>
             \/ pending_mutexes' = [pending_mutexes EXCEPT ![t] = @ \cup {o}]
             \/ pending_mutexes' = [pending_mutexes EXCEPT ![t] = @ \ {o}]
  <2>1. waiting_threads[o] \in Seq(Threads)
    BY DEF TypeOK
  <2>2. CASE AddWaitingThread(t, o)
    <3> DEFINE ws == IF t \in Range(waiting_threads[o]) THEN waiting_threads[o]
                     ELSE Append(waiting_threads[o], t)
    <3>1. ws \in Seq(Threads)
      BY <2>1
    <3>2. /\ waiting_threads' = [waiting_threads EXCEPT ![o] = ws]
          /\ o \in Mutexes => /\ MutexUpdatePriority(o, ws)
                              /\ pending_mutexes' = [pending_mutexes EXCEPT ![t] = @ \cup {o}]
          /\ o \notin Mutexes => UNCHANGED <<pending_mutexes, prio_vars>>
      BY <2>2 DEF AddWaitingThread
    <3> HIDE DEF ws
    <3>3. QED
      BY <3>1, <3>2
  <2>3. CASE RemoveWaitingThread(t, o)
    BY <2>1, <2>3, RemoveFirstType DEF RemoveWaitingThread
  <2>4. QED
    BY <2>2, <2>3
<1>3. waiting_threads' \in [Objects -> Seq(Threads)]
  BY <1>2 DEF TypeOK
<1>4. pending_mutexes' \in [Threads -> SUBSET Mutexes]
  <2>1. CASE o \in Mutexes
    <3>1. PICK S \in SUBSET Mutexes : pending_mutexes' = [pending_mutexes EXCEPT ![t] = S]
      <4>1. pending_mutexes[t] \cup {o} \in SUBSET Mutexes /\ pending_mutexes[t] \ {o} \in SUBSET Mutexes
        BY <2>1 DEF TypeOK
      <4>2. QED
        BY <1>2, <2>1, <4>1
    <3>2. QED
      BY <3>1 DEF TypeOK
  <2>2. CASE o \notin Mutexes
    BY <1>2, <2>2 DEF TypeOK
  <2>3. QED
    BY <2>1, <2>2
<1>5. PrioTypeOK'
  <2>1. CASE o \in Mutexes
    BY <1>2, <2>1, MutexUpdateType
  <2>2. CASE o \notin Mutexes
    BY <1>2, <2>2 DEF TypeOK, PrioTypeOK
  <2>3. QED
    BY <2>1, <2>2
<1>6. UNCHANGED <<status, thread_vars, mutex_vars, wait_objects, signal_vars, event_vars, loop_vars, core_vars>>
  BY DEF AddWaitingThread, RemoveWaitingThread
<1>7. QED
  BY <1>1, <1>3, <1>4, <1>5, <1>6 DEF TypeOK, PrioTypeOK

(* A round of WakeupAllWaitingThreads, and its end, keep the types. *)
LEMMA WakeType ==
  ASSUME TypeOK, todo # <<>>, NEW o \in Objects, WakeupAllWaitingThreads(o)
  PROVE  TypeOK'
<1> USE DEF prio_vars, thread_vars, mutex_vars, wait_vars, signal_vars, event_vars, loop_vars, core_vars
<1>1. UNCHANGED <<status, nominal_priority, wakeup_callback, listed, prio_vars, mutex_vars, wait_vars,
                  available_count, interval_delay, event_vars, loop_vars, core_vars>>
  BY DEF WakeupAllWaitingThreads
<1>2. CASE \E i \in Candidates(o) : WakeOne(o, waiting_threads[o][i])
  <2>1. PICK i \in Candidates(o) : WakeOne(o, waiting_threads[o][i])
    BY <1>2
  <2> DEFINE t == waiting_threads[o][i]
             granted == IF status[t] = "WaitSynchAll" THEN wait_objects[t] ELSE <<o>>
  <2>2. t \in Threads
    <3>1. waiting_threads[o] \in Seq(Threads) /\ i \in DOMAIN waiting_threads[o]
      BY DEF TypeOK, Candidates
    <3>2. QED
      BY <3>1, ElementOfSeq
  <2>3. wait_objects[t] \in Seq(Objects) /\ granted \in Seq(Objects)
    BY <2>2 DEF TypeOK
  <2>4. todo' = (ForEach("Acquire", t, granted) \o ForEach("RemoveWaiting", t, wait_objects[t])
                   \o <<Frame("Wakeup", t, Null)>>) \o todo
        /\ result' = [result EXCEPT ![t] = IF wakeup_callback[t] THEN "Success" ELSE @]
        /\ UNCHANGED signaled
    BY <2>1 DEF WakeOne, CallAgain
  <2> HIDE DEF t, granted
  <2>5. /\ ForEach("Acquire", t, granted) \in Seq(Frames)
        /\ ForEach("RemoveWaiting", t, wait_objects[t]) \in Seq(Frames)
        /\ Frame("Wakeup", t, Null) \in Frames
    BY <2>2, <2>3, ForEachType, FrameType
  <2>6. todo' \in Seq(Frames)
    BY <2>4, <2>5 DEF TypeOK
  <2>7. result' \in [Threads -> WaitResults]
    BY <2>2, <2>4 DEF TypeOK, WaitResults
  <2>8. QED
    BY <1>1, <2>4, <2>6, <2>7 DEF TypeOK
<1>3. CASE WakeEnd(o)
  <2>1. todo' \in Seq(Frames)
    BY <1>3, TailType DEF WakeEnd, Return
  <2>2. signaled' \in [Signals -> BOOLEAN]
    BY <1>3 DEF WakeEnd, TypeOK
  <2>3. QED
    BY <1>1, <1>3, <2>1, <2>2 DEF TypeOK, WakeEnd
<1>4. QED
  BY <1>2, <1>3 DEF WakeupAllWaitingThreads

(* Adding a thread to a queue, or taking it out, leaves well-typed queues. *)
LEMMA QueueType ==
  ASSUME TypeOK, NEW c \in Cores, NEW p \in Priorities, NEW q \in Seq(Threads)
  PROVE  [ready_queue EXCEPT ![c][p] = q] \in [Cores -> [Priorities -> Seq(Threads)]]
BY DEF TypeOK

(* Giving one thread a legal status keeps the type of status. *)
LEMMA StatusType ==
  ASSUME TypeOK, NEW t \in Threads, NEW st \in ThreadStatus
  PROVE  [status EXCEPT ![t] = st] \in [Threads -> ThreadStatus]
BY DEF TypeOK

(* ResumeFromWait, called for a woken or for a sleeping thread, keeps the types. *)
LEMMA ResumeType ==
  ASSUME TypeOK, todo # <<>>, NEW t \in Threads, Wakeup(t) \/ Resume(t)
  PROVE  TypeOK'
<1> USE DEF prio_vars, thread_vars, mutex_vars, wait_vars, signal_vars, event_vars, loop_vars, core_vars
<1>1. todo' \in Seq(Frames)
  BY TailType DEF Wakeup, Resume, Return
<1>2. wait_objects' \in [Threads -> Seq(Objects)]
  <2>1. wait_objects' = [wait_objects EXCEPT ![t] = <<>>] \/ wait_objects' = wait_objects
    BY DEF Wakeup, Resume
  <2>2. wait_objects \in [Threads -> Seq(Objects)] /\ <<>> \in Seq(Objects)
    BY DEF TypeOK
  <2>3. [wait_objects EXCEPT ![t] = <<>>] \in [Threads -> Seq(Objects)]
    BY <2>2
  <2>4. QED
    BY <2>1, <2>2, <2>3
<1>3. ResumeFromWait(t)
  BY DEF Wakeup, Resume
<1>4. /\ status' \in [Threads -> ThreadStatus] /\ wakeup_callback' \in [Threads -> BOOLEAN]
      /\ reschedule_pending' \in BOOLEAN /\ running' \in Cores \cup {NoCore}
      /\ ready_queue' \in [Cores -> [Priorities -> Seq(Threads)]]
  <2>1. CASE status[t] \notin BlockedStatus
    BY <1>3, <2>1 DEF ResumeFromWait, TypeOK, Continue
  <2>2. CASE status[t] \in BlockedStatus
    <3> DEFINE c == CoreOf[t]
               p == current_priority[t]
    <3>1. c \in Cores /\ p \in Priorities /\ Append(ready_queue[c][p], t) \in Seq(Threads)
      BY CoresAssumption DEF TypeOK
    <3>2. /\ wakeup_callback' = [wakeup_callback EXCEPT ![t] = FALSE]
          /\ ready_queue' = [ready_queue EXCEPT ![c][p] = Append(@, t)]
          /\ status' = [status EXCEPT ![t] = "Ready"]
          /\ PrepareReschedule
      BY <1>3, <2>2 DEF ResumeFromWait
    <3>3. "Ready" \in ThreadStatus
      BY DEF ThreadStatus
    <3>4. QED
      BY <3>1, <3>2, <3>3, QueueType, StatusType DEF TypeOK, PrepareReschedule
  <2>3. QED
    BY <2>1, <2>2
<1>5. UNCHANGED <<nominal_priority, result, listed, current_priority, priority, mutex_vars,
                  waiting_threads, pending_mutexes, signal_vars, event_vars, advancing, slices, core_vars>>
  BY DEF Wakeup, Resume
<1>6. QED
  BY <1>1, <1>2, <1>4, <1>5 DEF TypeOK

(* Scheduling a periodic timer again keeps the types. *)
LEMMA RearmType ==
  ASSUME TypeOK, todo # <<>>, NEW tm \in Timers, Rearm(tm)
  PROVE  TypeOK'
<1> USE DEF prio_vars, thread_vars, mutex_vars, wait_vars, signal_vars, event_vars, loop_vars, core_vars
<1>1. todo' \in Seq(Frames)
  BY TailType DEF Rearm, Return
<1>2. QED
  BY <1>1 DEF Rearm, TypeOK

(* Mutex::UpdatePriority, called by SetThreadPriority, keeps the types. *)
LEMMA UpdatePendingType ==
  ASSUME TypeOK, todo # <<>>, NEW m \in Mutexes, UpdatePendingMutex(m)
  PROVE  TypeOK'
<1> USE DEF prio_vars, thread_vars, mutex_vars, wait_vars, signal_vars, event_vars, loop_vars, core_vars
<1>1. todo' \in Seq(Frames)
  BY TailType DEF UpdatePendingMutex, Return
<1>2. waiting_threads[m] \in Seq(Threads)
  BY DEF TypeOK, Objects
<1>3. PrioTypeOK'
  BY <1>2, MutexUpdateType DEF UpdatePendingMutex
<1>4. QED
  BY <1>1, <1>3 DEF UpdatePendingMutex, TypeOK, PrioTypeOK

(* Thread::Stop keeps the types. *)
LEMMA StopType ==
  ASSUME TypeOK, todo # <<>>, NEW t \in Threads, Stop(t)
  PROVE  TypeOK'
<1> USE DEF prio_vars, thread_vars, mutex_vars, wait_vars, signal_vars, event_vars, loop_vars, core_vars
<1> DEFINE c == CoreOf[t]
           p == current_priority[t]
<1>1. c \in Cores /\ p \in Priorities /\ RemoveFirst(ready_queue[c][p], t) \in Seq(Threads)
  BY CoresAssumption, RemoveFirstType DEF TypeOK
<1>2. ready_queue' = IF status[t] = "Ready"
                     THEN [ready_queue EXCEPT ![c][p] = RemoveFirst(@, t)]
                     ELSE ready_queue
  BY DEF Stop
<1>3. ready_queue' \in [Cores -> [Priorities -> Seq(Threads)]]
  <2>1. CASE status[t] = "Ready"
    BY <1>1, <1>2, <2>1, QueueType
  <2>2. CASE status[t] # "Ready"
    BY <1>2, <2>2 DEF TypeOK
  <2>3. QED
    BY <2>1, <2>2
<1>4. status' \in [Threads -> ThreadStatus]
  BY StatusType DEF Stop, ThreadStatus
<1>5. todo' \in Seq(Frames)
  <2>1. /\ Frame("Wake", Null, t) \in Frames /\ Frame("ReleaseMutexes", t, Null) \in Frames
        /\ wait_objects[t] \in Seq(Objects)
    BY FrameType DEF TypeOK, Objects
  <2>2. ForEach("RemoveWaiting", t, wait_objects[t]) \in Seq(Frames)
    BY <2>1, ForEachType
  <2>3. todo' = (<<Frame("Wake", Null, t)>> \o ForEach("RemoveWaiting", t, wait_objects[t])
                  \o <<Frame("ReleaseMutexes", t, Null)>>) \o Tail(todo)
    BY DEF Stop, CallThenReturn
  <2>4. QED
    BY <2>1, <2>2, <2>3, TailType
<1>6. thread_events' \in [Threads -> Nat] /\ listed' \in SUBSET Threads
  BY DEF Stop, UnscheduleEvent, TypeOK
<1>7. UNCHANGED <<nominal_priority, wakeup_callback, result, current_priority, priority,
                  mutex_vars, wait_vars, signal_vars, timer_events, loop_vars, core_vars>>
  BY DEF Stop
<1>8. QED
  BY <1>3, <1>4, <1>5, <1>6, <1>7 DEF TypeOK

(* ReleaseThreadMutexes keeps the types. *)
LEMMA ReleaseThreadMutexesType ==
  ASSUME TypeOK, todo # <<>>, NEW t \in Threads, ReleaseThreadMutexes(t)
  PROVE  TypeOK'
<1> USE DEF prio_vars, thread_vars, mutex_vars, wait_vars, signal_vars, event_vars, loop_vars, core_vars
<1>1. wait_objects' \in [Threads -> Seq(Objects)]
  BY DEF ReleaseThreadMutexes, TypeOK
<1>2. UNCHANGED <<status, thread_vars, prio_vars, waiting_threads, pending_mutexes, signal_vars,
                  event_vars, loop_vars, core_vars>>
  BY DEF ReleaseThreadMutexes
<1>3. CASE \E m \in held_mutexes[t] :
             /\ lock_count' = [lock_count EXCEPT ![m] = 0]
             /\ holding_thread' = [holding_thread EXCEPT ![m] = Null]
             /\ todo' = <<Frame("Wake", Null, m)>> \o todo
             /\ UNCHANGED held_mutexes
  <2>1. PICK m \in held_mutexes[t] :
             /\ lock_count' = [lock_count EXCEPT ![m] = 0]
             /\ holding_thread' = [holding_thread EXCEPT ![m] = Null]
             /\ todo' = <<Frame("Wake", Null, m)>> \o todo
             /\ UNCHANGED held_mutexes
    BY <1>3
  <2>2. m \in Mutexes /\ m \in Objects
    BY DEF TypeOK, Objects
  <2>3. todo' \in Seq(Frames)
    BY <2>1, <2>2, FrameType DEF TypeOK
  <2>4. QED
    BY <1>1, <1>2, <2>1, <2>2, <2>3 DEF TypeOK
<1>4. CASE held_mutexes' = [held_mutexes EXCEPT ![t] = {}] /\ Return /\ UNCHANGED <<lock_count, holding_thread>>
  <2>1. todo' \in Seq(Frames) /\ held_mutexes' \in [Threads -> SUBSET Mutexes]
    BY <1>4, TailType DEF Return, TypeOK
  <2>2. QED
    BY <1>1, <1>2, <1>4, <2>1 DEF TypeOK
<1>5. QED
  BY <1>3, <1>4 DEF ReleaseThreadMutexes, CallAgain

(* TerminateProcessThreads asks only for threads to be stopped. *)
LEMMA TerminateThreadsType ==
  ASSUME TypeOK, todo # <<>>, NEW p \in Threads, NEW c \in Cores, TerminateProcessThreads(p, c)
  PROVE  TypeOK'
<1> USE DEF prio_vars, thread_vars, mutex_vars, wait_vars, signal_vars, event_vars, loop_vars, core_vars
<1>1. todo' \in Seq(Frames)
  <2>1. todo' = Tail(todo) \/ \E t \in Threads : \/ todo' = <<Frame("Stop", t, Null)>> \o todo
                                               \/ todo' = <<Frame("Stop", t, Null)>> \o Tail(todo)
    <3>1. listed \subseteq Threads /\ (current_thread[c] # Null => current_thread[c] \in Threads)
      BY DEF TypeOK
    <3>2. QED
      BY <3>1 DEF TerminateProcessThreads, CallAgain, CallThenReturn, Return
  <2>2. todo \in Seq(Frames) /\ Tail(todo) \in Seq(Frames)
    BY TailType DEF TypeOK
  <2>3. ASSUME NEW t \in Threads
        PROVE  /\ <<Frame("Stop", t, Null)>> \o todo \in Seq(Frames)
               /\ <<Frame("Stop", t, Null)>> \o Tail(todo) \in Seq(Frames)
    BY <2>2, FrameType
  <2>4. QED
    BY <2>1, <2>2, <2>3
<1>2. reschedule_pending' \in BOOLEAN /\ running' \in Cores \cup {NoCore}
  BY DEF TerminateProcessThreads, Continue, PrepareReschedule, TypeOK
<1>3. UNCHANGED <<status, thread_vars, prio_vars, mutex_vars, wait_vars, signal_vars, event_vars,
                  advancing, slices, core_vars>>
  BY DEF TerminateProcessThreads
<1>4. QED
  BY <1>1, <1>2, <1>3 DEF TypeOK

(* SwitchContext to the thread popped from a ready queue keeps the types. *)
LEMMA SwitchToType ==
  ASSUME TypeOK, NEW c \in Cores, NEW p \in BetterQueues(c), SwitchTo(c, p)
  PROVE  /\ status' \in [Threads -> ThreadStatus]
         /\ ready_queue' \in [Cores -> [Priorities -> Seq(Threads)]]
         /\ current_thread' \in [Cores -> Threads \cup {Null}]
         /\ cpu_r0' \in [Cores -> WaitResults]
         /\ thread_events' \in [Threads -> Nat]
<1> DEFINE cur == current_thread[c]
           next == Head(ready_queue[c][p])
           popped == [ready_queue[c] EXCEPT ![p] = Tail(@)]
           pushed == IF StaysRunnable(c)
                     THEN [popped EXCEPT ![current_priority[cur]] = <<cur>> \o @]
                     ELSE popped
           left == [pushed EXCEPT ![current_priority[next]] = RemoveFirst(@, next)]
<1>1. p \in Priorities /\ ready_queue[c][p] \in Seq(Threads) /\ ready_queue[c][p] # <<>>
  BY DEF BetterQueues, TypeOK
<1>2. next \in Threads /\ Tail(ready_queue[c][p]) \in Seq(Threads)
  BY <1>1
<1>3. popped \in [Priorities -> Seq(Threads)]
  BY <1>1, <1>2 DEF TypeOK
<1>4. StaysRunnable(c) => cur \in Threads /\ current_priority[cur] \in Priorities
  BY DEF StaysRunnable, TypeOK
<1>5. /\ ready_queue' = [ready_queue EXCEPT ![c] = left]
      /\ status' = [t \in Threads |-> IF t = next THEN "Running"
                                      ELSE IF t = cur /\ StaysRunnable(c) THEN "Ready"
                                      ELSE status[t]]
      /\ current_thread' = [current_thread EXCEPT ![c] = next]
      /\ cpu_r0' = [cpu_r0 EXCEPT ![c] = SavedContext(c)[next]]
      /\ thread_events' = [thread_events EXCEPT ![next] = 0]
  BY DEF SwitchTo, UnscheduleEvent
<1>6. pushed \in [Priorities -> Seq(Threads)]
  <2> HIDE DEF popped, cur
  <2>1. CASE StaysRunnable(c)
    <3>1. <<cur>> \o popped[current_priority[cur]] \in Seq(Threads)
      BY <1>3, <1>4, <2>1
    <3>2. QED
      BY <1>3, <1>4, <2>1, <3>1
  <2>2. CASE ~StaysRunnable(c)
    BY <1>3, <2>2
  <2>3. QED
    BY <2>1, <2>2
<1> HIDE DEF pushed, next
<1>7. left \in [Priorities -> Seq(Threads)]
  <2>1. current_priority[next] \in Priorities
    BY <1>2 DEF TypeOK
  <2>2. RemoveFirst(pushed[current_priority[next]], next) \in Seq(Threads)
    BY <1>6, <2>1, RemoveFirstType
  <2>3. QED
    BY <1>6, <2>1, <2>2
<1> HIDE DEF left
<1>8. status' \in [Threads -> ThreadStatus]
  BY <1>5 DEF TypeOK, ThreadStatus
<1>9. SavedContext(c)[next] \in WaitResults
  BY <1>2 DEF SavedContext, TypeOK
<1>10. QED
  BY <1>2, <1>5, <1>7, <1>8, <1>9 DEF TypeOK

(* ThreadManager::Reschedule keeps the types, whether it switches, stays or idles. *)
LEMMA RescheduleType ==
  ASSUME TypeOK, todo # <<>>, NEW c \in Cores, Reschedule(c)
  PROVE  TypeOK'
<1> USE DEF prio_vars, thread_vars, mutex_vars, wait_vars, signal_vars, event_vars, loop_vars, core_vars
<1>1. todo' \in Seq(Frames) /\ result' \in [Threads -> WaitResults]
  BY TailType DEF Reschedule, Return, SavedContext, TypeOK
<1>2. UNCHANGED <<nominal_priority, wakeup_callback, listed, current_priority, priority, mutex_vars,
                  wait_vars, signal_vars, timer_events, loop_vars>>
  BY DEF Reschedule
<1>3. /\ status' \in [Threads -> ThreadStatus]
      /\ ready_queue' \in [Cores -> [Priorities -> Seq(Threads)]]
      /\ current_thread' \in [Cores -> Threads \cup {Null}]
      /\ cpu_r0' \in [Cores -> WaitResults]
      /\ thread_events' \in [Threads -> Nat]
  <2>1. CASE BetterQueues(c) = {}
    <3>1. StayOrIdle(c)
      BY <2>1 DEF Reschedule
    <3>2. UNCHANGED <<status, ready_queue, cpu_r0>>
      BY <3>1 DEF StayOrIdle
    <3>3. CASE StaysRunnable(c)
      <4>1. /\ thread_events' = [thread_events EXCEPT ![current_thread[c]] = 0]
            /\ current_thread' = current_thread
        BY <3>1, <3>3 DEF StayOrIdle, UnscheduleEvent
      <4>2. QED
        BY <3>2, <4>1 DEF TypeOK
    <3>4. CASE ~StaysRunnable(c)
      <4>1. current_thread' = [current_thread EXCEPT ![c] = Null] /\ thread_events' = thread_events
        BY <3>1, <3>4 DEF StayOrIdle
      <4>2. QED
        BY <3>2, <4>1 DEF TypeOK
    <3>5. QED
      BY <3>3, <3>4
  <2>2. CASE BetterQueues(c) # {}
    <3>1. BetterQueues(c) \subseteq Nat
      BY PrioritiesAssumption DEF BetterQueues, Priorities
    <3>2. Min(BetterQueues(c)) \in BetterQueues(c)
      BY <2>2, <3>1, MinNat
    <3>3. SwitchTo(c, Min(BetterQueues(c)))
      BY <2>2 DEF Reschedule
    <3>4. QED
      BY <3>2, <3>3, SwitchToType
  <2>3. QED
    BY <2>1, <2>2
<1>4. QED
  BY <1>1, <1>2, <1>3 DEF TypeOK

(* Every pending call keeps the types. *)
LEMMA RunFrameType ==
  ASSUME TypeOK, RunFrame
  PROVE  TypeOK'
<1> DEFINE f == Head(todo)
<1>1. todo # <<>> /\ f \in Frames
  BY TailType DEF RunFrame
<1>2. CASE f.fn = "Acquire" /\ Acquire(f.thr, f.obj)
  BY <1>1, <1>2, FrameArguments, AcquireType
<1>3. CASE f.fn = "AddWaiting" /\ AddWaitingThread(f.thr, f.obj)
  BY <1>1, <1>3, FrameArguments, WaitingListType
<1>4. CASE f.fn = "RemoveWaiting" /\ RemoveWaitingThread(f.thr, f.obj)
  BY <1>1, <1>4, FrameArguments, WaitingListType
<1>5. CASE f.fn = "Wake" /\ WakeupAllWaitingThreads(f.obj)
  BY <1>1, <1>5, FrameArguments, WakeType
<1>6. CASE f.fn = "Wakeup" /\ Wakeup(f.thr)
  BY <1>1, <1>6, FrameArguments, ResumeType
<1>7. CASE f.fn = "Resume" /\ Resume(f.thr)
  BY <1>1, <1>7, FrameArguments, ResumeType
<1>8. CASE f.fn = "Rearm" /\ Rearm(f.obj)
  BY <1>1, <1>8, FrameArguments, RearmType
<1>9. CASE f.fn = "UpdatePriority" /\ UpdatePendingMutex(f.obj)
  BY <1>1, <1>9, FrameArguments, UpdatePendingType
<1>10. CASE f.fn = "Stop" /\ Stop(f.thr)
  BY <1>1, <1>10, FrameArguments, StopType
<1>11. CASE f.fn = "ReleaseMutexes" /\ ReleaseThreadMutexes(f.thr)
  BY <1>1, <1>11, FrameArguments, ReleaseThreadMutexesType
<1>12. CASE f.fn = "TerminateThreads" /\ TerminateProcessThreads(f.thr, f.obj)
  BY <1>1, <1>12, FrameArguments, TerminateThreadsType
<1>13. CASE f.fn = "Reschedule" /\ Reschedule(f.obj)
  BY <1>1, <1>13, FrameArguments, RescheduleType
<1>14. QED
  BY <1>2, <1>3, <1>4, <1>5, <1>6, <1>7, <1>8, <1>9, <1>10, <1>11, <1>12, <1>13 DEF RunFrame

(* The ids of the cores are naturals. *)
LEMMA CoresNat == Cores \subseteq Nat
BY CoresAssumption DEF Cores

(* cpu_cores is a sequence of cores. *)
LEMMA AllCoresType ==
  /\ AllCores \in Seq(Cores)
  /\ [i \in 1 .. NumCores |-> Frame("Reschedule", Null, i - 1)] \in Seq(Frames)
  /\ \A p \in Threads : [i \in 1 .. NumCores |-> Frame("TerminateThreads", p, i - 1)] \in Seq(Frames)
<1>1. NumCores \in Nat /\ \A i \in 1 .. NumCores : i - 1 \in Cores
  BY CoresAssumption DEF Cores
<1>2. AllCores \in [1 .. NumCores -> Cores]
  BY <1>1 DEF AllCores
<1>3. [i \in 1 .. NumCores |-> Frame("Reschedule", Null, i - 1)] \in [1 .. NumCores -> Frames]
  BY <1>1, FrameType
<1>4. ASSUME NEW p \in Threads
      PROVE  [i \in 1 .. NumCores |-> Frame("TerminateThreads", p, i - 1)] \in [1 .. NumCores -> Frames]
  BY <1>1, FrameType
<1>5. QED
  BY <1>1, <1>2, <1>3, <1>4

(* The cores that lag behind form a sequence of cores. *)
LEMMA LateCoresType == LateCores \subseteq Seq(Cores)
<1> SUFFICES ASSUME NEW late \in LateCores PROVE late \in Seq(Cores)
  OBVIOUS
<1>1. PICK n \in 0 .. NumCores - 1 : late \in [1 .. n -> Cores]
  BY DEF LateCores
<1>2. n \in Nat
  BY CoresAssumption
<1>3. QED
  BY <1>1, <1>2

(* Event::Signal keeps the types. *)
LEMMA EventSignalType ==
  ASSUME TypeOK, NEW e \in Events, EventSignal(e)
  PROVE  TypeOK'
<1> USE DEF prio_vars, thread_vars, mutex_vars, wait_vars, signal_vars, event_vars, loop_vars, core_vars
<1>1. todo' \in Seq(Frames)
  BY FrameType DEF EventSignal, Objects, Signals
<1>2. signaled' \in [Signals -> BOOLEAN]
  BY DEF EventSignal, TypeOK, Signals
<1>3. QED
  BY <1>1, <1>2 DEF EventSignal, TypeOK

(* The steps of System::RunLoop and the events it fires keep the types. *)
LEMMA RunLoopType ==
  ASSUME TypeOK, RunLoop
  PROVE  TypeOK'
<1> USE DEF prio_vars, thread_vars, mutex_vars, wait_vars, signal_vars, event_vars, loop_vars, core_vars
<1>1. CASE StartIteration
  <2>1. PICK late \in LateCores :
           \/ advancing' = late \o AllCores /\ slices' = Cores
           \/ advancing' = late /\ \E c \in Range(late) : slices' = {c}
    BY <1>1 DEF StartIteration
  <2>2. late \in Seq(Cores) /\ late \o AllCores \in Seq(Cores)
    BY LateCoresType, AllCoresType
  <2>3. Range(late) \subseteq Cores
    BY <2>2, ElementOfSeq DEF Range
  <2>4. advancing' \in Seq(Cores) /\ slices' \in SUBSET Cores
    BY <2>1, <2>2, <2>3
  <2>5. QED
    BY <1>1, <2>4 DEF StartIteration, TypeOK
<1>2. CASE AdvanceDone
  <2>1. Head(advancing) \in Cores /\ Tail(advancing) \in Seq(Cores)
    BY <1>2 DEF AdvanceDone, TypeOK
  <2>2. todo' \in Seq(Frames)
    BY <1>2, <2>1, FrameType DEF AdvanceDone
  <2>3. QED
    BY <1>2, <2>1, <2>2 DEF AdvanceDone, TypeOK
<1>3. CASE StartSlice
  <2>1. Min(slices) \in Cores
    BY <1>3, MinNat, CoresNat DEF StartSlice, TypeOK
  <2>2. slices' \in SUBSET Cores /\ reschedule_pending' \in BOOLEAN /\ running' \in Cores \cup {NoCore}
    BY <1>3, <2>1 DEF StartSlice, PrepareReschedule, TypeOK
  <2>3. QED
    BY <1>3, <2>2 DEF StartSlice, TypeOK
<1>4. CASE EndSlice
  BY <1>4 DEF EndSlice, TypeOK
<1>5. CASE RescheduleAll
  BY <1>5, AllCoresType DEF RescheduleAll, TypeOK
<1>6. ASSUME NEW t \in Threads, ThreadWakeupCallback(t) PROVE TypeOK'
  <2>1. thread_events' \in [Threads -> Nat]
    BY <1>6, SMTT(30) DEF ThreadWakeupCallback, TypeOK
  <2>2. wait_objects[t] \in Seq(Objects)
    BY DEF TypeOK
  <2>3. CASE status[t] \in SyncStatus
    <3>1. /\ result' = [result EXCEPT ![t] = IF wakeup_callback[t] THEN "Timeout" ELSE @]
          /\ todo' = ForEach("RemoveWaiting", t, wait_objects[t]) \o <<Frame("Wakeup", t, Null)>>
      BY <1>6, <2>3 DEF ThreadWakeupCallback
    <3>2. result' \in [Threads -> WaitResults]
      BY <3>1 DEF TypeOK, WaitResults
    <3>3. todo' \in Seq(Frames)
      BY <2>2, <3>1, ForEachType, FrameType
    <3>4. QED
      BY <1>6, <2>1, <3>2, <3>3 DEF ThreadWakeupCallback, TypeOK
  <2>4. CASE status[t] \notin SyncStatus
    <3>1. todo' = <<Frame("Resume", t, Null)>> /\ UNCHANGED result
      BY <1>6, <2>4 DEF ThreadWakeupCallback
    <3>2. todo' \in Seq(Frames)
      BY <3>1, FrameType
    <3>3. QED
      BY <1>6, <2>1, <3>1, <3>2 DEF ThreadWakeupCallback, TypeOK
  <2>5. QED
    BY <2>3, <2>4
<1>7. ASSUME NEW tm \in Timers, TimerCallback(tm) PROVE TypeOK'
  <2>1. todo' \in Seq(Frames)
    BY <1>7, FrameType DEF TimerCallback, TimerFrames, Objects, Signals
  <2>2. timer_events' \in [Timers -> Nat] /\ signaled' \in [Signals -> BOOLEAN]
    BY <1>7 DEF TimerCallback, TypeOK, Signals
  <2>3. QED
    BY <1>7, <2>1, <2>2 DEF TimerCallback, TypeOK
<1>8. ASSUME NEW e \in Events, ServiceSignal(e) PROVE TypeOK'
  BY <1>8, EventSignalType DEF ServiceSignal
<1>9. QED
  BY <1>1, <1>2, <1>3, <1>4, <1>5, <1>6, <1>7, <1>8 DEF RunLoop

(* A wait returns at once, with or without the objects, or suspends the caller. *)
LEMMA WaitType ==
  ASSUME TypeOK, running \in Cores, NEW t \in Threads, NEW objs \in Seq(Objects),
         NEW st \in ThreadStatus, NEW ns, WaitUnchanged,
         AcquireNow(t, objs) \/ TimeoutNow \/ Suspend(t, objs, st, ns)
  PROVE  TypeOK'
<1> USE DEF prio_vars, thread_vars, mutex_vars, wait_vars, signal_vars, event_vars, loop_vars, core_vars
<1>1. todo' \in Seq(Frames)
  BY ForEachType DEF AcquireNow, TimeoutNow, Suspend, TypeOK
<1>2. cpu_r0' \in [Cores -> WaitResults]
  <2>1. cpu_r0' = [cpu_r0 EXCEPT ![running] = "Success"] \/ cpu_r0' = [cpu_r0 EXCEPT ![running] = "Timeout"]
    BY DEF AcquireNow, TimeoutNow, Suspend
  <2>2. cpu_r0 \in [Cores -> WaitResults] /\ "Success" \in WaitResults /\ "Timeout" \in WaitResults
    BY DEF TypeOK, WaitResults
  <2>3. QED
    BY <2>1, <2>2
<1>3. /\ reschedule_pending' \in BOOLEAN /\ running' \in Cores \cup {NoCore}
  BY DEF AcquireNow, TimeoutNow, Suspend, Continue, PrepareReschedule, TypeOK
<1>4. CASE AcquireNow(t, objs) \/ TimeoutNow
  <2>1. UNCHANGED <<status, wakeup_callback, wait_objects, thread_events>>
    BY <1>4 DEF AcquireNow, TimeoutNow
  <2>2. QED
    BY <1>1, <1>2, <1>3, <2>1 DEF TypeOK, WaitUnchanged
<1>5. CASE Suspend(t, objs, st, ns)
  <2>1. /\ status' = [status EXCEPT ![t] = st]
        /\ wait_objects' = [wait_objects EXCEPT ![t] = objs]
        /\ WakeAfterDelay(t, ns)
        /\ wakeup_callback' = [wakeup_callback EXCEPT ![t] = TRUE]
    BY <1>5 DEF Suspend
  <2>2. status' \in [Threads -> ThreadStatus] /\ wait_objects' \in [Threads -> Seq(Objects)]
    BY <2>1 DEF TypeOK
  <2>3. thread_events' \in [Threads -> Nat] /\ wakeup_callback' \in [Threads -> BOOLEAN]
    BY <2>1 DEF TypeOK, WakeAfterDelay
  <2>4. QED
    BY <1>1, <1>2, <1>3, <2>2, <2>3 DEF TypeOK, WaitUnchanged
<1>6. QED
  BY <1>4, <1>5

(* The handles of a wait name objects. *)
LEMMA ObjectListType ==
  ASSUME NEW S, IsFiniteSet(S), NEW order \in SetToSeqs(S)
  PROVE  order \in Seq(S)
<1>1. Cardinality(S) \in Nat
  BY FS_CardinalityType
<1>2. order \in [1 .. Cardinality(S) -> S]
  BY DEF SetToSeqs
<1>3. QED
  BY <1>1, <1>2

(* Every SVC keeps the types. *)
LEMMA ThreadCallType ==
  ASSUME TypeOK, NEW t \in Threads, ThreadCall(t)
  PROVE  TypeOK'
<1> USE DEF prio_vars, thread_vars, mutex_vars, wait_vars, signal_vars, event_vars, loop_vars, core_vars
<1>1. ASSUME NEW x \in Threads, CreateThread(t, x) PROVE TypeOK'
  <2>1. CoreOf[x] \in Cores /\ current_priority[x] \in Priorities
        /\ Append(ready_queue[CoreOf[x]][current_priority[x]], x) \in Seq(Threads)
    BY CoresAssumption DEF TypeOK
  <2>2. ready_queue' \in [Cores -> [Priorities -> Seq(Threads)]]
    BY <1>1, <2>1, QueueType DEF CreateThread
  <2>3. status' \in [Threads -> ThreadStatus] /\ listed' \in SUBSET Threads
    BY <1>1, StatusType DEF CreateThread, ThreadStatus, TypeOK
  <2>4. QED
    BY <1>1, <2>2, <2>3 DEF CreateThread, PrepareReschedule, TypeOK
<1>2. ASSUME ExitThread(t) PROVE TypeOK'
  <2>1. todo' \in Seq(Frames)
    BY <1>2, FrameType DEF ExitThread
  <2>2. QED
    BY <1>2, <2>1 DEF ExitThread, PrepareReschedule, TypeOK
<1>3. ASSUME NEW p \in Threads, TerminateProcess(t, p) PROVE TypeOK'
  BY <1>3, AllCoresType DEF TerminateProcess, TypeOK
<1>4. ASSUME NEW x \in Threads, NEW p \in SetPriorities, SetThreadPriority(t, x, p) PROVE TypeOK'
  <2>1. p \in Priorities /\ held_mutexes[x] \subseteq Mutexes /\ priority \in [Mutexes -> Priorities]
    BY PrioritiesAssumption DEF TypeOK
  <2>2. BestPriority(p, held_mutexes[x], priority) \in Priorities
    BY <2>1, BestPriorityType
  <2>3. /\ current_priority' \in [Threads -> Priorities]
        /\ ready_queue' \in [Cores -> [Priorities -> Seq(Threads)]]
    BY <1>4, <2>2, BoostType DEF SetThreadPriority
  <2>4. nominal_priority' \in [Threads -> Priorities]
    BY <1>4, <2>1 DEF SetThreadPriority, TypeOK
  <2>5. PICK order \in SetToSeqs(pending_mutexes[x]) : todo' = ForEach("UpdatePriority", Null, order)
    BY <1>4 DEF SetThreadPriority
  <2>6. pending_mutexes[x] \subseteq Mutexes /\ IsFiniteSet(pending_mutexes[x])
    BY ObjectsAssumption, FS_Subset DEF TypeOK
  <2>7. order \in Seq(Mutexes)
    BY <2>6, ObjectListType, SeqMonotonic
  <2>8. todo' \in Seq(Frames)
    BY <2>5, <2>7, ForEachType
  <2>9. QED
    BY <1>4, <2>3, <2>4, <2>8 DEF SetThreadPriority, PrepareReschedule, TypeOK
<1>5. ASSUME NEW o \in Waitable(t), NEW ns \in Delays, WaitSynchronization1(t, o, ns) PROVE TypeOK'
  <2>1. running \in Cores /\ o \in Objects
    BY <1>5, ArgumentsAssumption DEF WaitSynchronization1, Svc, TypeOK, Waitable, Objects
  <2>2. <<o>> \in Seq(Objects) /\ "WaitSynchAny" \in ThreadStatus
    BY <2>1 DEF ThreadStatus, BlockedStatus, SyncStatus
  <2>3. /\ WaitUnchanged
        /\ AcquireNow(t, <<o>>) \/ TimeoutNow \/ Suspend(t, <<o>>, "WaitSynchAny", ns)
    BY <1>5 DEF WaitSynchronization1
  <2>4. QED
    BY <2>1, <2>2, <2>3, WaitType
<1>6. ASSUME NEW objs \in WaitLists, NEW all \in BOOLEAN, NEW ns \in Delays,
             WaitSynchronizationN(t, objs, all, ns)
      PROVE  TypeOK'
  <2> DEFINE free == {i \in DOMAIN objs : ~ShouldWait(objs[i], t)}
             st == IF all THEN "WaitSynchAll" ELSE "WaitSynchAny"
  <2>1. running \in Cores /\ objs \in Seq(Objects)
    BY <1>6, ArgumentsAssumption DEF WaitSynchronizationN, Svc, TypeOK
  <2>2. st \in ThreadStatus
    BY DEF ThreadStatus, BlockedStatus, SyncStatus
  <2>3. ASSUME free # {} PROVE <<objs[Min(free)]>> \in Seq(Objects)
    <3>1. free \subseteq Nat /\ DOMAIN objs = 1 .. Len(objs)
      BY <2>1
    <3>2. Min(free) \in DOMAIN objs
      BY <2>3, <3>1, MinNat
    <3>3. QED
      BY <2>1, <3>1, <3>2, ElementOfSeq
  <2>4. /\ WaitUnchanged
        /\ \/ AcquireNow(t, objs) \/ TimeoutNow \/ Suspend(t, objs, st, ns)
           \/ free # {} /\ AcquireNow(t, <<objs[Min(free)]>>)
    BY <1>6 DEF WaitSynchronizationN
  <2> HIDE DEF free, st
  <2>5. CASE AcquireNow(t, objs) \/ TimeoutNow \/ Suspend(t, objs, st, ns)
    BY <2>1, <2>2, <2>4, <2>5, WaitType
  <2>6. CASE free # {} /\ AcquireNow(t, <<objs[Min(free)]>>)
    BY <2>1, <2>2, <2>3, <2>4, <2>6, WaitType
  <2>7. QED
    BY <2>4, <2>5, <2>6
<1>7. ASSUME NEW ns \in Delays, SleepThread(t, ns) PROVE TypeOK'
  <2>1. status' \in [Threads -> ThreadStatus]
    BY <1>7, StatusType DEF SleepThread, ThreadStatus, BlockedStatus
  <2>2. thread_events' \in [Threads -> Nat]
    BY <1>7 DEF SleepThread, WakeAfterDelay, TypeOK
  <2>3. QED
    BY <1>7, <2>1, <2>2 DEF SleepThread, PrepareReschedule, TypeOK
<1>8. ASSUME NEW m \in Mutexes, ReleaseMutex(t, m) PROVE TypeOK'
  <2>1. lock_count' \in [Mutexes -> Nat]
    BY <1>8 DEF ReleaseMutex, TypeOK
  <2>2. CASE lock_count[m] = 1
    <3>1. /\ held_mutexes' = [held_mutexes EXCEPT ![t] = @ \ {m}]
          /\ BoostPriority(t, BestPriority(nominal_priority[t], held_mutexes'[t], priority))
          /\ holding_thread' = [holding_thread EXCEPT ![m] = Null]
          /\ todo' = <<Frame("Wake", Null, m)>>
      BY <1>8, <2>2 DEF ReleaseMutex
    <3>2. held_mutexes' \in [Threads -> SUBSET Mutexes] /\ held_mutexes'[t] \subseteq Mutexes
      BY <3>1 DEF TypeOK
    <3>3. BestPriority(nominal_priority[t], held_mutexes'[t], priority) \in Priorities
      BY <3>2, BestPriorityType DEF TypeOK
    <3>4. /\ current_priority' \in [Threads -> Priorities]
          /\ ready_queue' \in [Cores -> [Priorities -> Seq(Threads)]]
      BY <3>1, <3>3, BoostType
    <3>5. todo' \in Seq(Frames) /\ holding_thread' \in [Mutexes -> Threads \cup {Null}]
      BY <3>1, FrameType DEF Objects, TypeOK
    <3>6. QED
      BY <1>8, <2>1, <2>2, <3>2, <3>4, <3>5 DEF ReleaseMutex, PrepareReschedule, TypeOK
  <2>3. CASE lock_count[m] # 1
    BY <1>8, <2>1, <2>3 DEF ReleaseMutex, Continue, TypeOK
  <2>4. QED
    BY <2>2, <2>3
<1>9. ASSUME NEW s \in Semaphores, NEW n \in ReleaseCounts, ReleaseSemaphore(t, s, n) PROVE TypeOK'
  <2>1. todo' \in Seq(Frames)
    BY <1>9, FrameType DEF ReleaseSemaphore, Objects
  <2>2. n \in Int
    BY ArgumentsAssumption
  <2>3. available_count' \in [Semaphores -> Int]
    BY <1>9, <2>2 DEF ReleaseSemaphore, TypeOK
  <2>4. QED
    BY <1>9, <2>1, <2>3 DEF ReleaseSemaphore, TypeOK
<1>10. ASSUME NEW e \in Events, SignalEvent(t, e) PROVE TypeOK'
  BY <1>10, EventSignalType DEF SignalEvent
<1>11. ASSUME NEW e \in Signals, ClearSignal(t, e) PROVE TypeOK'
  BY <1>11 DEF ClearSignal, TypeOK
<1>12. ASSUME NEW tm \in Timers, NEW initial \in BOOLEAN, NEW interval \in BOOLEAN,
              SetTimer(t, tm, initial, interval)
       PROVE  TypeOK'
  <2>1. timer_events' \in [Timers -> Nat] /\ interval_delay' \in [Timers -> BOOLEAN]
    BY <1>12 DEF SetTimer, TypeOK
  <2>2. signaled' \in [Signals -> BOOLEAN]
    BY <1>12 DEF SetTimer, TypeOK, Signals
  <2>3. TimerFrames(tm) \in Seq(Frames)
    BY FrameType DEF TimerFrames, Objects, Signals
  <2>4. todo' \in Seq(Frames)
    BY <1>12, <2>3 DEF SetTimer, TypeOK
  <2>5. QED
    BY <1>12, <2>1, <2>2, <2>4 DEF SetTimer, TypeOK
<1>13. ASSUME NEW tm \in Timers, CancelTimer(t, tm) PROVE TypeOK'
  BY <1>13 DEF CancelTimer, TypeOK
<1>14. QED
  BY <1>1, <1>2, <1>3, <1>4, <1>5, <1>6, <1>7, <1>8, <1>9, <1>10, <1>11, <1>12, <1>13 DEF ThreadCall

(* The initial state is well typed. *)
LEMMA InitType == Init => TypeOK
<1> SUFFICES ASSUME Init PROVE TypeOK
  OBVIOUS
<1>1. InitPriority \in [Threads -> Priorities] /\ ThreadPrioLowest \in Priorities /\ Main \in Threads
  BY PrioritiesAssumption, ObjectsAssumption DEF Priorities
<1>2. ready_queue \in [Cores -> [Priorities -> Seq(Threads)]]
  BY <1>1 DEF Init
<1>3. todo \in Seq(Frames) /\ advancing \in Seq(Cores)
  BY AllCoresType DEF Init
<1>4. status \in [Threads -> ThreadStatus]
  BY DEF Init, ThreadStatus
<1>5. wait_objects \in [Threads -> Seq(Objects)] /\ waiting_threads \in [Objects -> Seq(Threads)]
  BY DEF Init
<1>6. available_count \in [Semaphores -> Int]
  BY ArgumentsAssumption DEF Init
<1>7. result \in [Threads -> WaitResults] /\ cpu_r0 \in [Cores -> WaitResults]
  BY DEF Init, WaitResults
<1>8. QED
  BY <1>1, <1>2, <1>3, <1>4, <1>5, <1>6, <1>7 DEF Init, TypeOK

(* Every step keeps the types. *)
LEMMA NextType == TypeOK /\ [Next]_vars => TypeOK'
<1> SUFFICES ASSUME TypeOK, [Next]_vars PROVE TypeOK'
  OBVIOUS
<1>1. CASE RunFrame
  BY <1>1, RunFrameType
<1>2. CASE RunLoop
  BY <1>2, RunLoopType
<1>3. CASE \E t \in Threads : ThreadCall(t)
  BY <1>3, ThreadCallType
<1>4. CASE UNCHANGED vars
  BY <1>4 DEF TypeOK, vars, prio_vars, thread_vars, mutex_vars, wait_vars, signal_vars, event_vars,
              loop_vars, core_vars
<1>5. QED
  BY <1>1, <1>2, <1>3, <1>4 DEF Next

(* The kernel never leaves its types: every priority that inheritance computes is a legal one, every *)
(* queue holds threads, and every pending call has arguments of the kind its callee expects. *)
THEOREM TypeCorrect == Spec => []TypeOK
<1>1. Init => TypeOK
  BY InitType
<1>2. TypeOK /\ [Next]_vars => TypeOK'
  BY NextType
<1>3. QED
  BY <1>1, <1>2, PTL DEF Spec

-----------------------------------------------------------------------------
(* The calls a step leaves to be made: only Stop asks for ReleaseThreadMutexes, and only            *)
(* ReleaseThreadMutexes takes such a request off.                                                   *)

Releasing(t) == Frame("ReleaseMutexes", t, Null) \in Range(todo)

Plain(X) == \A f \in Range(X) : f.fn # "ReleaseMutexes"

(* A list of calls of another function asks for no release. *)
LEMMA ForEachPlain ==
  ASSUME NEW fn, fn # "ReleaseMutexes", NEW t, NEW objs
  PROVE  Plain(ForEach(fn, t, objs))
BY DEF Plain, ForEach, Frame, Range

(* Two lists of calls that ask for no release, one after the other, ask for none. *)
LEMMA PlainConcat ==
  \A X, Y \in Seq(Frames) : Plain(X) /\ Plain(Y) => X \o Y \in Seq(Frames) /\ Plain(X \o Y)
<1> SUFFICES ASSUME NEW X \in Seq(Frames), NEW Y \in Seq(Frames), Plain(X), Plain(Y)
             PROVE  X \o Y \in Seq(Frames) /\ Plain(X \o Y)
  OBVIOUS
<1>1. Range(X \o Y) = Range(X) \cup Range(Y)
  BY RangeConcat
<1>2. QED
  BY <1>1 DEF Plain

(* A call of another function asks for no release. *)
LEMMA PlainFrame ==
  ASSUME NEW fn, fn # "ReleaseMutexes", NEW t, NEW o
  PROVE  Plain(<<Frame(fn, t, o)>>)
BY RangeSingle DEF Plain, Frame

(* What one frame leaves behind: a list X of new calls in front of the rest, or of the same frame.  *)
LEMMA FrameCalls ==
  ASSUME TypeOK, RunFrame
  PROVE  \E X \in Seq(Frames) :
           /\ todo' = X \o Tail(todo) \/ todo' = X \o todo
           /\ Head(todo).fn # "Stop" => Plain(X)
           /\ Head(todo).fn = "Stop" =>
                /\ todo' = X \o Tail(todo)
                /\ \A f \in Range(X) : f.fn = "ReleaseMutexes" =>
                                        f = Frame("ReleaseMutexes", Head(todo).thr, Null)
<1> DEFINE f == Head(todo)
<1>1. todo # <<>> /\ f \in Frames /\ Tail(todo) \in Seq(Frames) /\ todo \in Seq(Frames)
  BY TailType DEF RunFrame, TypeOK
<1>2. <<>> \in Seq(Frames) /\ Plain(<<>>) /\ <<>> \o Tail(todo) = Tail(todo)
  BY <1>1 DEF Plain, Range
<1>3. CASE f.fn # "Stop" /\ Return
  BY <1>2, <1>3 DEF Return
<1>4. CASE f.fn = "Wake" /\ WakeupAllWaitingThreads(f.obj)
  <2> DEFINE o == f.obj
  <2>1. CASE \E i \in Candidates(o) : WakeOne(o, waiting_threads[o][i])
    <3>1. PICK i \in Candidates(o) : WakeOne(o, waiting_threads[o][i])
      BY <2>1
    <3> DEFINE t == waiting_threads[o][i]
               granted == IF status[t] = "WaitSynchAll" THEN wait_objects[t] ELSE <<o>>
               X == ForEach("Acquire", t, granted) \o ForEach("RemoveWaiting", t, wait_objects[t])
                      \o <<Frame("Wakeup", t, Null)>>
    <3>2. o \in Objects
      BY <1>1, <1>4, FrameArguments
    <3>3. t \in Threads
      <4>1. waiting_threads[o] \in Seq(Threads) /\ i \in DOMAIN waiting_threads[o]
        BY <3>2 DEF TypeOK, Candidates
      <4>2. QED
        BY <4>1, ElementOfSeq
    <3>4. wait_objects[t] \in Seq(Objects) /\ granted \in Seq(Objects)
      BY <3>2, <3>3 DEF TypeOK
    <3>5. todo' = X \o todo
      BY <3>1 DEF WakeOne, CallAgain
    <3> HIDE DEF t, granted
    <3>6. /\ ForEach("Acquire", t, granted) \in Seq(Frames)
          /\ ForEach("RemoveWaiting", t, wait_objects[t]) \in Seq(Frames)
          /\ <<Frame("Wakeup", t, Null)>> \in Seq(Frames)
      BY <3>3, <3>4, ForEachType, FrameType
    <3>7. /\ Plain(ForEach("Acquire", t, granted)) /\ Plain(ForEach("RemoveWaiting", t, wait_objects[t]))
          /\ Plain(<<Frame("Wakeup", t, Null)>>)
      BY ForEachPlain, PlainFrame
    <3>8. X \in Seq(Frames) /\ Plain(X)
      <4>1. /\ ForEach("Acquire", t, granted) \o ForEach("RemoveWaiting", t, wait_objects[t]) \in Seq(Frames)
            /\ Plain(ForEach("Acquire", t, granted) \o ForEach("RemoveWaiting", t, wait_objects[t]))
        BY <3>6, <3>7, PlainConcat
      <4>2. QED
        BY <3>6, <3>7, <4>1, PlainConcat
    <3> HIDE DEF X
    <3>9. QED
      BY <1>4, <3>5, <3>8
  <2>2. CASE WakeEnd(o)
    BY <1>3, <1>4, <2>2 DEF WakeEnd
  <2>3. QED
    BY <1>4, <2>1, <2>2 DEF WakeupAllWaitingThreads
<1>5. CASE f.fn = "Stop" /\ Stop(f.thr)
  <2> DEFINE t == f.thr
             R == ForEach("RemoveWaiting", t, wait_objects[t])
             X == <<Frame("Wake", Null, t)>> \o R \o <<Frame("ReleaseMutexes", t, Null)>>
  <2>1. t \in Threads
    BY <1>1, <1>5, FrameArguments
  <2>2. wait_objects[t] \in Seq(Objects) /\ t \in Objects
    BY <2>1 DEF TypeOK, Objects
  <2>3. /\ <<Frame("Wake", Null, t)>> \in Seq(Frames) /\ R \in Seq(Frames)
        /\ <<Frame("ReleaseMutexes", t, Null)>> \in Seq(Frames)
    BY <2>1, <2>2, ForEachType, FrameType
  <2>4. Plain(<<Frame("Wake", Null, t)>>) /\ Plain(R)
    BY ForEachPlain, PlainFrame
  <2>5. todo' = X \o Tail(todo)
    BY <1>5 DEF Stop, CallThenReturn
  <2> HIDE DEF R
  <2>6. <<Frame("Wake", Null, t)>> \o R \in Seq(Frames) /\ Plain(<<Frame("Wake", Null, t)>> \o R)
    BY <2>3, <2>4, PlainConcat
  <2>7. X \in Seq(Frames)
    BY <2>3, <2>6
  <2>8. Range(X) = Range(<<Frame("Wake", Null, t)>> \o R) \cup {Frame("ReleaseMutexes", t, Null)}
    <3> DEFINE F == Frame("ReleaseMutexes", t, Null)
               A == <<Frame("Wake", Null, t)>> \o R
    <3>1. Range(<<F>>) = {F}
      BY RangeSingle
    <3>2. A \in Seq(Frames) /\ <<F>> \in Seq(Frames) /\ X = A \o <<F>>
      BY <2>3, <2>6
    <3> HIDE DEF A, F, X
    <3>3. Range(A \o <<F>>) = Range(A) \cup Range(<<F>>)
      BY <3>2, RangeConcat, ZenonT(30)
    <3>4. Range(X) = Range(A) \cup {F}
      BY <3>1, <3>2, <3>3, Zenon
    <3>5. QED
      BY <3>4 DEF A, F
  <2>9. \A g \in Range(X) : g.fn = "ReleaseMutexes" => g = Frame("ReleaseMutexes", t, Null)
    BY <2>6, <2>8 DEF Plain
  <2> HIDE DEF X
  <2>10. QED
    BY <1>5, <2>5, <2>7, <2>9
<1>6. CASE f.fn = "ReleaseMutexes" /\ ReleaseThreadMutexes(f.thr)
  <2>1. CASE Return
    BY <1>3, <1>6, <2>1
  <2>2. CASE \E m \in held_mutexes[f.thr] : CallAgain(<<Frame("Wake", Null, m)>>)
    <3>1. PICK m \in held_mutexes[f.thr] : todo' = <<Frame("Wake", Null, m)>> \o todo
      BY <2>2 DEF CallAgain
    <3>2. m \in Objects
      BY <1>1, <1>6, FrameArguments DEF TypeOK, Objects
    <3>3. <<Frame("Wake", Null, m)>> \in Seq(Frames) /\ Plain(<<Frame("Wake", Null, m)>>)
      BY <3>2, FrameType, PlainFrame
    <3>4. QED
      BY <1>6, <3>1, <3>3
  <2>3. QED
    BY <1>6, <2>1, <2>2 DEF ReleaseThreadMutexes
<1>7. CASE f.fn = "TerminateThreads" /\ TerminateProcessThreads(f.thr, f.obj)
  <2>1. CASE Return
    BY <1>3, <1>7, <2>1
  <2>2. CASE ~Return
    <3>0. f.obj \in Cores
      BY <1>1, <1>7, FrameArguments
    <3>1. listed \subseteq Threads /\ (current_thread[f.obj] # Null => current_thread[f.obj] \in Threads)
      BY <3>0 DEF TypeOK
    <3>2. PICK t \in Threads : \/ todo' = <<Frame("Stop", t, Null)>> \o todo
                              \/ todo' = <<Frame("Stop", t, Null)>> \o Tail(todo)
      BY <1>7, <2>2, <3>1 DEF TerminateProcessThreads, CallAgain, CallThenReturn
    <3>3. <<Frame("Stop", t, Null)>> \in Seq(Frames) /\ Plain(<<Frame("Stop", t, Null)>>)
      BY FrameType, PlainFrame
    <3>4. QED
      BY <1>7, <3>2, <3>3
  <2>3. QED
    BY <2>1, <2>2
<1>8. QED
  <2>1. \/ f.fn # "Stop" /\ Return
        \/ f.fn = "Wake" /\ WakeupAllWaitingThreads(f.obj)
        \/ f.fn = "Stop" /\ Stop(f.thr)
        \/ f.fn = "ReleaseMutexes" /\ ReleaseThreadMutexes(f.thr)
        \/ f.fn = "TerminateThreads" /\ TerminateProcessThreads(f.thr, f.obj)
    BY DEF RunFrame, Acquire, AddWaitingThread, RemoveWaitingThread, Wakeup, Resume, Rearm,
           UpdatePendingMutex, Reschedule
  <2>2. QED
    BY <2>1, <1>3, <1>4, <1>5, <1>6, <1>7

(* Only ReleaseThreadMutexes of a thread itself takes its request off. *)
LEMMA ReleasingKept ==
  ASSUME TypeOK, RunFrame, NEW t \in Threads, Releasing(t),
         Head(todo) # Frame("ReleaseMutexes", t, Null)
  PROVE  Releasing(t)'
<1>1. todo # <<>> /\ todo \in Seq(Frames) /\ Tail(todo) \in Seq(Frames)
  BY TailType DEF RunFrame, TypeOK
<1>2. Frame("ReleaseMutexes", t, Null) \in Range(Tail(todo))
  BY <1>1, RangeTail DEF Releasing
<1>3. PICK X \in Seq(Frames) : todo' = X \o Tail(todo) \/ todo' = X \o todo
  BY FrameCalls
<1>4. /\ Range(X \o Tail(todo)) = Range(X) \cup Range(Tail(todo))
      /\ Range(X \o todo) = Range(X) \cup Range(todo)
  BY <1>1, RangeConcat, ZenonT(30)
<1>5. QED
  BY <1>2, <1>3, <1>4 DEF Releasing

(* A call of another function takes no request off. *)
LEMMA AllReleasingKept ==
  ASSUME TypeOK, RunFrame, Head(todo).fn # "ReleaseMutexes"
  PROVE  \A u \in Threads : Releasing(u) => Releasing(u)'
<1>1. \A u \in Threads : Head(todo) # Frame("ReleaseMutexes", u, Null)
  BY DEF Frame
<1>2. QED
  BY <1>1, ReleasingKept

(* Only Stop of a thread adds a request for it. *)
LEMMA ReleasingNew ==
  ASSUME TypeOK, RunFrame, NEW t \in Threads, Releasing(t)'
  PROVE  Releasing(t) \/ (Head(todo).fn = "Stop" /\ Head(todo).thr = t)
<1> DEFINE F == Frame("ReleaseMutexes", t, Null)
<1>1. todo # <<>> /\ todo \in Seq(Frames) /\ Tail(todo) \in Seq(Frames)
  BY TailType DEF RunFrame, TypeOK
<1>2. PICK X \in Seq(Frames) :
           /\ todo' = X \o Tail(todo) \/ todo' = X \o todo
           /\ Head(todo).fn # "Stop" => Plain(X)
           /\ Head(todo).fn = "Stop" =>
                \A f \in Range(X) : f.fn = "ReleaseMutexes" =>
                                        f = Frame("ReleaseMutexes", Head(todo).thr, Null)
  BY FrameCalls
<1>3. Range(todo') \subseteq Range(X) \cup Range(todo)
  <2>1. /\ Range(X \o Tail(todo)) = Range(X) \cup Range(Tail(todo))
        /\ Range(X \o todo) = Range(X) \cup Range(todo)
    BY <1>1, RangeConcat, ZenonT(30)
  <2>2. Range(todo) = {Head(todo)} \cup Range(Tail(todo))
    BY <1>1, RangeTail
  <2>3. QED
    BY <1>2, <2>1, <2>2
<1>4. F \in Range(X) \/ Releasing(t)
  BY <1>3 DEF Releasing
<1>5. F.fn = "ReleaseMutexes" /\ F.thr = t
  BY DEF Frame
<1>6. ASSUME F \in Range(X) PROVE Head(todo).fn = "Stop" /\ Head(todo).thr = t
  <2>1. Head(todo).fn = "Stop"
    BY <1>2, <1>5, <1>6 DEF Plain
  <2>2. F = Frame("ReleaseMutexes", Head(todo).thr, Null)
    BY <1>2, <1>5, <1>6, <2>1
  <2>3. QED
    BY <1>5, <2>1, <2>2 DEF Frame
<1>7. QED
  BY <1>4, <1>6

(* The empty list of calls asks for no release. *)
LEMMA EmptyPlain == Plain(<<>>)
BY DEF Plain, Range

(* No SVC and no event asks for ReleaseThreadMutexes itself. *)
LEMMA RunLoopPlain ==
  ASSUME TypeOK, RunLoop
  PROVE  todo = <<>> /\ Plain(todo')
<1>1. todo = <<>>
  BY DEF RunLoop, StartIteration, AdvanceDone, StartSlice, EndSlice, RescheduleAll,
         ThreadWakeupCallback, TimerCallback, ServiceSignal, Advancing, Quiet
<1>2. CASE StartIteration \/ StartSlice \/ EndSlice
  BY <1>1, <1>2, EmptyPlain DEF StartIteration, StartSlice, EndSlice
<1>3. CASE AdvanceDone
  BY <1>1, <1>3, PlainFrame DEF AdvanceDone
<1>4. CASE RescheduleAll
  BY <1>1, <1>4 DEF RescheduleAll, Plain, Range, Frame
<1>5. ASSUME NEW t \in Threads, ThreadWakeupCallback(t) PROVE Plain(todo')
  <2>1. wait_objects[t] \in Seq(Objects)
    BY DEF TypeOK
  <2>2. /\ ForEach("RemoveWaiting", t, wait_objects[t]) \in Seq(Frames)
        /\ <<Frame("Wakeup", t, Null)>> \in Seq(Frames)
        /\ Plain(ForEach("RemoveWaiting", t, wait_objects[t])) /\ Plain(<<Frame("Wakeup", t, Null)>>)
    BY <2>1, ForEachType, FrameType, ForEachPlain, PlainFrame
  <2>3. Plain(ForEach("RemoveWaiting", t, wait_objects[t]) \o <<Frame("Wakeup", t, Null)>>)
    BY <2>2, PlainConcat
  <2>4. Plain(<<Frame("Resume", t, Null)>>)
    BY PlainFrame
  <2>5. QED
    BY <1>5, <2>3, <2>4 DEF ThreadWakeupCallback
<1>6. ASSUME NEW tm \in Timers, TimerCallback(tm) PROVE Plain(todo')
  BY <1>6 DEF TimerCallback, TimerFrames, Plain, Range, Frame
<1>7. ASSUME NEW e \in Events, ServiceSignal(e) PROVE Plain(todo')
  BY <1>7, PlainFrame DEF ServiceSignal, EventSignal
<1>8. QED
  BY <1>1, <1>2, <1>3, <1>4, <1>5, <1>6, <1>7 DEF RunLoop

(* No SVC asks for ReleaseThreadMutexes itself: ExitThread and TerminateProcess ask for Stop. *)
LEMMA ThreadCallPlain ==
  ASSUME NEW t \in Threads, ThreadCall(t)
  PROVE  todo = <<>> /\ Plain(todo')
<1>1. todo = <<>>
  BY DEF ThreadCall, CreateThread, ExitThread, TerminateProcess, SetThreadPriority,
         WaitSynchronization1, WaitSynchronizationN, SleepThread, ReleaseMutex, ReleaseSemaphore,
         SignalEvent, ClearSignal, SetTimer, CancelTimer, Svc
<1>2. ASSUME NEW objs, NEW st, NEW ns, AcquireNow(t, objs) \/ TimeoutNow \/ Suspend(t, objs, st, ns)
      PROVE  Plain(todo')
  BY <1>1, <1>2, ForEachPlain, EmptyPlain DEF AcquireNow, TimeoutNow, Suspend
<1>3. ASSUME NEW o, NEW ns, WaitSynchronization1(t, o, ns) PROVE Plain(todo')
  BY <1>2, <1>3 DEF WaitSynchronization1
<1>4. ASSUME NEW objs, NEW all, NEW ns, WaitSynchronizationN(t, objs, all, ns) PROVE Plain(todo')
  BY <1>2, <1>4 DEF WaitSynchronizationN
<1>5. ASSUME NEW p, TerminateProcess(t, p) PROVE Plain(todo')
  BY <1>5 DEF TerminateProcess, Plain, Range, Frame
<1>6. ASSUME NEW x, NEW p, SetThreadPriority(t, x, p) PROVE Plain(todo')
  BY <1>6, ForEachPlain DEF SetThreadPriority
<1>7. ASSUME NEW m, ReleaseMutex(t, m) PROVE Plain(todo')
  BY <1>1, <1>7, EmptyPlain, PlainFrame DEF ReleaseMutex
<1>8. ASSUME NEW tm, NEW initial \in BOOLEAN, NEW interval \in BOOLEAN, SetTimer(t, tm, initial, interval)
      PROVE  Plain(todo')
  <2>1. Plain(TimerFrames(tm))
    BY DEF TimerFrames, Plain, Range, Frame
  <2>2. QED
    BY <1>1, <1>8, <2>1, EmptyPlain DEF SetTimer
<1>9. ASSUME \/ ExitThread(t)
             \/ \E s \in Semaphores, n \in ReleaseCounts : ReleaseSemaphore(t, s, n)
             \/ \E e \in Events : SignalEvent(t, e)
      PROVE  Plain(todo')
  BY <1>9, PlainFrame DEF ExitThread, ReleaseSemaphore, SignalEvent, EventSignal
<1>10. ASSUME \/ \E x \in Threads : CreateThread(t, x)
              \/ \E ns \in Delays : SleepThread(t, ns)
              \/ \E e \in Signals : ClearSignal(t, e)
              \/ \E tm \in Timers : CancelTimer(t, tm)
       PROVE  Plain(todo')
  BY <1>1, <1>10, EmptyPlain DEF CreateThread, SleepThread, ClearSignal, CancelTimer
<1>11. QED
  BY <1>1, <1>3, <1>4, <1>5, <1>6, <1>7, <1>8, <1>9, <1>10 DEF ThreadCall

-----------------------------------------------------------------------------
(* Ownership.  Inside a handler a stopped thread may still list mutexes that ReleaseThreadMutexes    *)
(* has given away already; it then still has its ReleaseMutexes frame to come.                       *)

LockedIffHeld == \A m \in Mutexes : lock_count[m] = 0 <=> holding_thread[m] = Null
HolderLists == \A m \in Mutexes, t \in Threads : holding_thread[m] = t => m \in held_mutexes[t]
ListedIsHeld ==
  \A m \in Mutexes, t \in Threads : m \in held_mutexes[t] /\ holding_thread[m] # t => Releasing(t)
OwnershipInv == LockedIffHeld /\ HolderLists /\ ListedIsHeld

(* A step that leaves the mutexes alone and drops no request to release keeps OwnershipInv. *)
LEMMA OwnershipKept ==
  ASSUME OwnershipInv, UNCHANGED mutex_vars, \A t \in Threads : Releasing(t) => Releasing(t)'
  PROVE  OwnershipInv'
<1>1. lock_count' = lock_count /\ holding_thread' = holding_thread /\ held_mutexes' = held_mutexes
  BY DEF mutex_vars
<1>2. LockedIffHeld' /\ HolderLists'
  BY <1>1 DEF OwnershipInv, LockedIffHeld, HolderLists
<1>3. ListedIsHeld'
  BY <1>1 DEF OwnershipInv, ListedIsHeld
<1>4. QED
  BY <1>2, <1>3 DEF OwnershipInv

(* With no call outstanding nobody is releasing. *)
LEMMA NobodyReleasing ==
  ASSUME todo = <<>>
  PROVE  \A t \in Threads : ~Releasing(t)
BY DEF Releasing, Range

(* Acquire makes a thread the owner of a free mutex, or counts one more lock of its own. *)
LEMMA AcquireOwnership ==
  ASSUME TypeOK, OwnershipInv, RunFrame, NEW t \in Threads, NEW o \in Objects,
         Head(todo).fn = "Acquire", Acquire(t, o)
  PROVE  OwnershipInv'
<1>1. \A u \in Threads : Releasing(u) => Releasing(u)'
  BY AllReleasingKept
<1>2. CASE ~(o \in Mutexes /\ AcquireMutex(o, t))
  <2>1. UNCHANGED mutex_vars
    BY <1>2 DEF Acquire, AcquireSemaphore, AcquireSignal, AcquireThread
  <2>2. QED
    BY <1>1, <2>1, OwnershipKept
<1>3. CASE o \in Mutexes /\ AcquireMutex(o, t) /\ lock_count[o] # 0
  <2>1. /\ lock_count' = [lock_count EXCEPT ![o] = @ + 1]
        /\ holding_thread' = holding_thread /\ held_mutexes' = held_mutexes
    BY <1>3 DEF AcquireMutex
  <2>2. lock_count \in [Mutexes -> Nat]
    BY DEF TypeOK
  <2>3. LockedIffHeld'
    <3> SUFFICES ASSUME NEW m \in Mutexes
                 PROVE  lock_count'[m] = 0 <=> holding_thread'[m] = Null
      BY DEF LockedIffHeld
    <3>1. lock_count[m] = 0 <=> holding_thread[m] = Null
      BY DEF OwnershipInv, LockedIffHeld
    <3>2. lock_count'[m] = IF m = o THEN lock_count[m] + 1 ELSE lock_count[m]
      BY <2>1, <2>2
    <3>3. lock_count[m] \in Nat
      BY <2>2
    <3>4. QED
      BY <1>3, <2>1, <3>1, <3>2, <3>3
  <2>4. HolderLists' /\ ListedIsHeld'
    BY <1>1, <2>1 DEF OwnershipInv, HolderLists, ListedIsHeld
  <2>5. QED
    BY <2>3, <2>4 DEF OwnershipInv
<1>4. CASE o \in Mutexes /\ AcquireMutex(o, t) /\ lock_count[o] = 0
  <2>1. /\ lock_count' = [lock_count EXCEPT ![o] = @ + 1]
        /\ held_mutexes' = [held_mutexes EXCEPT ![t] = @ \cup {o}]
        /\ holding_thread' = [holding_thread EXCEPT ![o] = t]
    BY <1>4 DEF AcquireMutex
  <2>2. /\ lock_count \in [Mutexes -> Nat] /\ held_mutexes \in [Threads -> SUBSET Mutexes]
        /\ holding_thread \in [Mutexes -> Threads \cup {Null}]
    BY DEF TypeOK
  <2>3. t # Null
    BY ObjectsAssumption DEF Objects
  <2>4. /\ \A m \in Mutexes : holding_thread'[m] = IF m = o THEN t ELSE holding_thread[m]
        /\ \A m \in Mutexes : lock_count'[m] = IF m = o THEN 1 ELSE lock_count[m]
        /\ \A u \in Threads : held_mutexes'[u] = IF u = t THEN held_mutexes[t] \cup {o} ELSE held_mutexes[u]
    BY <1>4, <2>1, <2>2
  <2>5. holding_thread[o] = Null
    BY <1>4 DEF OwnershipInv, LockedIffHeld
  <2>6. LockedIffHeld'
    BY <2>3, <2>4 DEF OwnershipInv, LockedIffHeld
  <2>7. HolderLists'
    BY <2>4 DEF OwnershipInv, HolderLists
  <2>8. ListedIsHeld'
    <3> SUFFICES ASSUME NEW m \in Mutexes, NEW u \in Threads,
                        m \in held_mutexes'[u], holding_thread'[m] # u
                 PROVE  Releasing(u)'
      BY DEF ListedIsHeld
    <3>1. m \in held_mutexes[u]
      BY <2>4
    <3>2. holding_thread[m] # u
      BY <2>4, <2>5, ObjectsAssumption DEF Objects
    <3>3. QED
      BY <1>1, <3>1, <3>2 DEF OwnershipInv, ListedIsHeld
  <2>9. QED
    BY <2>6, <2>7, <2>8 DEF OwnershipInv
<1>5. QED
  BY <1>2, <1>3, <1>4

(* ReleaseThreadMutexes gives the mutexes of a thread away one by one and forgets them at the end. *)
LEMMA ReleaseThreadMutexesOwnership ==
  ASSUME TypeOK, OwnershipInv, RunFrame, NEW t \in Threads,
         Head(todo) = Frame("ReleaseMutexes", t, Null), ReleaseThreadMutexes(t)
  PROVE  OwnershipInv'
<1>1. \A u \in Threads \ {t} : Releasing(u) => Releasing(u)'
  <2>1. \A u \in Threads \ {t} : Head(todo) # Frame("ReleaseMutexes", u, Null)
    BY DEF Frame
  <2>2. QED
    BY <2>1, ReleasingKept
<1>2. /\ lock_count \in [Mutexes -> Nat] /\ held_mutexes \in [Threads -> SUBSET Mutexes]
      /\ holding_thread \in [Mutexes -> Threads \cup {Null}]
  BY DEF TypeOK
<1>3. CASE \E m \in held_mutexes[t] :
             /\ holding_thread[m] = t
             /\ lock_count' = [lock_count EXCEPT ![m] = 0]
             /\ holding_thread' = [holding_thread EXCEPT ![m] = Null]
             /\ CallAgain(<<Frame("Wake", Null, m)>>)
             /\ UNCHANGED held_mutexes
  <2>1. PICK m \in held_mutexes[t] :
             /\ holding_thread[m] = t
             /\ lock_count' = [lock_count EXCEPT ![m] = 0]
             /\ holding_thread' = [holding_thread EXCEPT ![m] = Null]
             /\ todo' = <<Frame("Wake", Null, m)>> \o todo
             /\ held_mutexes' = held_mutexes
    BY <1>3 DEF CallAgain
  <2>2. m \in Mutexes
    BY <1>2
  <2>3. Releasing(t)'
    <3>1. todo # <<>> /\ todo \in Seq(Frames) /\ <<Frame("Wake", Null, m)>> \in Seq(Frames)
      BY <2>2, FrameType DEF RunFrame, TypeOK, Objects
    <3>2. Range(<<Frame("Wake", Null, m)>> \o todo) = Range(<<Frame("Wake", Null, m)>>) \cup Range(todo)
      BY <3>1, RangeConcat, ZenonT(30)
    <3>3. Head(todo) \in Range(todo)
      BY <3>1, RangeTail
    <3>4. QED
      BY <2>1, <3>2, <3>3 DEF Releasing
  <2>4. /\ \A k \in Mutexes : holding_thread'[k] = IF k = m THEN Null ELSE holding_thread[k]
        /\ \A k \in Mutexes : lock_count'[k] = IF k = m THEN 0 ELSE lock_count[k]
    BY <1>2, <2>1, <2>2
  <2>5. LockedIffHeld'
    BY <2>4 DEF OwnershipInv, LockedIffHeld
  <2>6. HolderLists'
    BY <2>1, <2>4, ObjectsAssumption DEF OwnershipInv, HolderLists, Objects
  <2>7. ListedIsHeld'
    <3> SUFFICES ASSUME NEW k \in Mutexes, NEW u \in Threads,
                        k \in held_mutexes'[u], holding_thread'[k] # u
                 PROVE  Releasing(u)'
      BY DEF ListedIsHeld
    <3>1. CASE u = t
      BY <2>3, <3>1
    <3>2. CASE u # t
      <4>1. holding_thread[k] # u /\ k \in held_mutexes[u]
        BY <2>1, <2>4, <3>2
      <4>2. QED
        BY <1>1, <3>2, <4>1 DEF OwnershipInv, ListedIsHeld
    <3>3. QED
      BY <3>1, <3>2
  <2>8. QED
    BY <2>5, <2>6, <2>7 DEF OwnershipInv
<1>4. CASE /\ \A m \in held_mutexes[t] : holding_thread[m] # t
           /\ held_mutexes' = [held_mutexes EXCEPT ![t] = {}]
           /\ UNCHANGED <<lock_count, holding_thread>>
  <2>1. \A u \in Threads : held_mutexes'[u] = IF u = t THEN {} ELSE held_mutexes[u]
    BY <1>2, <1>4
  <2>2. LockedIffHeld'
    BY <1>4 DEF OwnershipInv, LockedIffHeld
  <2>3. HolderLists'
    BY <1>4, <2>1 DEF OwnershipInv, HolderLists
  <2>4. ListedIsHeld'
    BY <1>1, <1>4, <2>1 DEF OwnershipInv, ListedIsHeld
  <2>5. QED
    BY <2>2, <2>3, <2>4 DEF OwnershipInv
<1>5. QED
  BY <1>3, <1>4 DEF ReleaseThreadMutexes

(* SVC ReleaseMutex gives the mutex away with the last lock. *)
LEMMA ReleaseMutexOwnership ==
  ASSUME TypeOK, OwnershipInv, NEW t \in Threads, NEW m \in Mutexes, ReleaseMutex(t, m)
  PROVE  OwnershipInv'
<1>1. todo = <<>> /\ holding_thread[m] = t /\ lock_count[m] > 0
      /\ lock_count' = [lock_count EXCEPT ![m] = @ - 1]
  BY DEF ReleaseMutex, Svc
<1>2. /\ lock_count \in [Mutexes -> Nat] /\ held_mutexes \in [Threads -> SUBSET Mutexes]
      /\ holding_thread \in [Mutexes -> Threads \cup {Null}]
  BY DEF TypeOK
<1>3. \A k \in Mutexes, u \in Threads : k \in held_mutexes[u] => holding_thread[k] = u
  BY <1>1, NobodyReleasing DEF OwnershipInv, ListedIsHeld
<1>4. \A k \in Mutexes : lock_count'[k] = IF k = m THEN lock_count[m] - 1 ELSE lock_count[k]
  BY <1>1, <1>2
<1>5. CASE lock_count[m] = 1
  <2>1. /\ held_mutexes' = [held_mutexes EXCEPT ![t] = @ \ {m}]
        /\ holding_thread' = [holding_thread EXCEPT ![m] = Null]
    BY <1>5 DEF ReleaseMutex
  <2>2. /\ \A k \in Mutexes : holding_thread'[k] = IF k = m THEN Null ELSE holding_thread[k]
        /\ \A u \in Threads : held_mutexes'[u] = IF u = t THEN held_mutexes[t] \ {m} ELSE held_mutexes[u]
    BY <1>2, <2>1
  <2>3. LockedIffHeld'
    BY <1>4, <1>5, <2>2 DEF OwnershipInv, LockedIffHeld
  <2>4. HolderLists'
    BY <1>1, <2>2, ObjectsAssumption DEF OwnershipInv, HolderLists, Objects
  <2>5. ListedIsHeld'
    BY <1>1, <1>3, <2>2 DEF ListedIsHeld
  <2>6. QED
    BY <2>3, <2>4, <2>5 DEF OwnershipInv
<1>6. CASE lock_count[m] # 1
  <2>1. held_mutexes' = held_mutexes /\ holding_thread' = holding_thread
    BY <1>6 DEF ReleaseMutex
  <2>2. LockedIffHeld'
    <3> SUFFICES ASSUME NEW k \in Mutexes
                 PROVE  lock_count'[k] = 0 <=> holding_thread'[k] = Null
      BY DEF LockedIffHeld
    <3>1. lock_count[k] \in Nat /\ (lock_count[k] = 0 <=> holding_thread[k] = Null)
      BY <1>2 DEF OwnershipInv, LockedIffHeld
    <3>2. QED
      BY <1>1, <1>4, <1>6, <2>1, <3>1
  <2>3. HolderLists' /\ ListedIsHeld'
    BY <1>3, <2>1 DEF OwnershipInv, HolderLists, ListedIsHeld
  <2>4. QED
    BY <2>2, <2>3 DEF OwnershipInv
<1>7. QED
  BY <1>5, <1>6

(* At the start no mutex is locked. *)
LEMMA InitOwnership == Init => OwnershipInv
<1> SUFFICES ASSUME Init PROVE OwnershipInv
  OBVIOUS
<1>1. /\ lock_count = [m \in Mutexes |-> 0] /\ holding_thread = [m \in Mutexes |-> Null]
      /\ held_mutexes = [t \in Threads |-> {}]
  BY DEF Init
<1>2. LockedIffHeld
  BY <1>1 DEF LockedIffHeld
<1>3. HolderLists
  BY <1>1, ObjectsAssumption DEF HolderLists, Objects
<1>4. ListedIsHeld
  BY <1>1 DEF ListedIsHeld
<1>5. QED
  BY <1>2, <1>3, <1>4 DEF OwnershipInv

(* Only Acquire, ReleaseThreadMutexes and the SVC ReleaseMutex change who holds a mutex. *)
LEMMA FrameOwnership ==
  ASSUME TypeOK, OwnershipInv, RunFrame
  PROVE  OwnershipInv'
<1> DEFINE f == Head(todo)
<1>1. todo # <<>> /\ f \in Frames
  BY TailType DEF RunFrame, TypeOK
<1>2. CASE f.fn = "Acquire" /\ Acquire(f.thr, f.obj)
  <2>1. f.thr \in Threads /\ f.obj \in Objects
    BY <1>1, <1>2, FrameArguments
  <2>2. QED
    BY <1>2, <2>1, AcquireOwnership
<1>3. CASE f.fn = "ReleaseMutexes" /\ ReleaseThreadMutexes(f.thr)
  <2>1. f.thr \in Threads
    BY <1>1, <1>3, FrameArguments
  <2>2. f = Frame("ReleaseMutexes", f.thr, Null)
    BY <1>1, <1>3 DEF Frames, Frame
  <2>3. QED
    BY <1>3, <2>1, <2>2, ReleaseThreadMutexesOwnership
<1>4. CASE f.fn # "ReleaseMutexes" /\ UNCHANGED mutex_vars
  BY <1>4, AllReleasingKept, OwnershipKept
<1>5. QED
  BY <1>2, <1>3, <1>4
     DEF RunFrame, AddWaitingThread, RemoveWaitingThread, WakeupAllWaitingThreads, Wakeup, Resume,
         Rearm, UpdatePendingMutex, Stop, TerminateProcessThreads, Reschedule

(* Every step keeps OwnershipInv. *)
LEMMA NextOwnership ==
  ASSUME TypeOK, OwnershipInv, [Next]_vars
  PROVE  OwnershipInv'
<1>1. CASE RunFrame
  BY <1>1, FrameOwnership
<1>2. CASE todo = <<>> /\ UNCHANGED mutex_vars
  BY <1>2, NobodyReleasing, OwnershipKept
<1>3. CASE RunLoop
  <2>1. todo = <<>>
    BY <1>3, RunLoopPlain
  <2>2. UNCHANGED mutex_vars
    BY <1>3 DEF RunLoop, StartIteration, AdvanceDone, StartSlice, EndSlice, RescheduleAll,
                ThreadWakeupCallback, TimerCallback, ServiceSignal, EventSignal
  <2>3. QED
    BY <1>2, <2>1, <2>2
<1>4. ASSUME NEW t \in Threads, ThreadCall(t) PROVE OwnershipInv'
  <2>1. CASE \E m \in Mutexes : ReleaseMutex(t, m)
    BY <2>1, ReleaseMutexOwnership
  <2>2. CASE ~\E m \in Mutexes : ReleaseMutex(t, m)
    <3>1. todo = <<>>
      BY <1>4, ThreadCallPlain
    <3>2. UNCHANGED mutex_vars
      BY <1>4, <2>2
         DEF ThreadCall, CreateThread, ExitThread, TerminateProcess, SetThreadPriority,
             WaitSynchronization1, WaitSynchronizationN, WaitUnchanged, SleepThread,
             ReleaseSemaphore, SignalEvent, EventSignal, ClearSignal, SetTimer, CancelTimer
    <3>3. QED
      BY <1>2, <3>1, <3>2
  <2>3. QED
    BY <2>1, <2>2
<1>5. CASE UNCHANGED vars
  <2>1. UNCHANGED mutex_vars /\ todo' = todo
    BY <1>5 DEF vars
  <2>2. \A t \in Threads : Releasing(t) => Releasing(t)'
    BY <2>1 DEF Releasing
  <2>3. QED
    BY <2>1, <2>2, OwnershipKept
<1>6. QED
  BY <1>1, <1>3, <1>4, <1>5 DEF Next

(* Between handlers a mutex is locked exactly by the one thread whose held_mutexes names it: no      *)
(* sequence of Acquire, ReleaseMutex, ExitThread and TerminateProcess leaves a mutex locked without *)
(* an owner, owned by two threads, or listed by a thread that does not own it.                      *)
THEOREM MutexesOwned == Spec => []MutexOwnership
<1>1. Init => OwnershipInv
  BY InitOwnership
<1>2. TypeOK /\ OwnershipInv /\ [Next]_vars => OwnershipInv'
  BY NextOwnership
<1>3. OwnershipInv => MutexOwnership
  <2> SUFFICES ASSUME OwnershipInv, todo = <<>>, NEW m \in Mutexes
               PROVE  /\ lock_count[m] = 0 <=> holding_thread[m] = Null
                      /\ \A t \in Threads : m \in held_mutexes[t] <=> holding_thread[m] = t
    BY DEF MutexOwnership
  <2>1. lock_count[m] = 0 <=> holding_thread[m] = Null
    BY DEF OwnershipInv, LockedIffHeld
  <2>2. \A t \in Threads : m \in held_mutexes[t] <=> holding_thread[m] = t
    BY NobodyReleasing DEF OwnershipInv, HolderLists, ListedIsHeld
  <2>3. QED
    BY <2>1, <2>2
<1>4. QED
  BY <1>1, <1>2, <1>3, TypeCorrect, PTL DEF Spec

-----------------------------------------------------------------------------
(* Priority inheritance.  A thread is alive when it is in thread_list or not created yet: a stopped  *)
(* thread no longer follows the priorities of the mutexes it gives away.                             *)

Alive(t) == t \in listed \/ status[t] = "Unborn"
ReleasingIsStopped == \A t \in Threads : Releasing(t) => ~Alive(t)
Inherits(t) == current_priority[t] = BestPriority(nominal_priority[t], held_mutexes[t], priority)
InheritanceInv == ReleasingIsStopped /\ \A t \in Threads : Alive(t) => Inherits(t)

(* The best priority depends only on the priorities of the held mutexes. *)
LEMMA BestPrioritySame ==
  ASSUME NEW n, NEW held, NEW p, NEW q, \A m \in held : p[m] = q[m]
  PROVE  BestPriority(n, held, p) = BestPriority(n, held, q)
<1>1. {p[m] : m \in held} = {q[m] : m \in held}
  OBVIOUS
<1>2. QED
  BY <1>1 DEF BestPriority

(* No step brings a stopped thread back to thread_list. *)
LEMMA FrameAlive ==
  ASSUME TypeOK, RunFrame
  PROVE  \A t \in Threads : Alive(t)' => Alive(t)
<1> DEFINE f == Head(todo)
<1>1. status \in [Threads -> ThreadStatus]
  BY DEF TypeOK
<1>2. CASE UNCHANGED <<status, listed>>
  BY <1>2 DEF Alive
<1>3. CASE ResumeFromWait(f.thr) /\ UNCHANGED listed
  BY <1>1, <1>3 DEF ResumeFromWait, Alive
<1>4. CASE f.fn = "Stop" /\ Stop(f.thr)
  <2>1. status' = [status EXCEPT ![f.thr] = "Dead"] /\ listed' = listed \ {f.thr}
    BY <1>4 DEF Stop
  <2>2. QED
    BY <1>1, <2>1 DEF Alive
<1>5. CASE f.fn = "Reschedule" /\ Reschedule(f.obj)
  <2>1. listed' = listed
    BY <1>5 DEF Reschedule
  <2>2. CASE UNCHANGED status
    BY <1>2, <2>1, <2>2
  <2>3. ASSUME NEW p, SwitchTo(f.obj, p) PROVE \A t \in Threads : Alive(t)' => Alive(t)
    <3>1. \A t \in Threads : status'[t] \in {"Running", "Ready", status[t]}
      BY <2>3 DEF SwitchTo
    <3>2. QED
      BY <2>1, <3>1 DEF Alive
  <2>4. QED
    BY <1>5, <2>2, <2>3 DEF Reschedule, StayOrIdle
<1>6. QED
  BY <1>2, <1>3, <1>4, <1>5
     DEF RunFrame, Acquire, AddWaitingThread, RemoveWaitingThread, WakeupAllWaitingThreads, Wakeup,
         Resume, Rearm, UpdatePendingMutex, ReleaseThreadMutexes, TerminateProcessThreads,
         thread_vars

(* A stopped thread is taken off thread_list before ReleaseThreadMutexes is asked for. *)
LEMMA FrameReleasingIsStopped ==
  ASSUME TypeOK, ReleasingIsStopped, RunFrame
  PROVE  ReleasingIsStopped'
<1> SUFFICES ASSUME NEW t \in Threads, Releasing(t)' PROVE ~Alive(t)'
  BY DEF ReleasingIsStopped
<1>1. CASE Releasing(t)
  BY <1>1, FrameAlive DEF ReleasingIsStopped
<1>2. CASE Head(todo).fn = "Stop" /\ Head(todo).thr = t
  <2>1. Stop(t)
    BY <1>2 DEF RunFrame
  <2>2. status' = [status EXCEPT ![t] = "Dead"] /\ listed' = listed \ {t}
    BY <2>1 DEF Stop
  <2>3. status \in [Threads -> ThreadStatus]
    BY DEF TypeOK
  <2>4. QED
    BY <2>2, <2>3 DEF Alive
<1>3. QED
  BY <1>1, <1>2, ReleasingNew

(* Mutex::UpdatePriority gives the owner of m its new priority; a thread that merely still lists m    *)
(* is a stopped one.                                                                                 *)
LEMMA UpdateInherits ==
  ASSUME TypeOK, OwnershipInv, InheritanceInv, NEW m \in Mutexes, NEW waiters \in Seq(Threads),
         MutexUpdatePriority(m, waiters), UNCHANGED <<nominal_priority, held_mutexes>>
  PROVE  \A t \in Threads : Alive(t) => Inherits(t)'
<1> SUFFICES ASSUME NEW t \in Threads, Alive(t) PROVE Inherits(t)'
  OBVIOUS
<1> DEFINE h == holding_thread[m]
<1>1. Inherits(t)
  BY DEF InheritanceInv
<1>2. CASE UNCHANGED prio_vars
  BY <1>1, <1>2 DEF prio_vars, Inherits
<1>3. CASE ~UNCHANGED prio_vars
  <2>1. PICK best : /\ h # Null
                    /\ priority' = [priority EXCEPT ![m] = best]
                    /\ BoostPriority(h, BestPriority(nominal_priority[h], held_mutexes[h], priority'))
    BY <1>3 DEF MutexUpdatePriority
  <2>2. h \in Threads /\ current_priority \in [Threads -> Priorities] /\ priority \in [Mutexes -> Priorities]
        /\ held_mutexes \in [Threads -> SUBSET Mutexes]
    BY <2>1 DEF TypeOK
  <2>3. current_priority' = [current_priority EXCEPT ![h] =
                               BestPriority(nominal_priority[h], held_mutexes[h], priority')]
    BY <2>1 DEF BoostPriority
  <2>4. CASE t = h
    BY <2>2, <2>3, <2>4 DEF Inherits
  <2>5. CASE t # h
    <3>1. m \notin held_mutexes[t]
      BY <2>5 DEF OwnershipInv, ListedIsHeld, InheritanceInv, ReleasingIsStopped
    <3>2. \A k \in held_mutexes[t] : priority'[k] = priority[k]
      BY <2>1, <2>2, <3>1
    <3>3. BestPriority(nominal_priority[t], held_mutexes[t], priority')
            = BestPriority(nominal_priority[t], held_mutexes[t], priority)
      BY <3>2, BestPrioritySame
    <3>4. current_priority'[t] = current_priority[t]
      BY <2>2, <2>3, <2>5
    <3>5. QED
      BY <1>1, <3>3, <3>4 DEF Inherits
  <2>6. QED
    BY <2>4, <2>5
<1>4. QED
  BY <1>2, <1>3

(* A thread that acquires a free mutex takes its priority into account; the others do not hold it. *)
LEMMA AcquireInherits ==
  ASSUME TypeOK, OwnershipInv, InheritanceInv, NEW t \in Threads, NEW o \in Objects, Acquire(t, o)
  PROVE  \A u \in Threads : Alive(u) => Inherits(u)'
<1> SUFFICES ASSUME NEW u \in Threads, Alive(u) PROVE Inherits(u)'
  OBVIOUS
<1>1. Inherits(u)
  BY DEF InheritanceInv
<1>2. nominal_priority' = nominal_priority
  BY DEF Acquire, thread_vars
<1>3. CASE UNCHANGED <<current_priority, priority, held_mutexes>>
  BY <1>1, <1>2, <1>3 DEF Inherits
<1>4. CASE o \in Mutexes /\ AcquireMutex(o, t) /\ lock_count[o] = 0
  <2>1. /\ priority' = [priority EXCEPT ![o] = current_priority[t]]
        /\ held_mutexes' = [held_mutexes EXCEPT ![t] = @ \cup {o}]
        /\ current_priority' = [current_priority EXCEPT ![t] =
              BestPriority(nominal_priority[t], held_mutexes'[t], priority')]
    BY <1>4 DEF AcquireMutex, BoostPriority
  <2>2. current_priority \in [Threads -> Priorities] /\ priority \in [Mutexes -> Priorities]
        /\ held_mutexes \in [Threads -> SUBSET Mutexes]
    BY DEF TypeOK
  <2>3. CASE u = t
    BY <1>2, <2>1, <2>2, <2>3 DEF Inherits
  <2>4. CASE u # t
    <3>1. holding_thread[o] # u
      BY <1>4, ObjectsAssumption DEF OwnershipInv, LockedIffHeld, Objects
    <3>2. o \notin held_mutexes[u]
      BY <1>4, <3>1 DEF OwnershipInv, ListedIsHeld, InheritanceInv, ReleasingIsStopped
    <3>3. \A k \in held_mutexes[u] : priority'[k] = priority[k]
      BY <2>1, <2>2, <3>2
    <3>4. BestPriority(nominal_priority[u], held_mutexes[u], priority')
            = BestPriority(nominal_priority[u], held_mutexes[u], priority)
      BY <3>3, BestPrioritySame
    <3>5. current_priority'[u] = current_priority[u] /\ held_mutexes'[u] = held_mutexes[u]
      BY <2>1, <2>2, <2>4
    <3>6. QED
      BY <1>1, <1>2, <3>4, <3>5 DEF Inherits
  <2>5. QED
    BY <2>3, <2>4
<1>5. QED
  BY <1>3, <1>4
     DEF Acquire, AcquireMutex, AcquireSemaphore, AcquireSignal, AcquireThread, prio_vars, mutex_vars

(* Every pending call keeps InheritanceInv. *)
LEMMA FrameInheritance ==
  ASSUME TypeOK, OwnershipInv, InheritanceInv, RunFrame
  PROVE  InheritanceInv'
<1> DEFINE f == Head(todo)
<1>1. todo # <<>> /\ f \in Frames
  BY TailType DEF RunFrame, TypeOK
<1>2. ReleasingIsStopped' /\ \A t \in Threads : Alive(t)' => Alive(t)
  BY FrameReleasingIsStopped, FrameAlive DEF InheritanceInv
<1>3. SUFFICES \A t \in Threads : Alive(t)' => Inherits(t)'
  BY <1>2 DEF InheritanceInv
<1>4. CASE UNCHANGED <<current_priority, nominal_priority, priority, held_mutexes>>
  BY <1>2, <1>4 DEF InheritanceInv, Inherits
<1>5. CASE f.fn = "Acquire" /\ Acquire(f.thr, f.obj)
  <2>1. f.thr \in Threads /\ f.obj \in Objects
    BY <1>1, <1>5, FrameArguments
  <2>2. QED
    BY <1>2, <1>5, <2>1, AcquireInherits
<1>6. CASE \E waiters \in Seq(Threads) : /\ f.obj \in Mutexes /\ MutexUpdatePriority(f.obj, waiters)
                                         /\ UNCHANGED <<nominal_priority, held_mutexes>>
  BY <1>2, <1>6, UpdateInherits
<1>7. CASE f.fn = "AddWaiting" /\ AddWaitingThread(f.thr, f.obj)
  <2>1. f.thr \in Threads /\ f.obj \in Objects
    BY <1>1, <1>7, FrameArguments
  <2> DEFINE ws == IF f.thr \in Range(waiting_threads[f.obj]) THEN waiting_threads[f.obj]
                   ELSE Append(waiting_threads[f.obj], f.thr)
  <2>2. ws \in Seq(Threads)
    BY <2>1 DEF TypeOK
  <2>3. UNCHANGED <<nominal_priority, held_mutexes>>
    BY <1>7 DEF AddWaitingThread, thread_vars, mutex_vars
  <2>4. IF f.obj \in Mutexes THEN MutexUpdatePriority(f.obj, ws) ELSE UNCHANGED prio_vars
    BY <1>7 DEF AddWaitingThread
  <2>5. CASE f.obj \in Mutexes
    BY <1>6, <2>2, <2>3, <2>4, <2>5
  <2>6. CASE f.obj \notin Mutexes
    BY <1>4, <2>3, <2>4, <2>6 DEF prio_vars
  <2>7. QED
    BY <2>5, <2>6
<1>8. CASE f.fn = "RemoveWaiting" /\ RemoveWaitingThread(f.thr, f.obj)
  <2>1. f.thr \in Threads /\ f.obj \in Objects
    BY <1>1, <1>8, FrameArguments
  <2> DEFINE ws == RemoveFirst(waiting_threads[f.obj], f.thr)
  <2>2. ws \in Seq(Threads)
    <3>1. waiting_threads[f.obj] \in Seq(Threads)
      BY <2>1 DEF TypeOK
    <3>2. QED
      BY <3>1, RemoveFirstType
  <2>3. UNCHANGED <<nominal_priority, held_mutexes>>
    BY <1>8 DEF RemoveWaitingThread, thread_vars, mutex_vars
  <2>4. IF f.obj \in Mutexes THEN MutexUpdatePriority(f.obj, ws) ELSE UNCHANGED prio_vars
    BY <1>8 DEF RemoveWaitingThread
  <2>5. CASE f.obj \in Mutexes
    BY <1>6, <2>2, <2>3, <2>4, <2>5
  <2>6. CASE f.obj \notin Mutexes
    BY <1>4, <2>3, <2>4, <2>6 DEF prio_vars
  <2>7. QED
    BY <2>5, <2>6
<1>9. CASE f.fn = "UpdatePriority" /\ UpdatePendingMutex(f.obj)
  <2>1. f.obj \in Mutexes
    BY <1>1, <1>9, FrameArguments
  <2>2. waiting_threads[f.obj] \in Seq(Threads)
    BY <2>1 DEF TypeOK, Objects
  <2>3. MutexUpdatePriority(f.obj, waiting_threads[f.obj]) /\ UNCHANGED <<nominal_priority, held_mutexes>>
    BY <1>9 DEF UpdatePendingMutex, thread_vars, mutex_vars
  <2>4. QED
    BY <1>6, <2>1, <2>2, <2>3
<1>10. CASE f.fn = "ReleaseMutexes" /\ ReleaseThreadMutexes(f.thr)
  <2>1. f.thr \in Threads
    BY <1>1, <1>10, FrameArguments
  <2>2. ~Alive(f.thr)
    <3>1. f = Frame("ReleaseMutexes", f.thr, Null)
      BY <1>1, <1>10 DEF Frames, Frame
    <3>2. f \in Range(todo)
      <4>1. todo \in Seq(Frames)
        BY DEF TypeOK
      <4>2. QED
        BY <1>1, <4>1, RangeTail
    <3>3. QED
      BY <2>1, <3>1, <3>2 DEF Releasing, InheritanceInv, ReleasingIsStopped
  <2>3. UNCHANGED <<current_priority, nominal_priority, priority>>
    BY <1>10 DEF ReleaseThreadMutexes, thread_vars, prio_vars
  <2>4. \A t \in Threads : t # f.thr => held_mutexes'[t] = held_mutexes[t]
    <3>1. held_mutexes \in [Threads -> SUBSET Mutexes]
      BY DEF TypeOK
    <3>2. QED
      BY <1>10, <3>1 DEF ReleaseThreadMutexes
  <2>5. QED
    BY <1>2, <2>2, <2>3, <2>4 DEF InheritanceInv, Inherits
<1>11. QED
  BY <1>4, <1>5, <1>7, <1>8, <1>9, <1>10
     DEF RunFrame, WakeupAllWaitingThreads, Wakeup, Resume, Rearm, Stop, TerminateProcessThreads,
         Reschedule, thread_vars, prio_vars, mutex_vars

(* The SVCs and the events: nobody is being stopped when they start, nor after their first step. *)
LEMMA CallInheritance ==
  ASSUME TypeOK, InheritanceInv, Plain(todo'),
         \A t \in Threads : Alive(t)' => Alive(t),
         \A t \in Threads : Alive(t) => Inherits(t)'
  PROVE  InheritanceInv'
<1>1. \A t \in Threads : ~Releasing(t)'
  BY DEF Plain, Releasing, Frame
<1>2. QED
  BY <1>1 DEF InheritanceInv, ReleasingIsStopped

(* Every SVC keeps InheritanceInv. *)
LEMMA ThreadCallInheritance ==
  ASSUME TypeOK, InheritanceInv, NEW t \in Threads, ThreadCall(t)
  PROVE  InheritanceInv'
<1>1. Plain(todo')
  BY ThreadCallPlain
<1>2. /\ status \in [Threads -> ThreadStatus] /\ current_priority \in [Threads -> Priorities]
      /\ nominal_priority \in [Threads -> Priorities] /\ held_mutexes \in [Threads -> SUBSET Mutexes]
  BY DEF TypeOK
<1>3. ASSUME NEW x \in Threads, NEW st, st # "Unborn", status' = [status EXCEPT ![x] = st],
             listed' = listed
      PROVE  \A u \in Threads : Alive(u)' => Alive(u)
  BY <1>2, <1>3 DEF Alive
<1>4. ASSUME UNCHANGED <<current_priority, nominal_priority, priority, held_mutexes>>
      PROVE  \A u \in Threads : Alive(u) => Inherits(u)'
  BY <1>4 DEF InheritanceInv, Inherits
<1>5. ASSUME UNCHANGED <<status, listed>> PROVE \A u \in Threads : Alive(u)' => Alive(u)
  BY <1>5 DEF Alive
<1>6. ASSUME NEW x \in Threads, CreateThread(t, x) PROVE InheritanceInv'
  <2>1. status[x] = "Unborn" /\ status' = [status EXCEPT ![x] = "Ready"] /\ listed' = listed \cup {x}
    BY <1>6 DEF CreateThread
  <2>2. \A u \in Threads : Alive(u)' => Alive(u)
    BY <1>2, <2>1 DEF Alive
  <2>3. UNCHANGED <<current_priority, nominal_priority, priority, held_mutexes>>
    BY <1>6 DEF CreateThread, mutex_vars
  <2>4. QED
    BY <1>1, <1>4, <2>2, <2>3, CallInheritance
<1>7. ASSUME NEW x \in Threads, NEW p \in SetPriorities, SetThreadPriority(t, x, p) PROVE InheritanceInv'
  <2>1. /\ UNCHANGED <<status, listed, priority, held_mutexes>>
        /\ nominal_priority' = [nominal_priority EXCEPT ![x] = p]
        /\ current_priority' = [current_priority EXCEPT ![x] = BestPriority(p, held_mutexes[x], priority)]
    BY <1>7 DEF SetThreadPriority, BoostPriority, mutex_vars
  <2>2. \A u \in Threads : Alive(u) => Inherits(u)'
    BY <1>2, <2>1 DEF InheritanceInv, Inherits
  <2>3. QED
    BY <1>1, <1>5, <2>1, <2>2, CallInheritance
<1>8. ASSUME NEW m \in Mutexes, ReleaseMutex(t, m) PROVE InheritanceInv'
  <2>1. UNCHANGED <<status, listed, priority, nominal_priority>>
    BY <1>8 DEF ReleaseMutex, thread_vars
  <2>2. CASE lock_count[m] = 1
    <3>1. /\ held_mutexes' = [held_mutexes EXCEPT ![t] = @ \ {m}]
          /\ current_priority' = [current_priority EXCEPT ![t] =
                BestPriority(nominal_priority[t], held_mutexes'[t], priority)]
      BY <1>8, <2>2 DEF ReleaseMutex, BoostPriority
    <3>2. \A u \in Threads : Alive(u) => Inherits(u)'
      BY <1>2, <2>1, <3>1 DEF InheritanceInv, Inherits
    <3>3. QED
      BY <1>1, <1>5, <2>1, <3>2, CallInheritance
  <2>3. CASE lock_count[m] # 1
    <3>1. UNCHANGED <<held_mutexes, current_priority>>
      BY <1>8, <2>3 DEF ReleaseMutex
    <3>2. QED
      BY <1>1, <1>4, <1>5, <2>1, <3>1, CallInheritance
  <2>4. QED
    BY <2>2, <2>3
<1>9. ASSUME NEW objs, NEW ns,
             \/ AcquireNow(t, objs) \/ TimeoutNow
             \/ \E st \in SyncStatus : Suspend(t, objs, st, ns),
             WaitUnchanged
      PROVE  InheritanceInv'
  <2>1. listed' = listed /\ UNCHANGED <<current_priority, nominal_priority, priority, held_mutexes>>
    BY <1>9 DEF WaitUnchanged, prio_vars, mutex_vars
  <2>2. CASE UNCHANGED status
    BY <1>1, <1>4, <1>5, <2>1, <2>2, CallInheritance
  <2>3. CASE \E st \in SyncStatus : status' = [status EXCEPT ![t] = st]
    BY <1>1, <1>3, <1>4, <2>1, <2>3, CallInheritance DEF SyncStatus
  <2>4. QED
    BY <1>9, <2>2, <2>3 DEF AcquireNow, TimeoutNow, Suspend
<1>10. ASSUME NEW o, NEW ns, WaitSynchronization1(t, o, ns) PROVE InheritanceInv'
  BY <1>9, <1>10 DEF WaitSynchronization1, SyncStatus
<1>11. ASSUME NEW objs, NEW all, NEW ns, WaitSynchronizationN(t, objs, all, ns) PROVE InheritanceInv'
  BY <1>9, <1>11 DEF WaitSynchronizationN, SyncStatus
<1>12. ASSUME NEW ns, SleepThread(t, ns) PROVE InheritanceInv'
  <2>1. /\ status' = [status EXCEPT ![t] = "WaitSleep"] /\ listed' = listed
        /\ UNCHANGED <<current_priority, nominal_priority, priority, held_mutexes>>
    BY <1>12 DEF SleepThread, thread_vars, prio_vars, mutex_vars
  <2>2. QED
    BY <1>1, <1>3, <1>4, <2>1, CallInheritance
<1>13. ASSUME \/ ExitThread(t)
              \/ \E p \in Threads : TerminateProcess(t, p)
              \/ \E s \in Semaphores, n \in ReleaseCounts : ReleaseSemaphore(t, s, n)
              \/ \E e \in Events : SignalEvent(t, e)
              \/ \E e \in Signals : ClearSignal(t, e)
              \/ \E tm \in Timers, initial \in BOOLEAN, interval \in BOOLEAN : SetTimer(t, tm, initial, interval)
              \/ \E tm \in Timers : CancelTimer(t, tm)
       PROVE  InheritanceInv'
  <2>1. UNCHANGED <<status, thread_vars, prio_vars, mutex_vars>>
    BY <1>13 DEF ExitThread, TerminateProcess, ReleaseSemaphore, SignalEvent, EventSignal,
                 ClearSignal, SetTimer, CancelTimer
  <2>2. UNCHANGED <<status, listed, current_priority, nominal_priority, priority, held_mutexes>>
    BY <2>1 DEF thread_vars, prio_vars, mutex_vars
  <2>3. QED
    BY <1>1, <1>4, <1>5, <2>2, CallInheritance
<1>14. QED
  BY <1>6, <1>7, <1>8, <1>10, <1>11, <1>12, <1>13 DEF ThreadCall

(* The run loop and its events leave the priorities alone. *)
LEMMA RunLoopInheritance ==
  ASSUME TypeOK, InheritanceInv, RunLoop
  PROVE  InheritanceInv'
<1>1. Plain(todo')
  BY RunLoopPlain
<1>2. UNCHANGED <<status, nominal_priority, listed, current_priority, priority, held_mutexes>>
  BY DEF RunLoop, StartIteration, AdvanceDone, StartSlice, EndSlice, RescheduleAll,
         ThreadWakeupCallback, TimerCallback, ServiceSignal, EventSignal, thread_vars, prio_vars,
         mutex_vars
<1>3. \A t \in Threads : Alive(t)' => Alive(t)
  BY <1>2 DEF Alive
<1>4. \A t \in Threads : Alive(t) => Inherits(t)'
  BY <1>2 DEF InheritanceInv, Inherits
<1>5. QED
  BY <1>1, <1>3, <1>4, CallInheritance

(* At the start every thread has its nominal priority. *)
LEMMA InitInheritance == Init => InheritanceInv
<1> SUFFICES ASSUME Init PROVE InheritanceInv
  OBVIOUS
<1>1. /\ nominal_priority = InitPriority /\ current_priority = InitPriority /\ todo = <<>>
      /\ held_mutexes = [t \in Threads |-> {}]
  BY DEF Init
<1>2. \A t \in Threads : ~Releasing(t)
  BY <1>1, NobodyReleasing
<1>3. \A t \in Threads : Inherits(t)
  <2> SUFFICES ASSUME NEW t \in Threads PROVE Inherits(t)
    OBVIOUS
  <2>1. InitPriority[t] \in Nat
    BY PrioritiesAssumption DEF Priorities
  <2>2. {nominal_priority[t]} \cup {priority[m] : m \in held_mutexes[t]} = {InitPriority[t]}
    BY <1>1
  <2>3. Min({InitPriority[t]}) = InitPriority[t]
    BY <2>1 DEF Min
  <2>4. QED
    BY <1>1, <2>2, <2>3 DEF Inherits, BestPriority
<1>4. QED
  BY <1>2, <1>3 DEF InheritanceInv, ReleasingIsStopped

(* Every thread in thread_list runs at the best of its nominal priority and the priorities of the     *)
(* mutexes it holds: Acquire, Release, the waiting lists of a mutex and SetThreadPriority all leave   *)
(* BoostPriority and UpdatePriority in agreement, however they are interleaved with ExitThread and    *)
(* TerminateProcess, for any number of threads, mutexes and priorities.                               *)
THEOREM PrioritiesInherited == Spec => []PriorityInherited
<1>1. Init => OwnershipInv /\ InheritanceInv
  BY InitOwnership, InitInheritance
<1>2. ASSUME TypeOK, OwnershipInv, InheritanceInv, [Next]_vars
      PROVE  OwnershipInv' /\ InheritanceInv'
  <2>1. OwnershipInv'
    BY <1>2, NextOwnership
  <2>2. CASE RunFrame
    BY <1>2, <2>1, <2>2, FrameInheritance
  <2>3. CASE RunLoop
    BY <1>2, <2>1, <2>3, RunLoopInheritance
  <2>4. CASE \E t \in Threads : ThreadCall(t)
    BY <1>2, <2>1, <2>4, ThreadCallInheritance
  <2>5. CASE UNCHANGED vars
    <3>1. UNCHANGED <<status, nominal_priority, listed, current_priority, priority, held_mutexes, todo>>
      BY <2>5 DEF vars, thread_vars, prio_vars, mutex_vars
    <3>2. InheritanceInv'
      BY <1>2, <3>1 DEF InheritanceInv, ReleasingIsStopped, Releasing, Alive, Inherits
    <3>3. QED
      BY <2>1, <3>2
  <2>6. QED
    BY <1>2, <2>2, <2>3, <2>4, <2>5 DEF Next
<1>3. TypeOK /\ InheritanceInv => PriorityInherited
  BY DEF TypeOK, InheritanceInv, Alive, Inherits, PriorityInherited
<1>4. QED
  BY <1>1, <1>2, <1>3, TypeCorrect, PTL DEF Spec

-----------------------------------------------------------------------------
(* The ready queues *)

ReadyAt(c, p) == {t \in Threads : status[t] = "Ready" /\ CoreOf[t] = c /\ current_priority[t] = p}
QueuesMatch == \A c \in Cores, p \in Priorities : Lists(ready_queue[c][p], ReadyAt(c, p))

(* Of typed queues, QueuesMatch says what ReadyQueueConsistent says. *)
LEMMA MatchIsConsistent == TypeOK => (QueuesMatch <=> ReadyQueueConsistent)
<1> SUFFICES ASSUME TypeOK, NEW c \in Cores, NEW p \in Priorities
             PROVE  Lists(ready_queue[c][p], ReadyAt(c, p)) <=>
                      /\ IsInjective(ready_queue[c][p])
                      /\ \A t \in Threads :
                           t \in Range(ready_queue[c][p])
                             <=> status[t] = "Ready" /\ CoreOf[t] = c /\ current_priority[t] = p
  BY DEF QueuesMatch, ReadyQueueConsistent
<1>1. ready_queue[c][p] \in Seq(Threads)
  BY DEF TypeOK
<1>2. Range(ready_queue[c][p]) \subseteq Threads
  BY <1>1, ElementOfSeq DEF Range
<1>3. QED
  BY <1>2 DEF Lists, ReadyAt

(* A step that makes no thread ready or unready and moves none keeps the queues right. *)
LEMMA MatchKept ==
  ASSUME QueuesMatch, ready_queue' = ready_queue, current_priority' = current_priority,
         \A t \in Threads : status'[t] = "Ready" <=> status[t] = "Ready"
  PROVE  QueuesMatch'
<1>1. \A c \in Cores, p \in Priorities : ReadyAt(c, p)' = ReadyAt(c, p)
  BY DEF ReadyAt
<1>2. QED
  BY <1>1 DEF QueuesMatch

(* A thread that becomes ready goes to the back of the queue of its priority. *)
LEMMA MatchEnqueue ==
  ASSUME TypeOK, QueuesMatch, NEW x \in Threads, status[x] # "Ready",
         status' = [status EXCEPT ![x] = "Ready"], current_priority' = current_priority,
         ready_queue' = [ready_queue EXCEPT ![CoreOf[x]][current_priority[x]] = Append(@, x)]
  PROVE  QueuesMatch'
<1> DEFINE d == CoreOf[x]
           r == current_priority[x]
<1>1. d \in Cores /\ r \in Priorities
  BY CoresAssumption DEF TypeOK
<1> SUFFICES ASSUME NEW c \in Cores, NEW p \in Priorities
             PROVE  Lists(ready_queue'[c][p], ReadyAt(c, p)')
  BY DEF QueuesMatch
<1>2. ready_queue[c][p] \in Seq(Threads) /\ Lists(ready_queue[c][p], ReadyAt(c, p))
  BY DEF TypeOK, QueuesMatch
<1>3. ready_queue'[c][p] = IF c = d /\ p = r THEN Append(ready_queue[c][p], x) ELSE ready_queue[c][p]
  BY <1>1 DEF TypeOK
<1>4. x \notin ReadyAt(c, p)
  BY DEF ReadyAt
<1>5. ReadyAt(c, p)' = IF c = d /\ p = r THEN ReadyAt(c, p) \cup {x} ELSE ReadyAt(c, p)
  <2>1. \A t \in Threads : status'[t] = IF t = x THEN "Ready" ELSE status[t]
    BY DEF TypeOK
  <2>2. QED
    BY <2>1 DEF ReadyAt
<1>6. QED
  BY <1>2, <1>3, <1>4, <1>5, ListsAppend

(* A ready thread that is stopped leaves its queue. *)
LEMMA MatchDequeue ==
  ASSUME TypeOK, QueuesMatch, NEW x \in Threads, NEW st \in ThreadStatus, st # "Ready",
         status' = [status EXCEPT ![x] = st], current_priority' = current_priority,
         ready_queue' = IF status[x] = "Ready"
                        THEN [ready_queue EXCEPT ![CoreOf[x]][current_priority[x]] = RemoveFirst(@, x)]
                        ELSE ready_queue
  PROVE  QueuesMatch'
<1> DEFINE d == CoreOf[x]
           r == current_priority[x]
<1>1. d \in Cores /\ r \in Priorities
  BY CoresAssumption DEF TypeOK
<1>2. \A t \in Threads : status'[t] = IF t = x THEN st ELSE status[t]
  BY DEF TypeOK
<1>3. CASE status[x] # "Ready"
  BY <1>2, <1>3, MatchKept
<1>4. CASE status[x] = "Ready"
  <2> SUFFICES ASSUME NEW c \in Cores, NEW p \in Priorities
               PROVE  Lists(ready_queue'[c][p], ReadyAt(c, p)')
    BY DEF QueuesMatch
  <2>1. ready_queue[c][p] \in Seq(Threads) /\ Lists(ready_queue[c][p], ReadyAt(c, p))
    BY DEF TypeOK, QueuesMatch
  <2>2. ready_queue'[c][p] = IF c = d /\ p = r THEN RemoveFirst(ready_queue[c][p], x) ELSE ready_queue[c][p]
    BY <1>1, <1>4 DEF TypeOK
  <2>3. ReadyAt(c, p)' = IF c = d /\ p = r THEN ReadyAt(c, p) \ {x} ELSE ReadyAt(c, p)
    BY <1>2 DEF ReadyAt
  <2>4. QED
    BY <2>1, <2>2, <2>3, ListsRemove
<1>5. QED
  BY <1>3, <1>4

(* BoostPriority moves a ready thread to the queue of its new priority, and no other. *)
LEMMA MatchBoost ==
  ASSUME TypeOK, QueuesMatch, NEW x \in Threads, NEW new \in Priorities, BoostPriority(x, new),
         status' = status
  PROVE  QueuesMatch'
<1> DEFINE d == CoreOf[x]
           r == current_priority[x]
           removed == [ready_queue[d] EXCEPT ![r] = RemoveFirst(@, x)]
           moved == [removed EXCEPT ![new] = Append(@, x)]
<1>1. d \in Cores /\ r \in Priorities
  BY CoresAssumption DEF TypeOK
<1>2. \A t \in Threads : current_priority'[t] = IF t = x THEN new ELSE current_priority[t]
  BY DEF TypeOK, BoostPriority
<1> SUFFICES ASSUME NEW c \in Cores, NEW p \in Priorities
             PROVE  Lists(ready_queue'[c][p], ReadyAt(c, p)')
  BY DEF QueuesMatch
<1>3. ready_queue[c][p] \in Seq(Threads) /\ Lists(ready_queue[c][p], ReadyAt(c, p))
  BY DEF TypeOK, QueuesMatch
<1>4. CASE status[x] # "Ready"
  <2>1. ready_queue' = ready_queue
    BY <1>4 DEF BoostPriority
  <2>2. ReadyAt(c, p)' = ReadyAt(c, p)
    BY <1>2, <1>4 DEF ReadyAt
  <2>3. QED
    BY <1>3, <2>1, <2>2
<1>5. CASE status[x] = "Ready" /\ c # d
  <2>1. ready_queue'[c] = ready_queue[c]
    BY <1>1, <1>5 DEF BoostPriority, MoveReady, TypeOK
  <2>2. ReadyAt(c, p)' = ReadyAt(c, p)
    BY <1>2, <1>5 DEF ReadyAt
  <2>3. QED
    BY <1>3, <2>1, <2>2
<1>6. CASE status[x] = "Ready" /\ c = d
  <2> DEFINE left == IF p = r THEN RemoveFirst(ready_queue[c][p], x) ELSE ready_queue[c][p]
             S == ReadyAt(c, p) \ {x}
  <2>1. ready_queue[d] \in [Priorities -> Seq(Threads)]
    BY <1>1 DEF TypeOK
  <2>2. RemoveFirst(ready_queue[d][r], x) \in Seq(Threads)
    BY <1>1, <2>1, RemoveFirstType
  <2>3. removed[p] = left /\ DOMAIN removed = Priorities
    BY <1>1, <1>6, <2>1
  <2>4. ready_queue'[c] = moved
    BY <1>1, <1>6 DEF BoostPriority, MoveReady, TypeOK
  <2>5. ready_queue'[c][p] = IF p = new THEN Append(left, x) ELSE left
    <3> HIDE DEF removed, left
    <3>1. QED
      BY <2>3, <2>4
  <2>6. left \in Seq(Threads)
    BY <1>3, <1>6, <2>2
  <2>7. Lists(left, S)
    <3>1. CASE p = r
      BY <1>3, <3>1, ListsRemove
    <3>2. CASE p # r
      <4>1. x \notin ReadyAt(c, p)
        BY <3>2 DEF ReadyAt
      <4>2. S = ReadyAt(c, p)
        BY <4>1
      <4>3. QED
        BY <1>3, <3>2, <4>2
    <3>3. QED
      BY <3>1, <3>2
  <2>8. ReadyAt(c, p)' = IF p = new THEN S \cup {x} ELSE S
    BY <1>2, <1>6 DEF ReadyAt
  <2> HIDE DEF left, S
  <2>9. x \notin S
    BY DEF S
  <2>10. QED
    BY <2>5, <2>6, <2>7, <2>8, <2>9, ListsAppend
<1>7. QED
  BY <1>4, <1>5, <1>6

(* Mutex::UpdatePriority moves at most the holder of the mutex. *)
LEMMA MatchMutexUpdate ==
  ASSUME TypeOK, QueuesMatch, NEW m \in Mutexes, NEW waiters \in Seq(Threads),
         MutexUpdatePriority(m, waiters), status' = status
  PROVE  QueuesMatch'
<1> DEFINE best == Min({ThreadPrioLowest} \cup {current_priority[w] : w \in Range(waiters)})
           h == holding_thread[m]
<1>1. CASE h = Null \/ best = priority[m]
  BY <1>1, MatchKept DEF MutexUpdatePriority, prio_vars
<1>2. CASE h # Null /\ best # priority[m]
  <2>1. BoostPriority(h, BestPriority(nominal_priority[h], held_mutexes[h], priority'))
    BY <1>2 DEF MutexUpdatePriority
  <2>2. priority' \in [Mutexes -> Priorities]
    BY MutexUpdateType DEF PrioTypeOK
  <2>3. h \in Threads /\ nominal_priority[h] \in Priorities /\ held_mutexes[h] \subseteq Mutexes
    BY <1>2 DEF TypeOK
  <2>4. BestPriority(nominal_priority[h], held_mutexes[h], priority') \in Priorities
    BY <2>2, <2>3, BestPriorityType
  <2>5. QED
    BY <2>1, <2>3, <2>4, MatchBoost
<1>3. QED
  BY <1>1, <1>2

(* SwitchContext: the thread at the head of the chosen queue leaves the queues, and a previous      *)
(* thread that could go on running comes to the front of its own.                                   *)
LEMMA MatchSwitch ==
  ASSUME TypeOK, QueuesMatch, NEW c \in Cores, NEW p \in BetterQueues(c), SwitchTo(c, p),
         current_priority' = current_priority,
         current_thread[c] # Null => CoreOf[current_thread[c]] = c
  PROVE  /\ QueuesMatch'
         /\ Head(ready_queue[c][p]) \in ReadyAt(c, p)
<1> DEFINE cur == current_thread[c]
           next == Head(ready_queue[c][p])
           popped == [ready_queue[c] EXCEPT ![p] = Tail(@)]
           pushed == IF StaysRunnable(c)
                     THEN [popped EXCEPT ![current_priority[cur]] = <<cur>> \o @]
                     ELSE popped
<1>1. p \in Priorities /\ ready_queue[c][p] # <<>>
      /\ ready_queue[c] \in [Priorities -> Seq(Threads)] /\ ready_queue[c][p] \in Seq(Threads)
  BY DEF BetterQueues, TypeOK
<1>2. Lists(ready_queue[c][p], ReadyAt(c, p))
  BY <1>1 DEF QueuesMatch
<1>3. next \in ReadyAt(c, p) /\ Lists(Tail(ready_queue[c][p]), ReadyAt(c, p) \ {next})
  BY <1>1, <1>2, ListsTail
<1>4. next \in Threads /\ status[next] = "Ready" /\ CoreOf[next] = c /\ current_priority[next] = p
  BY <1>3 DEF ReadyAt
<1>5. StaysRunnable(c) => /\ cur \in Threads /\ status[cur] = "Running" /\ CoreOf[cur] = c
                          /\ current_priority[cur] \in Priorities /\ p < current_priority[cur]
  BY DEF StaysRunnable, BetterQueues, TypeOK
<1>6. /\ ready_queue' = [ready_queue EXCEPT ![c] = [pushed EXCEPT ![p] = RemoveFirst(@, next)]]
      /\ status' = [t \in Threads |-> IF t = next THEN "Running"
                                      ELSE IF t = cur /\ StaysRunnable(c) THEN "Ready"
                                      ELSE status[t]]
  BY <1>4 DEF SwitchTo
<1>7. \A r \in Priorities : popped[r] = IF r = p THEN Tail(ready_queue[c][p]) ELSE ready_queue[c][r]
  BY <1>1
<1>8. popped \in [Priorities -> Seq(Threads)]
  BY <1>1
<1> HIDE DEF popped
<1>9. \A r \in Priorities :
        pushed[r] = IF StaysRunnable(c) /\ r = current_priority[cur] THEN <<cur>> \o popped[r] ELSE popped[r]
  BY <1>5, <1>8
<1>10. DOMAIN pushed = Priorities
  BY <1>8
<1> HIDE DEF pushed
<1>11. QueuesMatch'
  <2> SUFFICES ASSUME NEW d \in Cores, NEW r \in Priorities
               PROVE  Lists(ready_queue'[d][r], ReadyAt(d, r)')
    BY DEF QueuesMatch
  <2>1. ready_queue[d][r] \in Seq(Threads) /\ Lists(ready_queue[d][r], ReadyAt(d, r))
    BY DEF TypeOK, QueuesMatch
  <2>2. CASE d # c
    <3>1. ready_queue'[d] = ready_queue[d]
      BY <1>6, <2>2 DEF TypeOK
    <3>2. ReadyAt(d, r)' = ReadyAt(d, r)
      BY <1>4, <1>5, <1>6, <2>2 DEF ReadyAt
    <3>3. QED
      BY <2>1, <3>1, <3>2
  <2>3. CASE d = c /\ r = p
    <3>1. p \in Nat /\ (StaysRunnable(c) => current_priority[cur] \in Nat)
      BY <1>1, <1>5, PrioritiesAssumption DEF Priorities
    <3>2. StaysRunnable(c) => p # current_priority[cur]
      BY <1>5, <3>1
    <3>3. ready_queue'[d][r] = RemoveFirst(pushed[p], next)
      BY <1>1, <1>6, <1>10, <2>3 DEF TypeOK
    <3>4. pushed[p] = Tail(ready_queue[c][p])
      BY <1>1, <1>7, <1>9, <3>2
    <3>5. Lists(RemoveFirst(Tail(ready_queue[c][p]), next), (ReadyAt(c, p) \ {next}) \ {next})
      <4>1. Tail(ready_queue[c][p]) \in Seq(Threads)
        BY <1>1
      <4>2. QED
        BY <1>3, <4>1, ListsRemove
    <3>6. ReadyAt(d, r)' = (ReadyAt(c, p) \ {next}) \ {next}
      BY <1>4, <1>5, <1>6, <2>3, <3>2 DEF ReadyAt
    <3>7. QED
      BY <3>3, <3>4, <3>5, <3>6
  <2>4. CASE d = c /\ r # p
    <3>1. ready_queue'[d][r] = pushed[r]
      BY <1>1, <1>6, <1>10, <2>4 DEF TypeOK
    <3>2. popped[r] = ready_queue[c][r]
      BY <1>7, <2>4
    <3>3. CASE StaysRunnable(c) /\ r = current_priority[cur]
      <4>1. pushed[r] = <<cur>> \o ready_queue[c][r]
        BY <1>9, <3>2, <3>3
      <4>2. cur \notin ReadyAt(c, r)
        BY <1>5, <3>3 DEF ReadyAt
      <4>3. ReadyAt(d, r)' = ReadyAt(c, r) \cup {cur}
        BY <1>4, <1>5, <1>6, <2>4, <3>3 DEF ReadyAt
      <4> HIDE DEF cur
      <4>4. Lists(<<cur>> \o ready_queue[c][r], ReadyAt(c, r) \cup {cur})
        BY <1>5, <2>1, <2>4, <3>3, <4>2, ListsPush
      <4>5. QED
        BY <3>1, <4>1, <4>3, <4>4
    <3>4. CASE ~(StaysRunnable(c) /\ r = current_priority[cur])
      <4>1. pushed[r] = ready_queue[c][r]
        BY <1>9, <3>2, <3>4
      <4>2. ReadyAt(d, r)' = ReadyAt(c, r)
        BY <1>4, <1>5, <1>6, <2>4, <3>4 DEF ReadyAt
      <4>3. QED
        BY <2>1, <2>4, <3>1, <4>1, <4>2
    <3>5. QED
      BY <3>3, <3>4
  <2>5. QED
    BY <2>2, <2>3, <2>4
<1>12. QED
  BY <1>3, <1>11

-----------------------------------------------------------------------------
(* The calls a handler still has to make.  A call pushes the calls it makes in front of what is     *)
(* left, so the sequence is nested: Below says which call may come after which.                     *)

WakeCalls == {"Acquire", "RemoveWaiting", "Wakeup"}

Below(f, g) ==
  /\ g.fn = "Wakeup" => f.fn \in {"Acquire", "RemoveWaiting"} /\ f.thr = g.thr
  /\ g.fn \in {"Acquire", "AddWaiting"} => f.fn = g.fn /\ f.thr = g.thr
  /\ g.fn = "RemoveWaiting" => f.fn \in WakeCalls \cup {"Wake"} /\ (f.fn = "Wakeup" => f.thr # g.thr)
  /\ g.fn = "ReleaseMutexes" =>
       f.fn \in WakeCalls \cup {"Wake"} /\ (f.fn \in {"Wakeup", "Acquire"} => f.thr # g.thr)
  /\ g.fn = "Wake" => f.fn \in WakeCalls
  /\ g.fn = "Rearm" => f.fn \in WakeCalls \cup {"Wake"}
  /\ g.fn \notin {"Stop", "Resume"}
  /\ g.fn = "TerminateThreads" =>
       f.fn \in WakeCalls \cup {"Wake", "Stop", "ReleaseMutexes", "TerminateThreads"}
  /\ g.fn \in {"UpdatePriority", "Reschedule"} => f.fn = g.fn

Nested(q) == \A i, j \in DOMAIN q : i < j => Below(q[i], q[j])

(* Calls pushed in front of others, each of which may come after each of them. *)
LEMMA NestedConcat ==
  ASSUME NEW X \in Seq(Frames), NEW Y \in Seq(Frames), Nested(X), Nested(Y),
         \A f \in Range(X), g \in Range(Y) : Below(f, g)
  PROVE  Nested(X \o Y)
<1>1. /\ Len(X) \in Nat /\ Len(Y) \in Nat /\ DOMAIN X = 1 .. Len(X) /\ DOMAIN Y = 1 .. Len(Y)
      /\ DOMAIN (X \o Y) = 1 .. Len(X) + Len(Y)
      /\ \A i \in 1 .. Len(X) + Len(Y) : (X \o Y)[i] = IF i <= Len(X) THEN X[i] ELSE Y[i - Len(X)]
  OBVIOUS
<1> SUFFICES ASSUME NEW i \in 1 .. Len(X) + Len(Y), NEW j \in 1 .. Len(X) + Len(Y), i < j
             PROVE  Below((X \o Y)[i], (X \o Y)[j])
  BY <1>1 DEF Nested
<1>2. CASE j <= Len(X)
  <2>1. i \in DOMAIN X /\ j \in DOMAIN X /\ (X \o Y)[i] = X[i] /\ (X \o Y)[j] = X[j]
    BY <1>1, <1>2
  <2>2. QED
    BY <2>1 DEF Nested
<1>3. CASE i <= Len(X) /\ ~(j <= Len(X))
  <2>1. i \in DOMAIN X /\ j - Len(X) \in DOMAIN Y /\ (X \o Y)[i] = X[i] /\ (X \o Y)[j] = Y[j - Len(X)]
    BY <1>1, <1>3
  <2>2. X[i] \in Range(X) /\ Y[j - Len(X)] \in Range(Y)
    BY <2>1 DEF Range
  <2>3. QED
    BY <2>1, <2>2
<1>4. CASE ~(i <= Len(X))
  <2>1. /\ i - Len(X) \in DOMAIN Y /\ j - Len(X) \in DOMAIN Y /\ i - Len(X) < j - Len(X)
        /\ (X \o Y)[i] = Y[i - Len(X)] /\ (X \o Y)[j] = Y[j - Len(X)]
    BY <1>1, <1>4
  <2>2. QED
    BY <2>1 DEF Nested
<1>5. QED
  BY <1>1, <1>2, <1>3, <1>4

(* What is left after the first call is nested, and each of it may come after that call. *)
LEMMA NestedTail ==
  ASSUME NEW X \in Seq(Frames), X # <<>>, Nested(X)
  PROVE  Nested(Tail(X)) /\ \A g \in Range(Tail(X)) : Below(Head(X), g)
<1>1. /\ Len(X) \in Nat \ {0} /\ DOMAIN X = 1 .. Len(X) /\ Head(X) = X[1]
      /\ DOMAIN Tail(X) = 1 .. Len(X) - 1 /\ \A i \in 1 .. Len(X) - 1 : Tail(X)[i] = X[i + 1]
  OBVIOUS
<1>2. Nested(Tail(X))
  <2> SUFFICES ASSUME NEW i \in 1 .. Len(X) - 1, NEW j \in 1 .. Len(X) - 1, i < j
               PROVE  Below(Tail(X)[i], Tail(X)[j])
    BY <1>1 DEF Nested
  <2>1. /\ i + 1 \in DOMAIN X /\ j + 1 \in DOMAIN X /\ i + 1 < j + 1
        /\ Tail(X)[i] = X[i + 1] /\ Tail(X)[j] = X[j + 1]
    BY <1>1
  <2>2. QED
    BY <2>1 DEF Nested
<1>3. ASSUME NEW g \in Range(Tail(X)) PROVE Below(Head(X), g)
  <2>1. PICK j \in 1 .. Len(X) - 1 : g = Tail(X)[j]
    BY <1>1 DEF Range
  <2>2. 1 \in DOMAIN X /\ j + 1 \in DOMAIN X /\ 1 < j + 1 /\ g = X[j + 1]
    BY <1>1, <2>1
  <2>3. QED
    BY <1>1, <2>2 DEF Nested
<1>4. QED
  BY <1>2, <1>3

(* One call, or none, is nested. *)
LEMMA NestedSingle == Nested(<<>>) /\ \A f : Nested(<<f>>)
<1>1. Nested(<<>>)
  BY DEF Nested
<1>2. ASSUME NEW f PROVE Nested(<<f>>)
  <2>1. DOMAIN <<f>> = {1}
    OBVIOUS
  <2>2. QED
    BY <2>1 DEF Nested
<1>3. QED
  BY <1>1, <1>2

(* The same call for every object of a list: its frames. *)
LEMMA ForEachFrames ==
  ASSUME NEW fn, NEW t, NEW objs
  PROVE  \A f \in Range(ForEach(fn, t, objs)) : f.fn = fn /\ f.thr = t /\ \E o \in Range(objs) : f = Frame(fn, t, o)
BY DEF ForEach, Frame, Range

(* The same call for every object of a list is nested. *)
LEMMA NestedForEach ==
  ASSUME NEW fn \in {"Acquire", "AddWaiting", "RemoveWaiting", "UpdatePriority"}, NEW t, NEW objs
  PROVE  Nested(ForEach(fn, t, objs))
<1>1. \A i \in DOMAIN ForEach(fn, t, objs) : ForEach(fn, t, objs)[i].fn = fn /\ ForEach(fn, t, objs)[i].thr = t
  BY DEF ForEach, Frame
<1>2. \A f, g : f.fn = fn /\ f.thr = t /\ g.fn = fn /\ g.thr = t => Below(f, g)
  BY DEF Below, WakeCalls
<1>3. QED
  BY <1>1, <1>2 DEF Nested

\* The calls that wake thread t, and those that stop it
WakeFrames(t, granted, objs) ==
  ForEach("Acquire", t, granted) \o ForEach("RemoveWaiting", t, objs) \o <<Frame("Wakeup", t, Null)>>
StopFrames(t, objs) ==
  <<Frame("Wake", Null, t)>> \o ForEach("RemoveWaiting", t, objs) \o <<Frame("ReleaseMutexes", t, Null)>>

(* What one frame leaves to be done. *)
LEMMA FrameStep ==
  ASSUME TypeOK, RunFrame
  PROVE  \/ Head(todo).fn # "Stop" /\ todo' = Tail(todo)
         \/ /\ Head(todo).fn = "Wake"
            /\ \E t \in Threads, granted \in Seq(Objects) :
                 /\ t \in Range(waiting_threads[Head(todo).obj]) /\ status[t] \in SyncStatus
                 /\ todo' = WakeFrames(t, granted, wait_objects[t]) \o todo
         \/ /\ Head(todo).fn = "Stop"
            /\ Head(todo).thr \in Threads /\ status'[Head(todo).thr] = "Dead"
            /\ todo' = StopFrames(Head(todo).thr, wait_objects[Head(todo).thr]) \o Tail(todo)
         \/ /\ Head(todo).fn = "ReleaseMutexes"
            /\ \E m \in Mutexes : todo' = <<Frame("Wake", Null, m)>> \o todo
         \/ /\ Head(todo).fn = "TerminateThreads"
            /\ \E x \in Threads : \/ todo' = <<Frame("Stop", x, Null)>> \o todo
                                 \/ todo' = <<Frame("Stop", x, Null)>> \o Tail(todo)
<1> DEFINE f == Head(todo)
<1>1. todo # <<>> /\ f \in Frames
  BY TailType DEF RunFrame
<1>2. CASE f.fn = "Wake" /\ WakeupAllWaitingThreads(f.obj)
  <2>1. f.obj \in Objects
    BY <1>1, <1>2, FrameArguments
  <2>2. CASE WakeEnd(f.obj)
    BY <1>2, <2>2 DEF WakeEnd, Return
  <2>3. CASE ~WakeEnd(f.obj)
    <3> DEFINE o == f.obj
    <3>1. PICK i \in Candidates(o) : WakeOne(o, waiting_threads[o][i])
      BY <1>2, <2>3 DEF WakeupAllWaitingThreads
    <3> DEFINE t == waiting_threads[o][i]
               granted == IF status[t] = "WaitSynchAll" THEN wait_objects[t] ELSE <<o>>
    <3>2. waiting_threads[o] \in Seq(Threads) /\ i \in DOMAIN waiting_threads[o]
      BY <2>1 DEF TypeOK, Candidates
    <3>3. t \in Threads /\ t \in Range(waiting_threads[o])
      BY <3>2, ElementOfSeq DEF Range
    <3>4. status[t] \in SyncStatus
      BY <1>2, <3>3 DEF WakeupAllWaitingThreads
    <3>5. granted \in Seq(Objects)
      BY <2>1, <3>3 DEF TypeOK
    <3>6. todo' = WakeFrames(t, granted, wait_objects[t]) \o todo
      BY <3>1 DEF WakeOne, CallAgain, WakeFrames
    <3> HIDE DEF t, granted
    <3>7. QED
      BY <1>2, <3>3, <3>4, <3>5, <3>6
  <2>4. QED
    BY <2>2, <2>3
<1>3. CASE f.fn = "Stop" /\ Stop(f.thr)
  <2>1. f.thr \in Threads
    BY <1>1, <1>3, FrameArguments
  <2>2. status'[f.thr] = "Dead"
    BY <1>3, <2>1 DEF Stop, TypeOK
  <2>3. QED
    BY <1>3, <2>1, <2>2 DEF Stop, CallThenReturn, StopFrames
<1>4. CASE f.fn = "ReleaseMutexes" /\ ReleaseThreadMutexes(f.thr)
  <2>1. held_mutexes[f.thr] \subseteq Mutexes
    BY <1>1, <1>4, FrameArguments DEF TypeOK
  <2>2. QED
    BY <1>4, <2>1 DEF ReleaseThreadMutexes, Return, CallAgain
<1>5. CASE f.fn = "TerminateThreads" /\ TerminateProcessThreads(f.thr, f.obj)
  <2>1. listed \subseteq Threads /\ (current_thread[f.obj] # Null => current_thread[f.obj] \in Threads)
    BY <1>1, <1>5, FrameArguments DEF TypeOK
  <2>2. QED
    BY <1>5, <2>1 DEF TerminateProcessThreads, CallAgain, CallThenReturn, Return
<1>6. CASE f.fn # "Stop" /\ Return
  BY <1>6 DEF Return
<1>7. QED
  <2>1. \/ f.fn # "Stop" /\ Return
        \/ f.fn = "Wake" /\ WakeupAllWaitingThreads(f.obj)
        \/ f.fn = "Stop" /\ Stop(f.thr)
        \/ f.fn = "ReleaseMutexes" /\ ReleaseThreadMutexes(f.thr)
        \/ f.fn = "TerminateThreads" /\ TerminateProcessThreads(f.thr, f.obj)
    BY DEF RunFrame, Acquire, AddWaitingThread, RemoveWaitingThread, Wakeup, Resume, Rearm,
           UpdatePendingMutex, Reschedule
  <2>2. QED
    BY <2>1, <1>2, <1>3, <1>4, <1>5, <1>6

(* A wait that times out is woken without a grant. *)
LEMMA TimeoutFrames ==
  ASSUME NEW t \in Threads, NEW objs \in Seq(Objects)
  PROVE  WakeFrames(t, <<>>, objs) = ForEach("RemoveWaiting", t, objs) \o <<Frame("Wakeup", t, Null)>>
<1> DEFINE A == ForEach("Acquire", t, <<>>)
           R == ForEach("RemoveWaiting", t, objs)
           W == <<Frame("Wakeup", t, Null)>>
<1>1. A = <<>>
  BY DEF ForEach
<1>2. R \in Seq(Frames)
  BY ForEachType
<1>3. WakeFrames(t, <<>>, objs) = (A \o R) \o W
  BY DEF WakeFrames
<1> HIDE DEF A, R, W
<1>4. A \o R = R
  BY <1>1, <1>2
<1>5. QED
  BY <1>3, <1>4 DEF R, W

(* A timing event, an SVC or a step of the run loop starts with no call outstanding, and leaves one *)
(* of these lists of calls.                                                                         *)
LEMMA HandlerStarts ==
  ASSUME TypeOK, RunLoop \/ \E t \in Threads : ThreadCall(t)
  PROVE  /\ todo = <<>>
         /\ \/ todo' = <<>>
            \/ \E o \in Objects : todo' = <<Frame("Wake", Null, o)>>
            \/ \E t \in Threads : \/ todo' = <<Frame("Stop", t, Null)>> /\ reschedule_pending'
                                \/ todo' = <<Frame("Resume", t, Null)>>
            \/ \E c \in Cores : todo' = <<Frame("Reschedule", Null, c)>>
            \/ \E tm \in Timers :
                 todo' = TimerFrames(tm) /\ timer_events'[tm] \in {timer_events[tm] - 1, 0}
            \/ \E t \in Threads, objs \in Seq(Objects) :
                 \/ todo' = ForEach("Acquire", t, objs)
                 \/ todo' = ForEach("AddWaiting", t, objs) /\ reschedule_pending'
            \/ \E t \in Threads : todo' = WakeFrames(t, <<>>, wait_objects[t]) /\ status[t] \in SyncStatus /\ status' = status
            \/ \E objs \in Seq(Mutexes) : todo' = ForEach("UpdatePriority", Null, objs) /\ reschedule_pending'
            \/ todo' = [i \in 1 .. NumCores |-> Frame("Reschedule", Null, i - 1)]
            \/ \E p \in Threads : /\ todo' = [i \in 1 .. NumCores |-> Frame("TerminateThreads", p, i - 1)]
                                /\ "TerminateProcess" \in Svcs
<1> DEFINE Goal ==
            \/ todo' = <<>>
            \/ \E o \in Objects : todo' = <<Frame("Wake", Null, o)>>
            \/ \E t \in Threads : \/ todo' = <<Frame("Stop", t, Null)>> /\ reschedule_pending'
                                \/ todo' = <<Frame("Resume", t, Null)>>
            \/ \E c \in Cores : todo' = <<Frame("Reschedule", Null, c)>>
            \/ \E tm \in Timers :
                 todo' = TimerFrames(tm) /\ timer_events'[tm] \in {timer_events[tm] - 1, 0}
            \/ \E t \in Threads, objs \in Seq(Objects) :
                 \/ todo' = ForEach("Acquire", t, objs)
                 \/ todo' = ForEach("AddWaiting", t, objs) /\ reschedule_pending'
            \/ \E t \in Threads : todo' = WakeFrames(t, <<>>, wait_objects[t]) /\ status[t] \in SyncStatus /\ status' = status
            \/ \E objs \in Seq(Mutexes) : todo' = ForEach("UpdatePriority", Null, objs) /\ reschedule_pending'
            \/ todo' = [i \in 1 .. NumCores |-> Frame("Reschedule", Null, i - 1)]
            \/ \E p \in Threads : /\ todo' = [i \in 1 .. NumCores |-> Frame("TerminateThreads", p, i - 1)]
                                /\ "TerminateProcess" \in Svcs
<1>1. CASE RunLoop
  <2>1. todo = <<>>
    BY <1>1 DEF RunLoop, StartIteration, AdvanceDone, StartSlice, EndSlice, RescheduleAll,
                ThreadWakeupCallback, TimerCallback, ServiceSignal, Advancing, Quiet
  <2>2. ASSUME StartIteration \/ StartSlice \/ EndSlice PROVE Goal
    BY <2>1, <2>2 DEF StartIteration, StartSlice, EndSlice
  <2>3. ASSUME AdvanceDone PROVE Goal
    <3>1. Head(advancing) \in Cores
      BY <2>3 DEF AdvanceDone, TypeOK
    <3>2. QED
      BY <2>3, <3>1 DEF AdvanceDone
  <2>4. ASSUME RescheduleAll PROVE Goal
    BY <2>4 DEF RescheduleAll
  <2>5. ASSUME NEW t \in Threads, ThreadWakeupCallback(t) PROVE Goal
    <3>1. wait_objects[t] \in Seq(Objects)
      BY DEF TypeOK
    <3>2. WakeFrames(t, <<>>, wait_objects[t])
            = ForEach("RemoveWaiting", t, wait_objects[t]) \o <<Frame("Wakeup", t, Null)>>
      BY <3>1, TimeoutFrames
    <3>3. QED
      BY <2>5, <3>2 DEF ThreadWakeupCallback
  <2>6. ASSUME NEW tm \in Timers, TimerCallback(tm) PROVE Goal
    BY <2>6 DEF TimerCallback, TypeOK
  <2>7. ASSUME NEW e \in Events, ServiceSignal(e) PROVE Goal
    BY <2>7 DEF ServiceSignal, EventSignal, Objects, Signals
  <2> HIDE DEF Goal
  <2>8. Goal
    BY <1>1, <2>2, <2>3, <2>4, <2>5, <2>6, <2>7 DEF RunLoop
  <2>9. QED
    BY <2>1, <2>8 DEF Goal
<1>2. ASSUME NEW t \in Threads, ThreadCall(t) PROVE todo = <<>> /\ Goal
  <2>1. todo = <<>>
    BY <1>2 DEF ThreadCall, CreateThread, ExitThread, TerminateProcess, SetThreadPriority,
         WaitSynchronization1, WaitSynchronizationN, SleepThread, ReleaseMutex, ReleaseSemaphore,
         SignalEvent, ClearSignal, SetTimer, CancelTimer, Svc
  <2>2. ASSUME NEW objs \in Seq(Objects), NEW st, NEW ns,
               AcquireNow(t, objs) \/ TimeoutNow \/ Suspend(t, objs, st, ns)
        PROVE  Goal
    BY <2>1, <2>2 DEF AcquireNow, TimeoutNow, Suspend, PrepareReschedule
  <2>3. ASSUME NEW o \in Waitable(t), NEW ns, WaitSynchronization1(t, o, ns) PROVE Goal
    <3>1. <<o>> \in Seq(Objects)
      BY ArgumentsAssumption DEF Waitable, Objects
    <3> HIDE DEF Goal
    <3>2. QED
      BY <2>2, <2>3, <3>1 DEF WaitSynchronization1
  <2>4. ASSUME NEW objs \in WaitLists, NEW all \in BOOLEAN, NEW ns, WaitSynchronizationN(t, objs, all, ns) PROVE Goal
    <3> DEFINE free == {i \in DOMAIN objs : ~ShouldWait(objs[i], t)}
    <3>1. objs \in Seq(Objects)
      BY ArgumentsAssumption
    <3>2. free # {} => <<objs[Min(free)]>> \in Seq(Objects)
      <4> SUFFICES ASSUME free # {} PROVE <<objs[Min(free)]>> \in Seq(Objects)
        OBVIOUS
      <4>1. free \subseteq Nat /\ free \subseteq 1 .. Len(objs)
        BY <3>1
      <4>2. Min(free) \in free
        BY <4>1, MinNat
      <4>3. objs[Min(free)] \in Objects
        BY <3>1, <4>1, <4>2, ElementOfSeq
      <4>4. QED
        BY <4>3
    <3> HIDE DEF Goal
    <3>3. QED
      BY <2>2, <2>4, <3>1, <3>2 DEF WaitSynchronizationN
  <2>5. ASSUME NEW p \in Threads, TerminateProcess(t, p) PROVE Goal
    BY <2>5 DEF TerminateProcess, Svc
  <2>6. ASSUME NEW x \in Threads, NEW p, SetThreadPriority(t, x, p) PROVE Goal
    <3>1. PICK order \in SetToSeqs(pending_mutexes[x]) : todo' = ForEach("UpdatePriority", Null, order)
      BY <2>6 DEF SetThreadPriority
    <3>2. pending_mutexes[x] \subseteq Mutexes
      BY DEF TypeOK
    <3>3. IsFiniteSet(pending_mutexes[x])
      BY <3>2, ObjectsAssumption, FS_Subset
    <3>4. order \in Seq(pending_mutexes[x])
      BY <3>3, ObjectListType
    <3>5. order \in Seq(Mutexes)
      BY <3>2, <3>4, SeqMonotonic
    <3>6. QED
      BY <2>6, <3>1, <3>5 DEF SetThreadPriority, PrepareReschedule
  <2>7. ASSUME NEW m \in Mutexes, ReleaseMutex(t, m) PROVE Goal
    BY <2>1, <2>7 DEF ReleaseMutex, Objects
  <2>8. ASSUME NEW tm \in Timers, NEW initial \in BOOLEAN, NEW interval \in BOOLEAN,
               SetTimer(t, tm, initial, interval)
        PROVE  Goal
    BY <2>1, <2>8 DEF SetTimer, TypeOK
  <2>9. ASSUME ExitThread(t) PROVE Goal
    BY <2>9 DEF ExitThread, PrepareReschedule
  <2>10. ASSUME NEW s \in Semaphores, NEW n, ReleaseSemaphore(t, s, n) PROVE Goal
    BY <2>10 DEF ReleaseSemaphore, Objects
  <2>11. ASSUME NEW e \in Events, SignalEvent(t, e) PROVE Goal
    BY <2>11 DEF SignalEvent, EventSignal, Objects, Signals
  <2>12. ASSUME \/ \E x \in Threads : CreateThread(t, x)
                \/ \E ns \in Delays : SleepThread(t, ns)
                \/ \E e \in Signals : ClearSignal(t, e)
                \/ \E tm \in Timers : CancelTimer(t, tm)
         PROVE  Goal
    BY <2>1, <2>12 DEF CreateThread, SleepThread, ClearSignal, CancelTimer
  <2> HIDE DEF Goal
  <2>13. Goal
    BY <1>2, <2>3, <2>4, <2>5, <2>6, <2>7, <2>8, <2>9, <2>10, <2>11, <2>12 DEF ThreadCall
  <2>14. QED
    BY <2>1, <2>13
<1>3. QED
  BY <1>1, <1>2

(* Inside a handler a stopped thread stays stopped. *)
LEMMA DeadStays ==
  ASSUME TypeOK, RunFrame, NEW t \in Threads, status[t] = "Dead"
  PROVE  status'[t] = "Dead"
<1> DEFINE f == Head(todo)
<1>1. todo # <<>> /\ f \in Frames
  BY TailType DEF RunFrame
<1>2. CASE (f.fn = "Wakeup" /\ Wakeup(f.thr)) \/ (f.fn = "Resume" /\ Resume(f.thr))
  <2>1. f.thr \in Threads
    BY <1>1, <1>2, FrameArguments
  <2>2. status' = status \/ (status[f.thr] \in BlockedStatus /\ status' = [status EXCEPT ![f.thr] = "Ready"])
    BY <1>2 DEF Wakeup, Resume, ResumeFromWait
  <2>3. QED
    BY <2>1, <2>2 DEF TypeOK, BlockedStatus, SyncStatus
<1>3. CASE f.fn = "Stop" /\ Stop(f.thr)
  BY <1>3 DEF Stop, TypeOK
<1>4. CASE f.fn = "Reschedule" /\ Reschedule(f.obj)
  <2>1. f.obj \in Cores
    BY <1>1, <1>4, FrameArguments
  <2>2. CASE BetterQueues(f.obj) = {}
    BY <1>4, <2>2 DEF Reschedule, StayOrIdle
  <2>3. CASE BetterQueues(f.obj) # {}
    BY <1>4, <2>3 DEF Reschedule, SwitchTo, StaysRunnable
  <2>4. QED
    BY <2>2, <2>3
<1>5. CASE status' = status
  BY <1>5
<1>6. QED
  <2>1. \/ status' = status
        \/ (f.fn = "Wakeup" /\ Wakeup(f.thr)) \/ (f.fn = "Resume" /\ Resume(f.thr))
        \/ f.fn = "Stop" /\ Stop(f.thr)
        \/ f.fn = "Reschedule" /\ Reschedule(f.obj)
    BY DEF RunFrame, Acquire, AddWaitingThread, RemoveWaitingThread, WakeupAllWaitingThreads, Rearm,
           UpdatePendingMutex, ReleaseThreadMutexes, TerminateProcessThreads
  <2>2. QED
    BY <1>2, <1>3, <1>4, <1>5, <2>1

Leaving(t) == Frame("Wakeup", t, Null) \in Range(todo) \/ Frame("ReleaseMutexes", t, Null) \in Range(todo)

\* Nested calls; ReleaseThreadMutexes is only due for a stopped thread; a thread is only taken off a
\* list as part of waking or stopping it
CallsShaped ==
  /\ Nested(todo)
  /\ \A t \in Threads : Frame("ReleaseMutexes", t, Null) \in Range(todo) => status[t] = "Dead"
  /\ \A t \in Threads, o \in Objects : Frame("RemoveWaiting", t, o) \in Range(todo) => Leaving(t)

(* A frame is determined by its call and arguments. *)
LEMMA FrameFields ==
  ASSUME NEW g \in Frames
  PROVE  /\ g.fn \in {"Acquire", "AddWaiting", "RemoveWaiting", "Wake", "Wakeup", "Resume", "Stop",
                      "ReleaseMutexes", "Rearm", "UpdatePriority", "TerminateThreads", "Reschedule"}
         /\ g.fn = "RemoveWaiting" => g.thr \in Threads /\ g.obj \in Objects /\ g = Frame("RemoveWaiting", g.thr, g.obj)
         /\ g.fn = "ReleaseMutexes" => g.thr \in Threads /\ g = Frame("ReleaseMutexes", g.thr, Null)
         /\ g.fn = "Wakeup" => g.thr \in Threads /\ g = Frame("Wakeup", g.thr, Null)
BY DEF Frames, Frame

(* The fields of a frame. *)
LEMMA FrameOf == \A fn, t, o : Frame(fn, t, o).fn = fn /\ Frame(fn, t, o).thr = t /\ Frame(fn, t, o).obj = o
BY DEF Frame

(* The calls outstanding, by the first and the rest. *)
LEMMA TodoParts ==
  ASSUME TypeOK, todo # <<>>
  PROVE  /\ Head(todo) \in Frames /\ Tail(todo) \in Seq(Frames) /\ todo \in Seq(Frames)
         /\ Range(todo) = {Head(todo)} \cup Range(Tail(todo))
         /\ Range(todo) \subseteq Frames
<1>1. Head(todo) \in Frames /\ Tail(todo) \in Seq(Frames) /\ todo \in Seq(Frames)
  BY DEF TypeOK
<1>2. Range(todo) = {Head(todo)} \cup Range(Tail(todo))
  BY <1>1, RangeTail
<1>3. Range(todo) \subseteq Frames
  BY <1>1, ElementOfSeq DEF Range
<1>4. QED
  BY <1>1, <1>2, <1>3

(* The calls that wake thread t, and those that stop it. *)
LEMMA WakeList ==
  ASSUME NEW t \in Threads, NEW granted \in Seq(Objects), NEW objs \in Seq(Objects)
  PROVE  /\ WakeFrames(t, granted, objs) \in Seq(Frames) /\ Nested(WakeFrames(t, granted, objs))
         /\ \A f \in Range(WakeFrames(t, granted, objs)) : f.fn \in WakeCalls /\ f.thr = t
         /\ Frame("Wakeup", t, Null) \in Range(WakeFrames(t, granted, objs))
         /\ \A o \in Range(objs) : Frame("RemoveWaiting", t, o) \in Range(WakeFrames(t, granted, objs))
<1> DEFINE X == WakeFrames(t, granted, objs)
           A == ForEach("Acquire", t, granted)
           R == ForEach("RemoveWaiting", t, objs)
           W == <<Frame("Wakeup", t, Null)>>
<1>1. A \in Seq(Frames) /\ R \in Seq(Frames) /\ W \in Seq(Frames)
  BY ForEachType, FrameType
<1>2. /\ \A f \in Range(A) : f.fn = "Acquire" /\ f.thr = t
      /\ \A f \in Range(R) : f.fn = "RemoveWaiting" /\ f.thr = t
  BY ForEachFrames
<1>3. Range(W) = {Frame("Wakeup", t, Null)}
  BY RangeSingle
<1>4. \A f \in Range(W) : f.fn = "Wakeup" /\ f.thr = t
  BY <1>3, FrameOf
<1>5. Nested(A) /\ Nested(R) /\ Nested(W)
  BY NestedForEach, NestedSingle
<1>6. \A o \in Range(objs) : Frame("RemoveWaiting", t, o) \in Range(R)
  BY DEF ForEach, Range
<1> HIDE DEF A, R, W
<1>7. A \o R \in Seq(Frames) /\ Range(A \o R) = Range(A) \cup Range(R) /\ Nested(A \o R)
  <2>1. \A f \in Range(A), g \in Range(R) : Below(f, g)
    BY <1>2 DEF Below, WakeCalls
  <2>2. QED
    BY <1>1, <1>5, <2>1, NestedConcat, RangeConcat
<1>8. /\ (A \o R) \o W \in Seq(Frames) /\ Nested((A \o R) \o W)
      /\ Range((A \o R) \o W) = (Range(A) \cup Range(R)) \cup Range(W)
  <2>1. \A f \in Range(A \o R), g \in Range(W) : Below(f, g)
    BY <1>2, <1>4, <1>7 DEF Below, WakeCalls
  <2>2. Nested((A \o R) \o W)
    BY <1>1, <1>5, <1>7, <2>1, NestedConcat
  <2>3. Range((A \o R) \o W) = Range(A \o R) \cup Range(W)
    <3> DEFINE AR == A \o R
    <3>1. AR \in Seq(Frames)
      BY <1>7
    <3> HIDE DEF AR
    <3>2. Range(AR \o W) = Range(AR) \cup Range(W)
      BY <1>1, <3>1, RangeConcat
    <3>3. QED
      BY <3>2 DEF AR
  <2>4. QED
    BY <1>1, <1>7, <2>2, <2>3
<1>9. X = (A \o R) \o W
  BY DEF A, R, W, WakeFrames
<1> HIDE DEF X
<1>10. \A f \in Range(X) : f.fn \in WakeCalls /\ f.thr = t
  BY <1>2, <1>4, <1>8, <1>9 DEF WakeCalls
<1>11. Frame("Wakeup", t, Null) \in Range(X)
  BY <1>3, <1>8, <1>9
<1>12. QED
  BY <1>6, <1>8, <1>9, <1>10, <1>11 DEF X

(* The calls of Thread::Stop, in their order. *)
LEMMA StopList ==
  ASSUME NEW t \in Threads, NEW objs \in Seq(Objects)
  PROVE  /\ StopFrames(t, objs) \in Seq(Frames) /\ Nested(StopFrames(t, objs))
         /\ \A f \in Range(StopFrames(t, objs)) :
                                \/ f.fn = "Wake" /\ f = Frame("Wake", Null, t)
                                \/ f.fn \in {"RemoveWaiting", "ReleaseMutexes"} /\ f.thr = t
         /\ Frame("Wake", Null, t) \in Range(StopFrames(t, objs))
         /\ Frame("ReleaseMutexes", t, Null) \in Range(StopFrames(t, objs))
         /\ \A o \in Range(objs) : Frame("RemoveWaiting", t, o) \in Range(StopFrames(t, objs))
<1> DEFINE X == StopFrames(t, objs)
           A == <<Frame("Wake", Null, t)>>
           R == ForEach("RemoveWaiting", t, objs)
           W == <<Frame("ReleaseMutexes", t, Null)>>
<1>1. A \in Seq(Frames) /\ R \in Seq(Frames) /\ W \in Seq(Frames)
  <2>1. t \in Objects
    BY DEF Objects
  <2>2. QED
    BY <2>1, ForEachType, FrameType
<1>2. Range(A) = {Frame("Wake", Null, t)} /\ Range(W) = {Frame("ReleaseMutexes", t, Null)}
  BY RangeSingle
<1>3. /\ \A f \in Range(A) : f.fn = "Wake" /\ f = Frame("Wake", Null, t)
      /\ \A f \in Range(R) : f.fn = "RemoveWaiting" /\ f.thr = t
      /\ \A f \in Range(W) : f.fn = "ReleaseMutexes" /\ f.thr = t
  BY <1>2, ForEachFrames, FrameOf
<1>5. Nested(A) /\ Nested(R) /\ Nested(W)
  BY NestedForEach, NestedSingle
<1>6. \A o \in Range(objs) : Frame("RemoveWaiting", t, o) \in Range(R)
  BY DEF ForEach, Range
<1> HIDE DEF A, R, W
<1>7. A \o R \in Seq(Frames) /\ Range(A \o R) = Range(A) \cup Range(R) /\ Nested(A \o R)
  <2>1. \A f \in Range(A), g \in Range(R) : Below(f, g)
    BY <1>3 DEF Below, WakeCalls
  <2>2. QED
    BY <1>1, <1>5, <2>1, NestedConcat, RangeConcat
<1>8. /\ (A \o R) \o W \in Seq(Frames) /\ Nested((A \o R) \o W)
      /\ Range((A \o R) \o W) = (Range(A) \cup Range(R)) \cup Range(W)
  <2>1. \A f \in Range(A \o R), g \in Range(W) : Below(f, g)
    BY <1>3, <1>7 DEF Below, WakeCalls
  <2>2. Nested((A \o R) \o W)
    BY <1>1, <1>5, <1>7, <2>1, NestedConcat
  <2>3. Range((A \o R) \o W) = Range(A \o R) \cup Range(W)
    <3> DEFINE AR == A \o R
    <3>1. AR \in Seq(Frames)
      BY <1>7
    <3> HIDE DEF AR
    <3>2. Range(AR \o W) = Range(AR) \cup Range(W)
      BY <1>1, <3>1, RangeConcat
    <3>3. QED
      BY <3>2 DEF AR
  <2>4. QED
    BY <1>1, <1>7, <2>2, <2>3
<1>9. X = (A \o R) \o W
  BY DEF A, R, W, StopFrames
<1> HIDE DEF X
<1>10. QED
  BY <1>2, <1>3, <1>6, <1>8, <1>9 DEF X

(* A list of calls pushed in front of the outstanding ones: all of them are outstanding then. *)
LEMMA PushedRange ==
  ASSUME NEW X \in Seq(Frames), NEW Y \in Seq(Frames), todo' = X \o Y
  PROVE  Range(todo') = Range(X) \cup Range(Y)
BY RangeConcat

(* While WakeupAllWaitingThreads runs, only stopped threads are still to be taken off a list. *)
LEMMA BelowWake ==
  ASSUME TypeOK, CallsShaped, todo # <<>>, Head(todo).fn = "Wake", NEW g \in Range(Tail(todo))
  PROVE  /\ g.fn \in {"RemoveWaiting", "ReleaseMutexes", "Rearm", "TerminateThreads"}
         /\ g.fn \in {"RemoveWaiting", "ReleaseMutexes"} => g.thr \in Threads /\ status[g.thr] = "Dead"
<1>1. g \in Frames /\ g \in Range(todo)
  BY TodoParts
<1>2. \A h \in Range(Tail(todo)) : Below(Head(todo), h)
  BY TodoParts, NestedTail DEF CallsShaped
<1>3. g.fn \in {"RemoveWaiting", "ReleaseMutexes", "Rearm", "TerminateThreads"}
  BY <1>1, <1>2, FrameFields DEF Below, WakeCalls
<1>4. ASSUME NEW x \in Threads PROVE Frame("Wakeup", x, Null) \notin Range(todo)
  <2>1. Frame("Wakeup", x, Null).fn = "Wakeup"
    BY FrameOf
  <2>2. QED
    BY <1>2, <2>1, TodoParts DEF Below, WakeCalls
<1>5. CASE g.fn = "RemoveWaiting"
  <2>1. g.thr \in Threads /\ g.obj \in Objects /\ g = Frame("RemoveWaiting", g.thr, g.obj)
    BY <1>1, <1>5, FrameFields
  <2>2. Leaving(g.thr)
    BY <1>1, <2>1 DEF CallsShaped
  <2>3. status[g.thr] = "Dead"
    BY <1>4, <2>1, <2>2 DEF Leaving, CallsShaped
  <2>4. QED
    BY <1>3, <2>1, <2>3
<1>6. CASE g.fn = "ReleaseMutexes"
  <2>1. g.thr \in Threads /\ g = Frame("ReleaseMutexes", g.thr, Null)
    BY <1>1, <1>6, FrameFields
  <2>2. QED
    BY <1>1, <1>3, <2>1 DEF CallsShaped
<1>7. QED
  BY <1>3, <1>5, <1>6

(* Every frame leaves the outstanding calls in shape. *)
LEMMA FrameShaped ==
  ASSUME TypeOK, CallsShaped, RunFrame
  PROVE  CallsShaped'
<1> DEFINE f == Head(todo)
           rest == Tail(todo)
<1>1. /\ todo # <<>> /\ f \in Frames /\ rest \in Seq(Frames) /\ todo \in Seq(Frames)
      /\ Range(todo) = {f} \cup Range(rest) /\ Range(todo) \subseteq Frames
  BY TodoParts DEF RunFrame
<1>2. Nested(todo) /\ Nested(rest) /\ \A g \in Range(rest) : Below(f, g)
  BY <1>1, NestedTail DEF CallsShaped
<1>3. \A t \in Threads : status[t] = "Dead" => status'[t] = "Dead"
  BY DeadStays
<1>4. \A t \in Threads : Frame("ReleaseMutexes", t, Null) \in Range(todo) => status'[t] = "Dead"
  BY <1>3 DEF CallsShaped
<1>5. \A t \in Threads, o \in Objects : Frame("RemoveWaiting", t, o) \in Range(todo) => Leaving(t)
  BY DEF CallsShaped
<1>6. \A fn, t, o : Frame(fn, t, o).fn = fn /\ Frame(fn, t, o).thr = t /\ Frame(fn, t, o).obj = o
  BY FrameOf
<1> HIDE DEF f, rest
<1>7. ASSUME NEW X \in Seq(Frames), todo' = X \o todo, Nested(X),
             \A x \in Range(X), g \in Range(todo) : Below(x, g),
             \A t \in Threads : Frame("ReleaseMutexes", t, Null) \notin Range(X),
             \A t \in Threads, o \in Objects :
               Frame("RemoveWaiting", t, o) \in Range(X) => Frame("Wakeup", t, Null) \in Range(X)
      PROVE  CallsShaped'
  <2>1. Range(todo') = Range(X) \cup Range(todo) /\ Nested(todo')
    BY <1>1, <1>2, <1>7, PushedRange, NestedConcat
  <2>2. QED
    BY <1>4, <1>5, <1>7, <2>1 DEF CallsShaped, Leaving
<1>8. CASE f.fn # "Stop" /\ todo' = rest
  <2>1. Nested(todo') /\ Range(todo') = Range(rest)
    BY <1>2, <1>8
  <2>2. ASSUME NEW t \in Threads, NEW o \in Objects, Frame("RemoveWaiting", t, o) \in Range(rest)
        PROVE  Leaving(t)'
    <3>1. Leaving(t) /\ Below(f, Frame("RemoveWaiting", t, o))
      BY <1>1, <1>2, <1>5, <2>2
    <3>2. f # Frame("Wakeup", t, Null) /\ f # Frame("ReleaseMutexes", t, Null)
      BY <1>6, <3>1 DEF Below, WakeCalls
    <3>3. QED
      BY <1>1, <2>1, <3>1, <3>2 DEF Leaving
  <2>3. QED
    BY <1>1, <1>4, <2>1, <2>2 DEF CallsShaped
<1>9. CASE /\ f.fn = "Wake"
           /\ \E t \in Threads, granted \in Seq(Objects) :
                 /\ t \in Range(waiting_threads[f.obj]) /\ status[t] \in SyncStatus
                 /\ todo' = WakeFrames(t, granted, wait_objects[t]) \o todo
  <2>1. PICK t \in Threads, granted \in Seq(Objects) :
                 /\ t \in Range(waiting_threads[f.obj]) /\ status[t] \in SyncStatus
                 /\ todo' = WakeFrames(t, granted, wait_objects[t]) \o todo
    BY <1>9
  <2> DEFINE X == WakeFrames(t, granted, wait_objects[t])
  <2>2. wait_objects[t] \in Seq(Objects)
    BY DEF TypeOK
  <2>3. /\ todo' = X \o todo
        /\ X = WakeFrames(t, granted, wait_objects[t])
    BY <2>1
  <2> HIDE DEF X
  <2>4. /\ X \in Seq(Frames) /\ Nested(X) /\ Frame("Wakeup", t, Null) \in Range(X)
        /\ \A x \in Range(X) : x.fn \in WakeCalls /\ x.thr = t
    BY <2>2, <2>3, WakeList
  <2>5. ASSUME NEW g \in Range(rest)
        PROVE  /\ g.fn \in {"RemoveWaiting", "ReleaseMutexes", "Rearm", "TerminateThreads"}
               /\ g.fn \in {"RemoveWaiting", "ReleaseMutexes"} => g.thr # t
    <3>1. /\ g.fn \in {"RemoveWaiting", "ReleaseMutexes", "Rearm", "TerminateThreads"}
          /\ g.fn \in {"RemoveWaiting", "ReleaseMutexes"} => status[g.thr] = "Dead"
      BY <1>1, <1>9, BelowWake DEF f, rest
    <3>2. status[t] # "Dead"
      BY <2>1 DEF SyncStatus
    <3>3. QED
      BY <3>1, <3>2
  <2>6. \A x \in Range(X), g \in Range(todo) : Below(x, g)
    <3> SUFFICES ASSUME NEW x \in Range(X), NEW g \in Range(todo) PROVE Below(x, g)
      OBVIOUS
    <3>1. x.fn \in WakeCalls /\ x.thr = t
      BY <2>4
    <3>2. CASE g = f
      BY <1>9, <3>1, <3>2 DEF Below
    <3>3. CASE g \in Range(rest)
      BY <2>5, <3>1, <3>3 DEF Below
    <3>4. QED
      BY <1>1, <3>2, <3>3
  <2>7. \A u \in Threads : Frame("ReleaseMutexes", u, Null) \notin Range(X)
    BY <1>6, <2>4 DEF WakeCalls
  <2>8. \A u \in Threads, o \in Objects :
               Frame("RemoveWaiting", u, o) \in Range(X) => Frame("Wakeup", u, Null) \in Range(X)
    BY <1>6, <2>4
  <2>9. QED
    BY <1>7, <2>4, <2>3, <2>6, <2>7, <2>8
<1>10. CASE /\ f.fn = "Stop"
            /\ f.thr \in Threads /\ status'[f.thr] = "Dead"
            /\ todo' = StopFrames(f.thr, wait_objects[f.thr]) \o rest
  <2> DEFINE t == f.thr
             X == StopFrames(t, wait_objects[t])
  <2>1. t \in Threads /\ wait_objects[t] \in Seq(Objects)
    BY <1>10 DEF TypeOK
  <2>3. /\ todo' = X \o rest
        /\ X = StopFrames(t, wait_objects[t])
    BY <1>10
  <2> HIDE DEF X
  <2>2. /\ X \in Seq(Frames) /\ Nested(X) /\ Frame("ReleaseMutexes", t, Null) \in Range(X)
        /\ \A x \in Range(X) : \/ x.fn = "Wake"
                               \/ x.fn \in {"RemoveWaiting", "ReleaseMutexes"} /\ x.thr = t
    BY <2>1, <2>3, StopList
  <2>4. \A g \in Range(rest) : g.fn = "TerminateThreads"
    BY <1>1, <1>2, <1>10, FrameFields DEF Below, WakeCalls
  <2>5. \A x \in Range(X), g \in Range(rest) : Below(x, g)
    BY <2>2, <2>4 DEF Below, WakeCalls
  <2>6. Range(todo') = Range(X) \cup Range(rest) /\ Nested(todo')
    BY <1>1, <1>2, <2>2, <2>3, <2>5, PushedRange, NestedConcat
  <2>7. ASSUME NEW u \in Threads, Frame("ReleaseMutexes", u, Null) \in Range(todo') PROVE status'[u] = "Dead"
    BY <1>6, <1>10, <2>2, <2>4, <2>6, <2>7
  <2>8. ASSUME NEW u \in Threads, NEW o \in Objects, Frame("RemoveWaiting", u, o) \in Range(todo')
        PROVE  Leaving(u)'
    BY <1>6, <2>2, <2>4, <2>6, <2>8 DEF Leaving
  <2>9. QED
    BY <2>6, <2>7, <2>8 DEF CallsShaped
<1>11. CASE f.fn = "ReleaseMutexes" /\ \E m \in Mutexes : todo' = <<Frame("Wake", Null, m)>> \o todo
  <2>1. PICK m \in Mutexes : todo' = <<Frame("Wake", Null, m)>> \o todo
    BY <1>11
  <2> DEFINE X == <<Frame("Wake", Null, m)>>
  <2>2. X \in Seq(Frames) /\ Nested(X) /\ Range(X) = {Frame("Wake", Null, m)}
    <3>1. m \in Objects
      BY DEF Objects
    <3>2. QED
      BY <3>1, FrameType, NestedSingle, RangeSingle
  <2>3. todo' = X \o todo
    BY <2>1
  <2> HIDE DEF X
  <2>4. \A g \in Range(rest) : g.fn = "TerminateThreads"
    BY <1>1, <1>2, <1>11, FrameFields DEF Below, WakeCalls
  <2>5. \A x \in Range(X), g \in Range(todo) : Below(x, g)
    BY <1>1, <1>6, <1>11, <2>2, <2>4 DEF Below, WakeCalls
  <2>6. /\ \A u \in Threads : Frame("ReleaseMutexes", u, Null) \notin Range(X)
        /\ \A u \in Threads, o \in Objects : Frame("RemoveWaiting", u, o) \notin Range(X)
    <3>1. \A g \in Range(X) : g.fn = "Wake"
      BY <1>6, <2>2
    <3>2. QED
      BY <1>6, <3>1
  <2>7. QED
    BY <1>7, <2>2, <2>3, <2>5, <2>6
<1>12. CASE /\ f.fn = "TerminateThreads"
            /\ \E x \in Threads : \/ todo' = <<Frame("Stop", x, Null)>> \o todo
                                 \/ todo' = <<Frame("Stop", x, Null)>> \o rest
  <2>1. PICK t \in Threads : \/ todo' = <<Frame("Stop", t, Null)>> \o todo
                            \/ todo' = <<Frame("Stop", t, Null)>> \o rest
    BY <1>12
  <2> DEFINE X == <<Frame("Stop", t, Null)>>
  <2>2. X \in Seq(Frames) /\ Nested(X) /\ Range(X) = {Frame("Stop", t, Null)}
    BY FrameType, NestedSingle, RangeSingle
  <2>3. todo' = X \o todo \/ todo' = X \o rest
    BY <2>1
  <2> HIDE DEF X
  <2>4. \A g \in Range(todo) : g.fn = "TerminateThreads"
    BY <1>1, <1>2, <1>12, FrameFields DEF Below, WakeCalls
  <2>5. \A x \in Range(X), g \in Range(todo) : Below(x, g)
    BY <1>1, <1>6, <2>2, <2>4 DEF Below, WakeCalls
  <2>6. Range(todo') \subseteq Range(X) \cup Range(todo) /\ Nested(todo')
    <3>1. CASE todo' = X \o todo
      BY <1>1, <1>2, <2>2, <2>5, <3>1, PushedRange, NestedConcat
    <3>2. CASE todo' = X \o rest
      <4>1. \A x \in Range(X), g \in Range(rest) : Below(x, g)
        BY <1>1, <2>5
      <4>2. Range(todo') = Range(X) \cup Range(rest) /\ Nested(todo')
        BY <1>1, <1>2, <2>2, <3>2, <4>1, PushedRange, NestedConcat
      <4>3. QED
        BY <1>1, <4>2
    <3>3. QED
      BY <2>3, <3>1, <3>2
  <2>7. \A g \in Range(todo') : g.fn \in {"Stop", "TerminateThreads"}
    BY <1>6, <2>2, <2>4, <2>6
  <2>8. /\ \A u \in Threads : Frame("ReleaseMutexes", u, Null) \notin Range(todo')
        /\ \A u \in Threads, o \in Objects : Frame("RemoveWaiting", u, o) \notin Range(todo')
    BY <1>6, <2>7
  <2>9. QED
    BY <2>6, <2>8 DEF CallsShaped
<1>13. QED
  BY <1>8, <1>9, <1>10, <1>11, <1>12, FrameStep DEF f, rest

(* The frames of a handler that does not stop or wake a thread. *)
LEMMA PlainShaped ==
  ASSUME TypeOK', Nested(todo'), \A f \in Range(todo') : f.fn \notin {"ReleaseMutexes", "RemoveWaiting"}
  PROVE  CallsShaped'
<1>1. \A t, o : Frame("ReleaseMutexes", t, o).fn = "ReleaseMutexes" /\ Frame("RemoveWaiting", t, o).fn = "RemoveWaiting"
  BY FrameOf
<1>2. QED
  BY <1>1 DEF CallsShaped

(* What a handler starts with is in shape. *)
LEMMA HandlerShaped ==
  ASSUME TypeOK, TypeOK', RunLoop \/ \E t \in Threads : ThreadCall(t)
  PROVE  CallsShaped'
<1>1. \A fn, t, o : Frame(fn, t, o).fn = fn /\ Frame(fn, t, o).thr = t /\ Frame(fn, t, o).obj = o
  BY FrameOf
<1>2. ASSUME NEW g, todo' = <<g>>, g.fn \notin {"ReleaseMutexes", "RemoveWaiting"} PROVE CallsShaped'
  <2>1. Nested(<<g>>) /\ Range(<<g>>) = {g}
    BY NestedSingle, RangeSingle
  <2>2. QED
    BY <1>2, <2>1, PlainShaped
<1>3. ASSUME NEW fn \in {"Acquire", "AddWaiting", "UpdatePriority"}, NEW t, NEW objs,
             todo' = ForEach(fn, t, objs)
      PROVE  CallsShaped'
  <2>1. Nested(ForEach(fn, t, objs)) /\ \A f \in Range(ForEach(fn, t, objs)) : f.fn = fn
    BY NestedForEach, ForEachFrames
  <2>2. QED
    BY <1>3, <2>1, PlainShaped
<1>4. ASSUME NEW fn \in {"Reschedule", "TerminateThreads"}, NEW t,
             todo' = [i \in 1 .. NumCores |-> Frame(fn, t, i - 1)]
      PROVE  CallsShaped'
  <2>1. DOMAIN todo' = 1 .. NumCores /\ \A i \in 1 .. NumCores : todo'[i].fn = fn
    BY <1>1, <1>4
  <2>2. \A f, g : f.fn = fn /\ g.fn = fn => Below(f, g)
    BY <1>4 DEF Below
  <2>3. Nested(todo')
    BY <2>1, <2>2 DEF Nested
  <2>4. \A f \in Range(todo') : f.fn = fn
    BY <2>1 DEF Range
  <2>5. QED
    BY <1>4, <2>3, <2>4, PlainShaped
<1>5. ASSUME NEW tm \in Timers, todo' = TimerFrames(tm) PROVE CallsShaped'
  <2>1. todo' = <<Frame("Wake", Null, tm), Frame("Rearm", Null, tm)>>
    BY <1>5 DEF TimerFrames
  <2>2. DOMAIN todo' = {1, 2} /\ todo'[1].fn = "Wake" /\ todo'[2].fn = "Rearm"
    BY <1>1, <2>1
  <2>3. Nested(todo')
    BY <2>2 DEF Nested, Below, WakeCalls
  <2>4. \A f \in Range(todo') : f.fn \in {"Wake", "Rearm"}
    BY <2>2 DEF Range
  <2>5. QED
    BY <2>3, <2>4, PlainShaped
<1>6. ASSUME NEW t \in Threads, todo' = WakeFrames(t, <<>>, wait_objects[t]) PROVE CallsShaped'
  <2>1. wait_objects[t] \in Seq(Objects) /\ <<>> \in Seq(Objects)
    BY DEF TypeOK
  <2>2. /\ Nested(todo') /\ Frame("Wakeup", t, Null) \in Range(todo')
        /\ \A x \in Range(todo') : x.fn \in WakeCalls /\ x.thr = t
    BY <1>6, <2>1, WakeList
  <2>3. \A u \in Threads : Frame("ReleaseMutexes", u, Null) \notin Range(todo')
    BY <1>1, <2>2 DEF WakeCalls
  <2>4. \A u \in Threads, o \in Objects : Frame("RemoveWaiting", u, o) \in Range(todo') => u = t
    BY <1>1, <2>2
  <2>5. QED
    BY <2>2, <2>3, <2>4 DEF CallsShaped, Leaving
<1>7. CASE todo' = <<>>
  <2>1. Nested(<<>>) /\ Range(<<>>) = {}
    BY NestedSingle DEF Range
  <2>2. QED
    BY <1>7, <2>1, PlainShaped
<1>8. CASE \/ \E o \in Objects : todo' = <<Frame("Wake", Null, o)>>
           \/ \E t \in Threads : todo' = <<Frame("Stop", t, Null)>> \/ todo' = <<Frame("Resume", t, Null)>>
           \/ \E c \in Cores : todo' = <<Frame("Reschedule", Null, c)>>
  BY <1>1, <1>2, <1>8
<1>9. CASE \/ \E t \in Threads, objs \in Seq(Objects) :
                todo' = ForEach("Acquire", t, objs) \/ todo' = ForEach("AddWaiting", t, objs)
           \/ \E objs \in Seq(Mutexes) : todo' = ForEach("UpdatePriority", Null, objs)
  BY <1>3, <1>9
<1>10. CASE \/ todo' = [i \in 1 .. NumCores |-> Frame("Reschedule", Null, i - 1)]
            \/ \E p \in Threads : todo' = [i \in 1 .. NumCores |-> Frame("TerminateThreads", p, i - 1)]
  BY <1>4, <1>10
<1>11. QED
  BY <1>5, <1>6, <1>7, <1>8, <1>9, <1>10, HandlerStarts

(* The outstanding calls stay in shape. *)
LEMMA NextShaped ==
  ASSUME TypeOK, TypeOK', CallsShaped, [Next]_vars
  PROVE  CallsShaped'
<1>1. CASE RunFrame
  BY <1>1, FrameShaped
<1>2. CASE RunLoop \/ \E t \in Threads : ThreadCall(t)
  BY <1>2, HandlerShaped
<1>3. CASE UNCHANGED vars
  BY <1>3 DEF vars, CallsShaped, Leaving
<1>4. QED
  BY <1>1, <1>2, <1>3 DEF Next

(* With no call outstanding the calls are in shape. *)
LEMMA InitShaped == Init => CallsShaped
<1> SUFFICES ASSUME Init PROVE CallsShaped
  OBVIOUS
<1>1. todo = <<>> /\ Range(todo) = {}
  BY DEF Init, Range
<1>2. QED
  BY <1>1, NestedSingle DEF CallsShaped

-----------------------------------------------------------------------------
(* Current threads and timeouts *)

Rescheduling(c) == Frame("Reschedule", Null, c) \in Range(todo)

\* A core that may execute before it is rescheduled has a current thread that runs, or that another
\* core has stopped
CurrentsRun ==
  /\ running \notin slices
  /\ \A c \in Cores :
       current_thread[c] # Null =>
         /\ CoreOf[current_thread[c]] = c
         /\ c \in slices \/ c = running \/ ~reschedule_pending =>
              status[current_thread[c]] \in {"Running", "Dead"} \/ Rescheduling(c)

\* The invariant that makes the ready queues and the timeouts inductive
SchedulerInv == CallsShaped /\ QueuesMatch /\ CurrentsRun /\ NoStaleTimeout

(* A call takes no other call off. *)
LEMMA TailKept ==
  ASSUME TypeOK, RunFrame
  PROVE  Range(Tail(todo)) \subseteq Range(todo')
<1>1. /\ todo # <<>> /\ Head(todo) \in Frames /\ Tail(todo) \in Seq(Frames) /\ todo \in Seq(Frames)
      /\ Range(todo) = {Head(todo)} \cup Range(Tail(todo))
  BY TodoParts DEF RunFrame
<1>2. ASSUME NEW X \in Seq(Frames), todo' = X \o todo \/ todo' = X \o Tail(todo)
      PROVE  Range(Tail(todo)) \subseteq Range(todo')
  <2> DEFINE rest == Tail(todo)
  <2>1. rest \in Seq(Frames) /\ Range(todo) = {Head(todo)} \cup Range(rest)
        /\ (todo' = X \o todo \/ todo' = X \o rest)
    BY <1>1, <1>2
  <2> HIDE DEF rest
  <2>2. Range(X \o todo) = Range(X) \cup Range(todo)
    BY <1>1, RangeConcat
  <2>3. Range(X \o rest) = Range(X) \cup Range(rest)
    BY <2>1, RangeConcat
  <2>4. Range(rest) \subseteq Range(todo')
    BY <2>1, <2>2, <2>3
  <2>5. QED
    BY <2>4 DEF rest
<1>3. CASE todo' = Tail(todo)
  BY <1>3
<1>4. ASSUME NEW t \in Threads, NEW granted \in Seq(Objects), todo' = WakeFrames(t, granted, wait_objects[t]) \o todo
      PROVE  Range(Tail(todo)) \subseteq Range(todo')
  <2>1. WakeFrames(t, granted, wait_objects[t]) \in Seq(Frames)
    BY WakeList DEF TypeOK
  <2>2. QED
    BY <1>2, <1>4, <2>1
<1>5. ASSUME NEW t \in Threads, todo' = StopFrames(t, wait_objects[t]) \o Tail(todo)
      PROVE  Range(Tail(todo)) \subseteq Range(todo')
  <2>1. StopFrames(t, wait_objects[t]) \in Seq(Frames)
    BY StopList DEF TypeOK
  <2>2. QED
    BY <1>2, <1>5, <2>1
<1>6. ASSUME NEW m \in Mutexes, todo' = <<Frame("Wake", Null, m)>> \o todo
      PROVE  Range(Tail(todo)) \subseteq Range(todo')
  <2>1. <<Frame("Wake", Null, m)>> \in Seq(Frames)
    BY FrameType DEF Objects
  <2>2. QED
    BY <1>2, <1>6, <2>1
<1>7. ASSUME NEW x \in Threads, \/ todo' = <<Frame("Stop", x, Null)>> \o todo
                               \/ todo' = <<Frame("Stop", x, Null)>> \o Tail(todo)
      PROVE  Range(Tail(todo)) \subseteq Range(todo')
  <2>1. <<Frame("Stop", x, Null)>> \in Seq(Frames)
    BY FrameType
  <2>2. QED
    BY <1>2, <1>7, <2>1
<1>8. QED
  BY <1>3, <1>4, <1>5, <1>6, <1>7, FrameStep

(* What a call other than Reschedule may do to threads, cores and timeouts. *)
LEMMA FrameEffect ==
  ASSUME TypeOK, RunFrame, Head(todo).fn # "Reschedule"
  PROVE  /\ current_thread' = current_thread /\ slices' = slices /\ advancing' = advancing
         /\ running' \in {running, NoCore} /\ (reschedule_pending => reschedule_pending')
         /\ \A t \in Threads : \/ status'[t] = status[t]
                               \/ status[t] \in BlockedStatus /\ status'[t] = "Ready" /\ reschedule_pending'
                               \/ status'[t] = "Dead" /\ thread_events'[t] = 0
         /\ \A t \in Threads : thread_events'[t] \in {thread_events[t], 0}
<1> DEFINE f == Head(todo)
<1> USE DEF thread_vars, prio_vars, mutex_vars, wait_vars, signal_vars, event_vars, loop_vars, core_vars
<1>1. todo # <<>> /\ f \in Frames
  BY TailType DEF RunFrame
<1>2. CASE f.fn = "Acquire" /\ Acquire(f.thr, f.obj)
  <2>1. Continue \/ PrepareReschedule
    BY <1>2 DEF Acquire, AcquireMutex, AcquireSemaphore, AcquireSignal, AcquireThread
  <2>2. QED
    BY <1>2, <2>1 DEF Acquire, Continue, PrepareReschedule
<1>3. CASE (f.fn = "Wakeup" /\ Wakeup(f.thr)) \/ (f.fn = "Resume" /\ Resume(f.thr))
  <2>1. f.thr \in Threads
    BY <1>1, <1>3, FrameArguments
  <2>2. ResumeFromWait(f.thr) /\ UNCHANGED <<current_thread, slices, advancing, thread_events>>
    BY <1>3 DEF Wakeup, Resume
  <2>3. QED
    BY <2>1, <2>2 DEF ResumeFromWait, PrepareReschedule, Continue, TypeOK
<1>4. CASE f.fn = "Stop" /\ Stop(f.thr)
  <2>1. f.thr \in Threads
    BY <1>1, <1>4, FrameArguments
  <2>2. /\ UNCHANGED <<current_thread, slices, advancing, running, reschedule_pending>>
        /\ status' = [status EXCEPT ![f.thr] = "Dead"] /\ thread_events' = [thread_events EXCEPT ![f.thr] = 0]
    BY <1>4 DEF Stop, UnscheduleEvent
  <2>3. QED
    BY <2>1, <2>2 DEF TypeOK
<1>5. CASE f.fn = "TerminateThreads" /\ TerminateProcessThreads(f.thr, f.obj)
  <2>1. Continue \/ PrepareReschedule
    BY <1>5 DEF TerminateProcessThreads
  <2>2. UNCHANGED <<status, event_vars, advancing, slices, core_vars>>
    BY <1>5 DEF TerminateProcessThreads
  <2>3. QED
    BY <2>1, <2>2 DEF Continue, PrepareReschedule
<1>6. CASE UNCHANGED <<status, current_thread, loop_vars, thread_events>>
  BY <1>6
<1>7. QED
  <2>1. \/ f.fn = "Acquire" /\ Acquire(f.thr, f.obj)
        \/ (f.fn = "Wakeup" /\ Wakeup(f.thr)) \/ (f.fn = "Resume" /\ Resume(f.thr))
        \/ f.fn = "Stop" /\ Stop(f.thr)
        \/ f.fn = "TerminateThreads" /\ TerminateProcessThreads(f.thr, f.obj)
        \/ UNCHANGED <<status, current_thread, loop_vars, thread_events>>
    BY DEF RunFrame, AddWaitingThread, RemoveWaitingThread, WakeupAllWaitingThreads, Rearm,
           UpdatePendingMutex, ReleaseThreadMutexes
  <2>2. QED
    BY <1>2, <1>3, <1>4, <1>5, <1>6, <2>1

(* Steps that switch no core and suspend no current thread keep CurrentsRun. *)
LEMMA CurrentsKept ==
  ASSUME TypeOK, CurrentsRun, current_thread' = current_thread, slices' = slices,
         running' \in {running, NoCore}, reschedule_pending => reschedule_pending',
         \A c \in Cores : Rescheduling(c) => Rescheduling(c)',
         \A t \in Threads : status[t] \in {"Running", "Dead"} => status'[t] \in {"Running", "Dead"}
  PROVE  CurrentsRun'
<1>1. running' \notin slices'
  <2>1. NoCore \notin Cores
    BY CoresNat DEF NoCore
  <2>2. QED
    BY <2>1 DEF CurrentsRun, TypeOK
<1>2. ASSUME NEW c \in Cores, current_thread[c] # Null
      PROVE  /\ CoreOf[current_thread[c]] = c
             /\ c \in slices \/ c = running' \/ ~reschedule_pending' =>
                  status'[current_thread[c]] \in {"Running", "Dead"} \/ Rescheduling(c)'
  <2>1. current_thread[c] \in Threads
    BY <1>2 DEF TypeOK
  <2>2. NoCore \notin Cores
    BY CoresNat DEF NoCore
  <2>3. c = running' => c = running
    BY <2>2
  <2>4. QED
    BY <1>2, <2>1, <2>3 DEF CurrentsRun
<1>3. QED
  BY <1>1, <1>2 DEF CurrentsRun

(* Steps that add no timeout and settle a thread only without one keep NoStaleTimeout. *)
LEMMA TimeoutsKept ==
  ASSUME TypeOK, NoStaleTimeout,
         \A t \in Threads : thread_events'[t] \in {thread_events[t], 0},
         \A t \in Threads : \/ status'[t] = status[t] \/ status'[t] \notin {"Running", "Dead", "Unborn"}
                            \/ thread_events'[t] = 0
  PROVE  NoStaleTimeout'
<1> SUFFICES ASSUME NEW t \in Threads
             PROVE  /\ thread_events'[t] <= 1
                    /\ status'[t] \in {"Running", "Dead", "Unborn"} => thread_events'[t] = 0
  BY DEF NoStaleTimeout
<1>1. thread_events[t] <= 1 /\ (status[t] \in {"Running", "Dead", "Unborn"} => thread_events[t] = 0)
  BY DEF NoStaleTimeout
<1>2. QED
  BY <1>1

(* Every call other than Reschedule keeps the ready queues right. *)
LEMMA FrameMatch ==
  ASSUME TypeOK, QueuesMatch, RunFrame, Head(todo).fn # "Reschedule"
  PROVE  QueuesMatch'
<1> DEFINE f == Head(todo)
<1> USE DEF thread_vars, prio_vars, mutex_vars, wait_vars, signal_vars, event_vars, loop_vars, core_vars
<1>1. todo # <<>> /\ f \in Frames
  BY TailType DEF RunFrame
<1>2. CASE UNCHANGED <<status, current_priority, ready_queue>>
  BY <1>2, MatchKept
<1>3. CASE f.fn = "Acquire" /\ Acquire(f.thr, f.obj)
  <2>1. f.thr \in Threads /\ status' = status
    BY <1>1, <1>3, FrameArguments DEF Acquire
  <2>2. CASE f.obj \in Mutexes /\ AcquireMutex(f.obj, f.thr) /\ lock_count[f.obj] = 0
    <3>1. BoostPriority(f.thr, BestPriority(nominal_priority[f.thr], held_mutexes'[f.thr], priority'))
      BY <2>2 DEF AcquireMutex
    <3>2. held_mutexes' \in [Threads -> SUBSET Mutexes] /\ priority' \in [Mutexes -> Priorities]
      BY <2>1, <2>2, AcquireMutexType DEF PrioTypeOK
    <3>3. nominal_priority[f.thr] \in Priorities /\ held_mutexes'[f.thr] \subseteq Mutexes
      BY <2>1, <3>2 DEF TypeOK
    <3>4. BestPriority(nominal_priority[f.thr], held_mutexes'[f.thr], priority') \in Priorities
      BY <3>2, <3>3, BestPriorityType
    <3>5. QED
      BY <2>1, <3>1, <3>4, MatchBoost
  <2>3. CASE ~(f.obj \in Mutexes /\ AcquireMutex(f.obj, f.thr) /\ lock_count[f.obj] = 0)
    <3>1. UNCHANGED prio_vars
      BY <1>3, <2>3 DEF Acquire, AcquireMutex, AcquireSemaphore, AcquireSignal, AcquireThread
    <3>2. QED
      BY <1>2, <2>1, <3>1
  <2>4. QED
    BY <2>2, <2>3
<1>4. CASE \/ f.fn = "AddWaiting" /\ AddWaitingThread(f.thr, f.obj)
           \/ f.fn = "RemoveWaiting" /\ RemoveWaitingThread(f.thr, f.obj)
  <2>1. f.thr \in Threads /\ f.obj \in Objects /\ status' = status
    BY <1>1, <1>4, FrameArguments DEF AddWaitingThread, RemoveWaitingThread
  <2>2. waiting_threads[f.obj] \in Seq(Threads)
    BY <2>1 DEF TypeOK
  <2>3. CASE f.obj \in Mutexes
    <3>1. PICK ws \in Seq(Threads) : MutexUpdatePriority(f.obj, ws)
      <4>1. CASE f.fn = "AddWaiting" /\ AddWaitingThread(f.thr, f.obj)
        <5> DEFINE ws == IF f.thr \in Range(waiting_threads[f.obj]) THEN waiting_threads[f.obj]
                         ELSE Append(waiting_threads[f.obj], f.thr)
        <5>1. ws \in Seq(Threads)
          BY <2>1, <2>2
        <5>2. MutexUpdatePriority(f.obj, ws)
          BY <2>3, <4>1 DEF AddWaitingThread
        <5> HIDE DEF ws
        <5>3. QED
          BY <5>1, <5>2
      <4>2. CASE f.fn = "RemoveWaiting" /\ RemoveWaitingThread(f.thr, f.obj)
        <5>1. RemoveFirst(waiting_threads[f.obj], f.thr) \in Seq(Threads)
          BY <2>2, RemoveFirstType
        <5>2. MutexUpdatePriority(f.obj, RemoveFirst(waiting_threads[f.obj], f.thr))
          BY <2>3, <4>2 DEF RemoveWaitingThread
        <5>3. QED
          BY <5>1, <5>2
      <4>3. QED
        BY <1>4, <4>1, <4>2
    <3>2. QED
      BY <2>1, <2>3, <3>1, MatchMutexUpdate
  <2>4. CASE f.obj \notin Mutexes
    <3>1. UNCHANGED prio_vars
      BY <1>4, <2>4 DEF AddWaitingThread, RemoveWaitingThread
    <3>2. QED
      BY <1>2, <2>1, <3>1
  <2>5. QED
    BY <2>3, <2>4
<1>5. CASE (f.fn = "Wakeup" /\ Wakeup(f.thr)) \/ (f.fn = "Resume" /\ Resume(f.thr))
  <2>1. f.thr \in Threads /\ ResumeFromWait(f.thr) /\ current_priority' = current_priority
    BY <1>1, <1>5, FrameArguments DEF Wakeup, Resume
  <2>2. CASE status[f.thr] \in BlockedStatus
    <3>1. status[f.thr] # "Ready"
      BY <2>2 DEF BlockedStatus, SyncStatus
    <3>2. /\ status' = [status EXCEPT ![f.thr] = "Ready"]
          /\ ready_queue' = [ready_queue EXCEPT ![CoreOf[f.thr]][current_priority[f.thr]] = Append(@, f.thr)]
      BY <2>1, <2>2 DEF ResumeFromWait
    <3> HIDE DEF f
    <3>3. QED
      BY <2>1, <3>1, <3>2, MatchEnqueue
  <2>3. CASE status[f.thr] \notin BlockedStatus
    BY <1>2, <2>1, <2>3 DEF ResumeFromWait
  <2>4. QED
    BY <2>2, <2>3
<1>6. CASE f.fn = "UpdatePriority" /\ UpdatePendingMutex(f.obj)
  <2>1. f.obj \in Mutexes /\ status' = status /\ MutexUpdatePriority(f.obj, waiting_threads[f.obj])
    BY <1>1, <1>6, FrameArguments DEF UpdatePendingMutex
  <2>2. waiting_threads[f.obj] \in Seq(Threads)
    BY <2>1 DEF TypeOK, Objects
  <2>3. QED
    BY <2>1, <2>2, MatchMutexUpdate
<1>7. CASE f.fn = "Stop" /\ Stop(f.thr)
  <2>1. f.thr \in Threads
    BY <1>1, <1>7, FrameArguments
  <2>2. /\ status' = [status EXCEPT ![f.thr] = "Dead"] /\ current_priority' = current_priority
        /\ ready_queue' = IF status[f.thr] = "Ready"
                          THEN [ready_queue EXCEPT ![CoreOf[f.thr]][current_priority[f.thr]] = RemoveFirst(@, f.thr)]
                          ELSE ready_queue
    BY <1>7 DEF Stop
  <2>3. "Dead" \in ThreadStatus /\ "Dead" # "Ready"
    BY DEF ThreadStatus
  <2> HIDE DEF f
  <2>4. QED
    BY <2>1, <2>2, <2>3, MatchDequeue
<1>8. QED
  <2>1. \/ UNCHANGED <<status, current_priority, ready_queue>>
        \/ f.fn = "Acquire" /\ Acquire(f.thr, f.obj)
        \/ f.fn = "AddWaiting" /\ AddWaitingThread(f.thr, f.obj)
        \/ f.fn = "RemoveWaiting" /\ RemoveWaitingThread(f.thr, f.obj)
        \/ (f.fn = "Wakeup" /\ Wakeup(f.thr)) \/ (f.fn = "Resume" /\ Resume(f.thr))
        \/ f.fn = "UpdatePriority" /\ UpdatePendingMutex(f.obj)
        \/ f.fn = "Stop" /\ Stop(f.thr)
    BY DEF RunFrame, WakeupAllWaitingThreads, Rearm, ReleaseThreadMutexes, TerminateProcessThreads
  <2>2. QED
    BY <1>2, <1>3, <1>4, <1>5, <1>6, <1>7, <2>1

(* What ThreadManager::Reschedule does to core c: it stays, idles, or switches to a ready thread of *)
(* its own at the best priority; no thread of another core is touched.                              *)
LEMMA RescheduleEffect ==
  ASSUME TypeOK, SchedulerInv, NEW c \in Cores, Reschedule(c)
  PROVE  /\ QueuesMatch'
         /\ current_priority' = current_priority /\ UNCHANGED loop_vars
         /\ \A d \in Cores : d # c => current_thread'[d] = current_thread[d]
         /\ \A t \in Threads : CoreOf[t] # c => status'[t] = status[t]
         /\ \A t \in Threads : \/ status'[t] = status[t]
                               \/ status[t] = "Ready" /\ status'[t] = "Running" /\ thread_events'[t] = 0
                               \/ status[t] = "Running" /\ status'[t] = "Ready"
         /\ \A t \in Threads : thread_events'[t] \in {thread_events[t], 0}
         /\ \/ /\ BetterQueues(c) = {} /\ StaysRunnable(c) /\ UNCHANGED <<status, current_thread>>
            \/ /\ BetterQueues(c) = {} /\ ~StaysRunnable(c) /\ current_thread'[c] = Null /\ UNCHANGED status
            \/ \E p \in BetterQueues(c), t \in Threads :
                 /\ \A q \in BetterQueues(c) : p <= q
                 /\ CoreOf[t] = c /\ current_priority[t] = p /\ current_thread'[c] = t /\ status'[t] = "Running"
                 /\ \A u \in Threads : status'[u] = "Ready" =>
                                         status[u] = "Ready" \/ (u = current_thread[c] /\ StaysRunnable(c))
<1>1. current_priority' = current_priority /\ UNCHANGED loop_vars
  BY DEF Reschedule
<1>2. CASE BetterQueues(c) = {}
  <2>1. StayOrIdle(c)
    BY <1>2 DEF Reschedule
  <2>2. UNCHANGED <<status, ready_queue>>
    BY <2>1 DEF StayOrIdle
  <2>3. QueuesMatch'
    BY <1>1, <2>2, MatchKept DEF SchedulerInv
  <2>4. CASE StaysRunnable(c)
    <3>1. current_thread' = current_thread /\ thread_events' = [thread_events EXCEPT ![current_thread[c]] = 0]
      BY <2>1, <2>4 DEF StayOrIdle, UnscheduleEvent
    <3>2. \A t \in Threads : thread_events'[t] \in {thread_events[t], 0}
      BY <3>1 DEF TypeOK
    <3>3. QED
      BY <1>1, <1>2, <2>2, <2>3, <2>4, <3>1, <3>2
  <2>5. CASE ~StaysRunnable(c)
    <3>1. current_thread' = [current_thread EXCEPT ![c] = Null] /\ thread_events' = thread_events
      BY <2>1, <2>5 DEF StayOrIdle
    <3>2. current_thread'[c] = Null /\ \A d \in Cores : d # c => current_thread'[d] = current_thread[d]
      BY <3>1 DEF TypeOK
    <3>3. QED
      BY <1>1, <1>2, <2>2, <2>3, <2>5, <3>1, <3>2
  <2>6. QED
    BY <2>4, <2>5
<1>3. CASE BetterQueues(c) # {}
  <2> DEFINE p == Min(BetterQueues(c))
             next == Head(ready_queue[c][p])
             cur == current_thread[c]
  <2>1. BetterQueues(c) \subseteq Nat
    BY PrioritiesAssumption DEF BetterQueues, Priorities
  <2>2. p \in BetterQueues(c) /\ \A q \in BetterQueues(c) : p <= q
    BY <1>3, <2>1, MinNat
  <2>3. SwitchTo(c, p)
    BY <1>3 DEF Reschedule
  <2>4. cur # Null => CoreOf[cur] = c
    BY DEF SchedulerInv, CurrentsRun
  <2> HIDE DEF p
  <2>5. QueuesMatch' /\ next \in ReadyAt(c, p)
    BY <1>1, <2>2, <2>3, <2>4, MatchSwitch DEF SchedulerInv
  <2>6. next \in Threads /\ status[next] = "Ready" /\ CoreOf[next] = c /\ current_priority[next] = p
    BY <2>5 DEF ReadyAt
  <2>7. /\ status' = [t \in Threads |-> IF t = next THEN "Running"
                                        ELSE IF t = cur /\ StaysRunnable(c) THEN "Ready"
                                        ELSE status[t]]
        /\ current_thread' = [current_thread EXCEPT ![c] = next]
        /\ thread_events' = [thread_events EXCEPT ![next] = 0]
    BY <2>3 DEF SwitchTo, UnscheduleEvent
  <2>8. StaysRunnable(c) => cur # Null /\ status[cur] = "Running"
    BY DEF StaysRunnable
  <2> HIDE DEF next
  <2>9. /\ current_thread'[c] = next /\ \A d \in Cores : d # c => current_thread'[d] = current_thread[d]
        /\ \A t \in Threads : thread_events'[t] \in {thread_events[t], 0}
        /\ thread_events'[next] = 0
    BY <2>6, <2>7 DEF TypeOK
  <2>10. \A t \in Threads : CoreOf[t] # c => status'[t] = status[t]
    BY <2>4, <2>6, <2>7, <2>8
  <2>11. \A t \in Threads : \/ status'[t] = status[t]
                            \/ status[t] = "Ready" /\ status'[t] = "Running" /\ thread_events'[t] = 0
                            \/ status[t] = "Running" /\ status'[t] = "Ready"
    BY <2>6, <2>7, <2>8, <2>9
  <2>12. status'[next] = "Running" /\ \A u \in Threads : status'[u] = "Ready" =>
                                         status[u] = "Ready" \/ (u = current_thread[c] /\ StaysRunnable(c))
    BY <2>6, <2>7
  <2>13. QED
    BY <1>1, <2>2, <2>5, <2>6, <2>9, <2>10, <2>11, <2>12
<1>4. QED
  BY <1>2, <1>3

(* Reschedule keeps the invariant: the core it serves has a running thread or none. *)
LEMMA RescheduleKeeps ==
  ASSUME TypeOK, SchedulerInv, NEW c \in Cores, Reschedule(c), RunFrame, Head(todo).obj = c
  PROVE  SchedulerInv'
<1>1. CallsShaped'
  BY FrameShaped DEF SchedulerInv
<1>2. QueuesMatch'
  BY RescheduleEffect
<1>3. NoStaleTimeout'
  <2>1. \A t \in Threads : \/ status'[t] = status[t] \/ status'[t] \notin {"Running", "Dead", "Unborn"}
                           \/ thread_events'[t] = 0
    BY RescheduleEffect
  <2>2. \A t \in Threads : thread_events'[t] \in {thread_events[t], 0}
    BY RescheduleEffect
  <2>3. QED
    BY <2>1, <2>2, TimeoutsKept DEF SchedulerInv
<1>4. running' \notin slices' /\ running' = running /\ slices' = slices /\ reschedule_pending' = reschedule_pending
  BY RescheduleEffect DEF SchedulerInv, CurrentsRun, loop_vars
<1>5. ASSUME NEW d \in Cores, current_thread'[d] # Null
      PROVE  /\ CoreOf[current_thread'[d]] = d
             /\ d \in slices' \/ d = running' \/ ~reschedule_pending' =>
                  status'[current_thread'[d]] \in {"Running", "Dead"} \/ Rescheduling(d)'
  <2>1. CASE d # c
    <3>0. current_thread'[d] = current_thread[d]
      BY <2>1, RescheduleEffect
    <3>1. current_thread'[d] = current_thread[d] /\ CoreOf[current_thread[d]] = d /\ current_thread[d] \in Threads
      BY <1>5, <3>0 DEF SchedulerInv, CurrentsRun, TypeOK
    <3>2. status'[current_thread[d]] = status[current_thread[d]]
      BY <2>1, <3>1, RescheduleEffect
    <3>3. Rescheduling(d) => Rescheduling(d)'
      <4>1. Frame("Reschedule", Null, d) # Head(todo)
        BY <2>1, FrameOf
      <4>2. Range(todo) = {Head(todo)} \cup Range(Tail(todo)) /\ Range(Tail(todo)) \subseteq Range(todo')
        BY TodoParts, TailKept DEF RunFrame
      <4>3. QED
        BY <4>1, <4>2 DEF Rescheduling
    <3>4. d \in slices \/ d = running \/ ~reschedule_pending =>
            status[current_thread[d]] \in {"Running", "Dead"} \/ Rescheduling(d)
      BY <3>1, <1>5 DEF SchedulerInv, CurrentsRun
    <3>5. QED
      BY <1>4, <3>1, <3>2, <3>3, <3>4
  <2>2. CASE d = c
    <3>1. CASE StaysRunnable(c) /\ UNCHANGED <<status, current_thread>>
      BY <2>2, <1>5, <3>1 DEF StaysRunnable, SchedulerInv, CurrentsRun
    <3>2. CASE \E t \in Threads : CoreOf[t] = c /\ current_thread'[c] = t /\ status'[t] = "Running"
      BY <2>2, <3>2
    <3>3. QED
      BY <1>5, <2>2, <3>1, <3>2, RescheduleEffect
  <2>3. QED
    BY <2>1, <2>2
<1>6. CurrentsRun'
  BY <1>4, <1>5 DEF CurrentsRun
<1>7. QED
  BY <1>1, <1>2, <1>3, <1>6 DEF SchedulerInv

(* Every call keeps the invariant. *)
LEMMA FrameKeeps ==
  ASSUME TypeOK, SchedulerInv, RunFrame
  PROVE  SchedulerInv'
<1>1. Head(todo) \in Frames
  BY TailType DEF RunFrame
<1>2. CASE Head(todo).fn = "Reschedule"
  <2>1. Head(todo).obj \in Cores
    BY <1>1, <1>2, FrameArguments
  <2>2. Reschedule(Head(todo).obj)
    BY <1>2 DEF RunFrame
  <2>3. QED
    BY <2>1, <2>2, RescheduleKeeps
<1>3. CASE Head(todo).fn # "Reschedule"
  <2>1. CallsShaped' /\ QueuesMatch'
    BY <1>3, FrameShaped, FrameMatch DEF SchedulerInv
  <2>2. \A c \in Cores : Rescheduling(c) => Rescheduling(c)'
    <3>1. \A c \in Cores : Frame("Reschedule", Null, c) # Head(todo)
      BY <1>3, FrameOf
    <3>2. Range(todo) = {Head(todo)} \cup Range(Tail(todo)) /\ Range(Tail(todo)) \subseteq Range(todo')
      BY TodoParts, TailKept DEF RunFrame
    <3>3. QED
      BY <3>1, <3>2 DEF Rescheduling
  <2>3. /\ current_thread' = current_thread /\ slices' = slices
        /\ running' \in {running, NoCore} /\ (reschedule_pending => reschedule_pending')
        /\ \A t \in Threads : \/ status'[t] = status[t]
                              \/ status[t] \in BlockedStatus /\ status'[t] = "Ready" /\ reschedule_pending'
                              \/ status'[t] = "Dead" /\ thread_events'[t] = 0
        /\ \A t \in Threads : thread_events'[t] \in {thread_events[t], 0}
    BY <1>3, FrameEffect
  <2>4. \A t \in Threads : status[t] \in {"Running", "Dead"} => status'[t] \in {"Running", "Dead"}
    BY <2>3 DEF BlockedStatus, SyncStatus
  <2>5. CurrentsRun'
    BY <2>2, <2>3, <2>4, CurrentsKept DEF SchedulerInv
  <2>6. \A t \in Threads : \/ status'[t] = status[t] \/ status'[t] \notin {"Running", "Dead", "Unborn"}
                           \/ thread_events'[t] = 0
    BY <2>3
  <2>7. NoStaleTimeout'
    BY <2>3, <2>6, TimeoutsKept DEF SchedulerInv
  <2>8. QED
    BY <2>1, <2>5, <2>7 DEF SchedulerInv
<1>4. QED
  BY <1>2, <1>3

(* The steps of the run loop and the events keep the invariant: a slice starts on a core whose      *)
(* current thread runs, and the timeout that fires was the only one.                                *)
LEMMA LoopKeeps ==
  ASSUME TypeOK, TypeOK', SchedulerInv, RunLoop
  PROVE  SchedulerInv'
<1> USE DEF thread_vars, prio_vars, mutex_vars, wait_vars, signal_vars, event_vars, loop_vars, core_vars
<1>1. todo = <<>> /\ Range(todo) = {} /\ \A c \in Cores : ~Rescheduling(c)
  BY HandlerStarts DEF Rescheduling, Range
<1>2. CallsShaped'
  BY HandlerShaped
<1>3. UNCHANGED <<status, current_priority, ready_queue, current_thread>>
  BY DEF RunLoop, StartIteration, AdvanceDone, StartSlice, EndSlice, RescheduleAll,
         ThreadWakeupCallback, TimerCallback, ServiceSignal, EventSignal
<1>4. QueuesMatch'
  BY <1>3, MatchKept DEF SchedulerInv
<1>5. \A t \in Threads : thread_events'[t] \in {thread_events[t], 0}
  <2>1. CASE UNCHANGED thread_events
    BY <2>1
  <2>2. ASSUME NEW x \in Threads, ThreadWakeupCallback(x)
        PROVE  \A t \in Threads : thread_events'[t] \in {thread_events[t], 0}
    <3>1. thread_events[x] \in Nat /\ thread_events[x] <= 1 /\ thread_events[x] > 0
      BY <2>2 DEF ThreadWakeupCallback, TypeOK, SchedulerInv, NoStaleTimeout
    <3>2. thread_events[x] - 1 = 0
      BY <3>1
    <3>3. thread_events' = [thread_events EXCEPT ![x] = thread_events[x] - 1]
      BY <2>2 DEF ThreadWakeupCallback
    <3>4. QED
      BY <3>2, <3>3 DEF TypeOK
  <2>3. QED
    BY <2>1, <2>2 DEF RunLoop, StartIteration, AdvanceDone, StartSlice, EndSlice, RescheduleAll,
           TimerCallback, ServiceSignal, EventSignal
<1>6. NoStaleTimeout'
  BY <1>3, <1>5, TimeoutsKept DEF SchedulerInv
<1>7. NoCore \notin Cores
  BY CoresNat DEF NoCore
<1>8. ASSUME running' \notin slices',
             \A c \in Cores : c \in slices' \/ c = running' \/ ~reschedule_pending' =>
                                c \in slices \/ c = running \/ ~reschedule_pending \/ Rescheduling(c)'
      PROVE  CurrentsRun'
  <2>1. ASSUME NEW c \in Cores, current_thread'[c] # Null
        PROVE  /\ CoreOf[current_thread'[c]] = c
               /\ c \in slices' \/ c = running' \/ ~reschedule_pending' =>
                    status'[current_thread'[c]] \in {"Running", "Dead"} \/ Rescheduling(c)'
    BY <1>1, <1>3, <1>8, <2>1 DEF SchedulerInv, CurrentsRun
  <2>2. QED
    BY <1>8, <2>1 DEF CurrentsRun
<1>9. ASSUME StartIteration PROVE CurrentsRun'
  <2>1. UNCHANGED <<running, reschedule_pending>> /\ running = NoCore /\ ~reschedule_pending /\ slices' \subseteq Cores
    BY <1>9 DEF StartIteration, Quiet, TypeOK
  <2>2. QED
    BY <1>7, <1>8, <2>1
<1>10. ASSUME StartSlice PROVE CurrentsRun'
  <2>1. slices \subseteq Cores /\ slices # {} /\ slices \subseteq Nat
    BY <1>10, CoresNat DEF StartSlice, TypeOK
  <2>2. Min(slices) \in slices
    BY <2>1, MinNat
  <2>3. slices' = slices \ {Min(slices)}
    BY <1>10 DEF StartSlice
  <2>4. CASE current_thread[Min(slices)] = Null
    BY <1>7, <1>8, <1>10, <2>1, <2>2, <2>3, <2>4 DEF StartSlice, PrepareReschedule
  <2>5. CASE current_thread[Min(slices)] # Null
    BY <1>8, <1>10, <2>1, <2>2, <2>3, <2>5 DEF StartSlice
  <2>6. QED
    BY <2>4, <2>5
<1>11. ASSUME RescheduleAll PROVE CurrentsRun'
  <2>1. ASSUME NEW c \in Cores PROVE Rescheduling(c)'
    <3>1. c + 1 \in 1 .. NumCores /\ (c + 1) - 1 = c
      BY CoresAssumption DEF Cores
    <3>2. todo'[c + 1] = Frame("Reschedule", Null, c) /\ c + 1 \in DOMAIN todo'
      BY <1>11, <3>1 DEF RescheduleAll
    <3>3. QED
      BY <3>2 DEF Rescheduling, Range
  <2>2. running' \notin slices'
    BY <1>11 DEF RescheduleAll, SchedulerInv, CurrentsRun
  <2>3. QED
    BY <1>8, <2>1, <2>2
<1>12. ASSUME UNCHANGED <<slices, reschedule_pending>> /\ running' \in {running, NoCore} PROVE CurrentsRun'
  <2>1. running' \notin slices'
    BY <1>7, <1>12 DEF SchedulerInv, CurrentsRun, TypeOK
  <2>2. QED
    BY <1>7, <1>8, <1>12, <2>1
<1>13. CurrentsRun'
  BY <1>9, <1>10, <1>11, <1>12 DEF RunLoop, AdvanceDone, EndSlice, ThreadWakeupCallback,
         TimerCallback, ServiceSignal, EventSignal
<1>14. QED
  BY <1>2, <1>4, <1>6, <1>13 DEF SchedulerInv

(* What an SVC may do to threads, cores and timeouts before its calls: nothing, move one thread,    *)
(* make a new thread ready, or suspend the thread that called it.                                   *)
LEMMA CallEffect ==
  ASSUME TypeOK, NEW t \in Threads, ThreadCall(t)
  PROVE  /\ todo = <<>> /\ running \in Cores /\ current_thread[running] = t
         /\ current_thread' = current_thread /\ slices' = slices /\ advancing' = advancing
         /\ running' \in {running, NoCore} /\ (reschedule_pending => reschedule_pending')
         /\ \/ /\ UNCHANGED <<status, thread_events>>
               /\ \/ UNCHANGED <<current_priority, ready_queue>>
                  \/ \E x \in Threads, new \in Priorities : BoostPriority(x, new) /\ reschedule_pending'
            \/ \E x \in Threads :
                 /\ status[x] = "Unborn" /\ status' = [status EXCEPT ![x] = "Ready"]
                 /\ ready_queue' = [ready_queue EXCEPT ![CoreOf[x]][current_priority[x]] = Append(@, x)]
                 /\ UNCHANGED <<current_priority, thread_events>> /\ reschedule_pending'
            \/ \E st \in BlockedStatus, k \in {0, 1} :
                 /\ status' = [status EXCEPT ![t] = st]
                 /\ thread_events' = [thread_events EXCEPT ![t] = thread_events[t] + k]
                 /\ UNCHANGED <<current_priority, ready_queue>>
                 /\ reschedule_pending' /\ running' = NoCore
<1> DEFINE Common ==
             /\ todo = <<>> /\ running \in Cores /\ current_thread[running] = t
             /\ current_thread' = current_thread /\ slices' = slices /\ advancing' = advancing
             /\ running' \in {running, NoCore} /\ (reschedule_pending => reschedule_pending')
           Same == UNCHANGED <<status, thread_events>> /\ UNCHANGED <<current_priority, ready_queue>>
           Moved == /\ UNCHANGED <<status, thread_events>>
                    /\ \E x \in Threads, new \in Priorities : BoostPriority(x, new) /\ reschedule_pending'
           Made == \E x \in Threads :
                 /\ status[x] = "Unborn" /\ status' = [status EXCEPT ![x] = "Ready"]
                 /\ ready_queue' = [ready_queue EXCEPT ![CoreOf[x]][current_priority[x]] = Append(@, x)]
                 /\ UNCHANGED <<current_priority, thread_events>> /\ reschedule_pending'
           Suspended == \E st \in BlockedStatus, k \in {0, 1} :
                 /\ status' = [status EXCEPT ![t] = st]
                 /\ thread_events' = [thread_events EXCEPT ![t] = thread_events[t] + k]
                 /\ UNCHANGED <<current_priority, ready_queue>>
                 /\ reschedule_pending' /\ running' = NoCore
           Goal == Common /\ (Same \/ Moved \/ Made \/ Suspended)
<1> USE DEF thread_vars, prio_vars, mutex_vars, wait_vars, signal_vars, event_vars, loop_vars, core_vars
<1>0. \A name : Svc(name, t) => todo = <<>> /\ running \in Cores /\ current_thread[running] = t
  BY DEF Svc, TypeOK
<1>11. ASSUME NEW st \in BlockedStatus, NEW ns, status' = [status EXCEPT ![t] = st], WakeAfterDelay(t, ns),
             UNCHANGED <<current_priority, ready_queue>>, PrepareReschedule
      PROVE  Suspended
  <2>1. PICK k \in {0, 1} : k = IF ns = "forever" THEN 0 ELSE 1
    OBVIOUS
  <2>2. thread_events[t] \in Nat
    BY DEF TypeOK
  <2>3. (IF ns = "forever" THEN thread_events[t] ELSE thread_events[t] + 1) = thread_events[t] + k
    BY <2>1, <2>2
  <2>4. thread_events' = [thread_events EXCEPT ![t] = thread_events[t] + k]
    BY <1>11, <2>3 DEF WakeAfterDelay
  <2>5. reschedule_pending' /\ running' = NoCore
    BY <1>11 DEF PrepareReschedule
  <2>6. QED
    BY <1>11, <2>4, <2>5
<1>1. ASSUME NEW x \in Threads, CreateThread(t, x) PROVE Goal
  <2>1. Made
    BY <1>1 DEF CreateThread, PrepareReschedule
  <2>2. Common
    BY <1>0, <1>1 DEF CreateThread, PrepareReschedule
  <2> HIDE DEF Made, Common
  <2>3. QED
    BY <2>1, <2>2
<1>2. ASSUME ExitThread(t) \/ \E p \in Threads : TerminateProcess(t, p) PROVE Goal
  <2>1. Same
    BY <1>2 DEF ExitThread, TerminateProcess
  <2>2. Common
    BY <1>0, <1>2 DEF ExitThread, TerminateProcess, PrepareReschedule
  <2>3. QED
    BY <2>1, <2>2
<1>3. ASSUME NEW x \in Threads, NEW p \in SetPriorities, SetThreadPriority(t, x, p) PROVE Goal
  <2>1. held_mutexes[x] \subseteq Mutexes /\ p \in Priorities /\ priority \in [Mutexes -> Priorities]
    BY PrioritiesAssumption DEF TypeOK
  <2>2. BestPriority(p, held_mutexes[x], priority) \in Priorities
    BY <2>1, BestPriorityType
  <2>3. Moved
    BY <1>3, <2>2 DEF SetThreadPriority, PrepareReschedule
  <2>4. Common
    BY <1>0, <1>3 DEF SetThreadPriority, PrepareReschedule
  <2> HIDE DEF Moved, Common
  <2>5. QED
    BY <2>3, <2>4
<1>4. ASSUME NEW o \in Waitable(t), NEW ns \in Delays, WaitSynchronization1(t, o, ns) PROVE Goal
  <2>1. /\ Svc("WaitSynchronization1", t) /\ WaitUnchanged
        /\ AcquireNow(t, <<o>>) \/ TimeoutNow \/ Suspend(t, <<o>>, "WaitSynchAny", ns)
    BY <1>4 DEF WaitSynchronization1
  <2>2. Common
    BY <1>0, <2>1 DEF WaitUnchanged, AcquireNow, TimeoutNow, Suspend, Continue, PrepareReschedule
  <2>3. CASE AcquireNow(t, <<o>>) \/ TimeoutNow
    BY <2>1, <2>2, <2>3 DEF WaitUnchanged, AcquireNow, TimeoutNow
  <2>4. CASE Suspend(t, <<o>>, "WaitSynchAny", ns)
    <3>1. Suspended
      <4>1. UNCHANGED <<current_priority, ready_queue>> /\ "WaitSynchAny" \in BlockedStatus
        BY <2>1 DEF WaitUnchanged, BlockedStatus, SyncStatus
      <4> HIDE DEF Suspended
      <4>2. QED
        BY <1>11, <2>4, <4>1 DEF Suspend
    <3> HIDE DEF Suspended, Common
    <3>2. QED
      BY <2>2, <3>1
  <2>5. QED
    BY <2>1, <2>3, <2>4
<1>5. ASSUME NEW objs \in WaitLists, NEW all \in BOOLEAN, NEW ns \in Delays, WaitSynchronizationN(t, objs, all, ns)
      PROVE  Goal
  <2>1. /\ Svc("WaitSynchronizationN", t) /\ WaitUnchanged
        /\ \/ \E granted : AcquireNow(t, granted)
           \/ TimeoutNow
           \/ \E st \in SyncStatus : Suspend(t, objs, st, ns)
    BY <1>5 DEF WaitSynchronizationN, SyncStatus
  <2>2. Common
    BY <1>0, <2>1 DEF WaitUnchanged, AcquireNow, TimeoutNow, Suspend, Continue, PrepareReschedule
  <2>3. CASE (\E granted : AcquireNow(t, granted)) \/ TimeoutNow
    BY <2>1, <2>2, <2>3 DEF WaitUnchanged, AcquireNow, TimeoutNow
  <2>4. CASE \E st \in SyncStatus : Suspend(t, objs, st, ns)
    <3>1. Suspended
      <4>1. UNCHANGED <<current_priority, ready_queue>> /\ SyncStatus \subseteq BlockedStatus
        BY <2>1 DEF WaitUnchanged, BlockedStatus
      <4> HIDE DEF Suspended
      <4>2. QED
        BY <1>11, <2>4, <4>1 DEF Suspend
    <3> HIDE DEF Suspended, Common
    <3>2. QED
      BY <2>2, <3>1
  <2>5. QED
    BY <2>1, <2>3, <2>4
<1>6. ASSUME NEW ns \in Delays, SleepThread(t, ns) PROVE Goal
  <2>1. Suspended
    <3>1. UNCHANGED <<current_priority, ready_queue>> /\ "WaitSleep" \in BlockedStatus
      BY <1>6 DEF SleepThread, BlockedStatus
    <3> HIDE DEF Suspended
    <3>2. QED
      BY <1>11, <1>6, <3>1 DEF SleepThread
  <2>2. Common
    BY <1>0, <1>6 DEF SleepThread, PrepareReschedule
  <2> HIDE DEF Suspended, Common
  <2>3. QED
    BY <2>1, <2>2
<1>7. ASSUME NEW m \in Mutexes, ReleaseMutex(t, m) PROVE Goal
  <2>1. Common
    BY <1>0, <1>7 DEF ReleaseMutex, PrepareReschedule, Continue
  <2>2. CASE lock_count[m] = 1
    <3>1. held_mutexes' = [held_mutexes EXCEPT ![t] = @ \ {m}]
      BY <1>7, <2>2 DEF ReleaseMutex
    <3>2. held_mutexes'[t] \subseteq Mutexes /\ nominal_priority[t] \in Priorities /\ priority \in [Mutexes -> Priorities]
      BY <3>1 DEF TypeOK
    <3>3. BestPriority(nominal_priority[t], held_mutexes'[t], priority) \in Priorities
      BY <3>2, BestPriorityType
    <3>4. Moved
      BY <1>7, <2>2, <3>3 DEF ReleaseMutex, PrepareReschedule
    <3> HIDE DEF Moved, Common
    <3>5. QED
      BY <2>1, <3>4
  <2>3. CASE lock_count[m] # 1
    BY <1>7, <2>1, <2>3 DEF ReleaseMutex
  <2>4. QED
    BY <2>2, <2>3
<1>8. ASSUME \/ \E s \in Semaphores, n \in ReleaseCounts : ReleaseSemaphore(t, s, n)
             \/ \E e \in Events : SignalEvent(t, e)
             \/ \E e \in Signals : ClearSignal(t, e)
             \/ \E tm \in Timers, initial \in BOOLEAN, interval \in BOOLEAN : SetTimer(t, tm, initial, interval)
             \/ \E tm \in Timers : CancelTimer(t, tm)
      PROVE  Goal
  <2>1. Same
    BY <1>8 DEF ReleaseSemaphore, SignalEvent, EventSignal, ClearSignal, SetTimer, CancelTimer
  <2>2. Common
    BY <1>0, <1>8 DEF ReleaseSemaphore, SignalEvent, EventSignal, ClearSignal, SetTimer, CancelTimer
  <2>3. QED
    BY <2>1, <2>2
<1>9. Goal
  <2> HIDE DEF Goal
  <2>1. QED
    BY <1>1, <1>2, <1>3, <1>4, <1>5, <1>6, <1>7, <1>8 DEF ThreadCall
<1>10. QED
  BY <1>9

(* Every SVC keeps the invariant: the thread that suspends itself runs, or has been stopped, so it   *)
(* has no timeout from an earlier wait.                                                             *)
LEMMA CallKeeps ==
  ASSUME TypeOK, TypeOK', SchedulerInv, NEW t \in Threads, ThreadCall(t)
  PROVE  SchedulerInv'
<1>1. CallsShaped'
  BY HandlerShaped
<1>2. \A c \in Cores : ~Rescheduling(c)
  BY CallEffect DEF Rescheduling, Range
<1>3. status[t] \in {"Running", "Dead"} /\ CoreOf[t] = running /\ running \notin slices /\ t # Null
  <2>1. running \in Cores /\ current_thread[running] = t
    BY CallEffect
  <2>2. t # Null
    BY ObjectsAssumption DEF Objects
  <2>3. QED
    BY <1>2, <2>1, <2>2 DEF SchedulerInv, CurrentsRun
<1>4. thread_events[t] = 0
  BY <1>3 DEF SchedulerInv, NoStaleTimeout
<1>5. /\ current_thread' = current_thread /\ slices' = slices
      /\ running' \in {running, NoCore} /\ (reschedule_pending => reschedule_pending')
  BY CallEffect
<1>6. CASE /\ UNCHANGED <<status, thread_events>>
           /\ \/ UNCHANGED <<current_priority, ready_queue>>
              \/ \E x \in Threads, new \in Priorities : BoostPriority(x, new)
  <2>1. QueuesMatch'
    BY <1>6, MatchKept, MatchBoost DEF SchedulerInv
  <2>2. CurrentsRun'
    BY <1>2, <1>5, <1>6, CurrentsKept DEF SchedulerInv
  <2>3. NoStaleTimeout'
    BY <1>6, TimeoutsKept DEF SchedulerInv
  <2>4. QED
    BY <1>1, <2>1, <2>2, <2>3 DEF SchedulerInv
<1>7. ASSUME NEW x \in Threads,
             status[x] = "Unborn", status' = [status EXCEPT ![x] = "Ready"],
             ready_queue' = [ready_queue EXCEPT ![CoreOf[x]][current_priority[x]] = Append(@, x)],
             UNCHANGED <<current_priority, thread_events>>
      PROVE  SchedulerInv'
  <2>1. QueuesMatch'
    BY <1>7, MatchEnqueue DEF SchedulerInv
  <2>2. \A u \in Threads : status'[u] = IF u = x THEN "Ready" ELSE status[u]
    BY <1>7 DEF TypeOK
  <2>3. CurrentsRun'
    BY <1>2, <1>5, <1>7, <2>2, CurrentsKept DEF SchedulerInv
  <2>4. NoStaleTimeout'
    BY <1>7, <2>2, TimeoutsKept DEF SchedulerInv
  <2>5. QED
    BY <1>1, <2>1, <2>3, <2>4 DEF SchedulerInv
<1>8. ASSUME NEW st \in BlockedStatus, NEW k \in {0, 1},
             status' = [status EXCEPT ![t] = st],
             thread_events' = [thread_events EXCEPT ![t] = thread_events[t] + k],
             UNCHANGED <<current_priority, ready_queue>>,
             reschedule_pending', running' = NoCore
      PROVE  SchedulerInv'
  <2>1. \A u \in Threads : status'[u] = IF u = t THEN st ELSE status[u]
    BY <1>8 DEF TypeOK
  <2>2. st \notin {"Ready", "Running", "Dead", "Unborn"}
    BY DEF BlockedStatus, SyncStatus
  <2>3. QueuesMatch'
    BY <1>3, <1>8, <2>1, <2>2, MatchKept DEF SchedulerInv
  <2>4. NoStaleTimeout'
    <3>1. thread_events[t] + k <= 1
      BY <1>4
    <3>2. \A u \in Threads : thread_events'[u] = IF u = t THEN thread_events[t] + k ELSE thread_events[u]
      BY <1>8 DEF TypeOK
    <3>3. QED
      BY <2>1, <2>2, <3>1, <3>2 DEF SchedulerInv, NoStaleTimeout
  <2>5. NoCore \notin Cores
    BY CoresNat DEF NoCore
  <2>6. running' \notin slices'
    BY <1>5, <1>8, <2>5 DEF TypeOK
  <2>7. ASSUME NEW c \in Cores, current_thread'[c] # Null
        PROVE  /\ CoreOf[current_thread'[c]] = c
               /\ c \in slices' \/ c = running' \/ ~reschedule_pending' =>
                    status'[current_thread'[c]] \in {"Running", "Dead"} \/ Rescheduling(c)'
    <3>1. current_thread[c] \in Threads /\ CoreOf[current_thread[c]] = c
      BY <1>5, <2>7 DEF TypeOK, SchedulerInv, CurrentsRun
    <3>2. ASSUME c \in slices
          PROVE  status'[current_thread[c]] \in {"Running", "Dead"}
      <4>1. current_thread[c] # t
        BY <1>3, <3>1, <3>2
      <4>2. QED
        BY <1>2, <1>5, <2>1, <2>7, <3>1, <3>2, <4>1 DEF SchedulerInv, CurrentsRun
    <3>3. QED
      BY <1>5, <1>8, <2>5, <3>1, <3>2
  <2>8. CurrentsRun'
    BY <2>6, <2>7 DEF CurrentsRun
  <2>9. QED
    BY <1>1, <2>3, <2>4, <2>8 DEF SchedulerInv
<1>9. QED
  BY <1>6, <1>7, <1>8, CallEffect

(* The scheduler starts with Main ready and every core idle. *)
LEMMA SchedulerInit == Init => SchedulerInv
<1> SUFFICES ASSUME Init PROVE SchedulerInv
  OBVIOUS
<1>1. CallsShaped
  BY InitShaped
<1>2. QueuesMatch
  <2> SUFFICES ASSUME NEW c \in Cores, NEW p \in Priorities
               PROVE  Lists(ready_queue[c][p], ReadyAt(c, p))
    BY DEF QueuesMatch
  <2>1. Main \in Threads
    BY ObjectsAssumption
  <2>2. ready_queue[c][p] = IF c = CoreOf[Main] /\ p = InitPriority[Main] THEN <<Main>> ELSE <<>>
    BY DEF Init
  <2>3. ReadyAt(c, p) = IF c = CoreOf[Main] /\ p = InitPriority[Main] THEN {Main} ELSE {}
    BY <2>1 DEF Init, ReadyAt
  <2>4. Lists(<<>>, {}) /\ Lists(<<Main>>, {Main})
    <3>1. Range(<<>>) = {} /\ IsInjective(<<>>)
      BY DEF Range, IsInjective
    <3>2. Range(<<Main>>) = {Main}
      BY RangeSingle
    <3>3. IsInjective(<<Main>>)
      BY DEF IsInjective
    <3>4. QED
      BY <3>1, <3>2, <3>3 DEF Lists
  <2>5. QED
    BY <2>2, <2>3, <2>4
<1>3. CurrentsRun
  <2>1. NoCore \notin Cores
    BY CoresNat DEF NoCore
  <2>2. QED
    BY <2>1 DEF Init, CurrentsRun
<1>4. NoStaleTimeout
  BY DEF Init, NoStaleTimeout
<1>5. QED
  BY <1>1, <1>2, <1>3, <1>4 DEF SchedulerInv

(* The invariant of the scheduler, preserved by every step. *)
LEMMA SchedulerStep ==
  ASSUME TypeOK, TypeOK', SchedulerInv, [Next]_vars
  PROVE  SchedulerInv'
<1>1. CASE RunFrame
  BY <1>1, FrameKeeps
<1>2. CASE RunLoop
  BY <1>2, LoopKeeps
<1>3. CASE \E t \in Threads : ThreadCall(t)
  BY <1>3, CallKeeps
<1>4. CASE UNCHANGED vars
  <2>1. CallsShaped' /\ QueuesMatch' /\ CurrentsRun' /\ NoStaleTimeout'
    BY <1>4 DEF vars, thread_vars, prio_vars, mutex_vars, wait_vars, event_vars, loop_vars, core_vars,
           SchedulerInv, CallsShaped, Leaving, QueuesMatch, ReadyAt, CurrentsRun, Rescheduling, NoStaleTimeout
  <2>2. QED
    BY <2>1 DEF SchedulerInv
<1>5. QED
  BY <1>1, <1>2, <1>3, <1>4 DEF Next

(* The ready queues are right in every state, for any number of cores, threads and priorities:      *)
(* boosting, waking, switching and stopping leave each ready thread in one queue, once, on its own  *)
(* core and at its current priority, and no other thread in any.                                    *)
THEOREM QueuesConsistent == Spec => []ReadyQueueConsistent
<1>1. Init => SchedulerInv
  BY SchedulerInit
<1>2. TypeOK /\ TypeOK' /\ SchedulerInv /\ [Next]_vars => SchedulerInv'
  BY SchedulerStep
<1>3. TypeOK /\ SchedulerInv => ReadyQueueConsistent
  BY MatchIsConsistent DEF SchedulerInv
<1>4. QED
  BY <1>1, <1>2, <1>3, TypeCorrect, PTL DEF Spec

-----------------------------------------------------------------------------
(* Timers *)

(* Who pushes what: only Stop and the loop over the threads of a process push calls to stop a      *)
(* thread, and only a thread that waits is woken.                                                   *)
LEMMA PushedBy ==
  ASSUME TypeOK, RunFrame, NEW g \in Range(todo')
  PROVE  \/ g \in Range(todo)
         \/ Head(todo).fn = "TerminateThreads" /\ g.fn = "Stop"
         \/ /\ Head(todo).fn = "Stop" /\ g.fn \in {"Wake", "RemoveWaiting", "ReleaseMutexes"}
            /\ g.fn # "Wake" => g.thr = Head(todo).thr
         \/ Head(todo).fn = "ReleaseMutexes" /\ g.fn = "Wake"
         \/ Head(todo).fn = "Wake" /\ g.fn \in WakeCalls /\ g.thr \in Threads /\ status[g.thr] \in SyncStatus
<1>1. /\ todo # <<>> /\ Head(todo) \in Frames /\ Tail(todo) \in Seq(Frames) /\ todo \in Seq(Frames)
      /\ Range(todo) = {Head(todo)} \cup Range(Tail(todo))
  BY TodoParts DEF RunFrame
<1>2. ASSUME NEW X \in Seq(Frames), todo' = X \o todo \/ todo' = X \o Tail(todo)
      PROVE  g \in Range(todo) \/ g \in Range(X)
  <2> DEFINE rest == Tail(todo)
  <2>1. rest \in Seq(Frames) /\ Range(todo) = {Head(todo)} \cup Range(rest)
        /\ (todo' = X \o todo \/ todo' = X \o rest)
    BY <1>1, <1>2
  <2> HIDE DEF rest
  <2>2. Range(X \o todo) = Range(X) \cup Range(todo)
    BY <1>1, RangeConcat
  <2>3. Range(X \o rest) = Range(X) \cup Range(rest)
    BY <2>1, RangeConcat
  <2>4. QED
    BY <2>1, <2>2, <2>3
<1>3. ASSUME NEW f \in Frames, todo' = <<f>> \o todo \/ todo' = <<f>> \o Tail(todo)
      PROVE  g \in Range(todo) \/ g = f
  <2>1. <<f>> \in Seq(Frames) /\ Range(<<f>>) = {f}
    BY RangeSingle
  <2>2. QED
    BY <1>2, <1>3, <2>1
<1>4. CASE todo' = Tail(todo)
  BY <1>1, <1>4
<1>5. ASSUME NEW t \in Threads, NEW granted \in Seq(Objects), todo' = WakeFrames(t, granted, wait_objects[t]) \o todo
      PROVE  g \in Range(todo) \/ (g.fn \in WakeCalls /\ g.thr = t)
  <2>1. WakeFrames(t, granted, wait_objects[t]) \in Seq(Frames)
        /\ \A f \in Range(WakeFrames(t, granted, wait_objects[t])) : f.fn \in WakeCalls /\ f.thr = t
    BY WakeList DEF TypeOK
  <2>2. QED
    BY <1>2, <1>5, <2>1
<1>6. ASSUME NEW t \in Threads, todo' = StopFrames(t, wait_objects[t]) \o Tail(todo)
      PROVE  g \in Range(todo) \/ (g.fn \in {"Wake", "RemoveWaiting", "ReleaseMutexes"} /\ (g.fn # "Wake" => g.thr = t))
  <2>1. StopFrames(t, wait_objects[t]) \in Seq(Frames)
        /\ \A f \in Range(StopFrames(t, wait_objects[t])) :
             f.fn \in {"Wake", "RemoveWaiting", "ReleaseMutexes"} /\ (f.fn # "Wake" => f.thr = t)
    BY StopList DEF TypeOK
  <2>2. QED
    BY <1>2, <1>6, <2>1
<1>7. ASSUME NEW m \in Mutexes, todo' = <<Frame("Wake", Null, m)>> \o todo
      PROVE  g \in Range(todo) \/ g.fn = "Wake"
  <2>1. Frame("Wake", Null, m) \in Frames /\ Frame("Wake", Null, m).fn = "Wake"
    BY FrameType, FrameOf DEF Objects
  <2>2. QED
    BY <1>3, <1>7, <2>1
<1>8. ASSUME NEW x \in Threads, \/ todo' = <<Frame("Stop", x, Null)>> \o todo
                               \/ todo' = <<Frame("Stop", x, Null)>> \o Tail(todo)
      PROVE  g \in Range(todo) \/ g.fn = "Stop"
  <2>1. Frame("Stop", x, Null) \in Frames /\ Frame("Stop", x, Null).fn = "Stop"
    BY FrameType, FrameOf
  <2>2. QED
    BY <1>3, <1>8, <2>1
<1>9. QED
  BY <1>4, <1>5, <1>6, <1>7, <1>8, FrameStep

\* A timer that is about to be scheduled again has no event
TimersInv ==
  /\ OneTimerEvent
  /\ \A tm \in Timers : Frame("Rearm", Null, tm) \in Range(todo) => timer_events[tm] = 0

(* Inside a handler only the end of Timer::Signal schedules a timer, and it is the last call. *)
LEMMA FrameTimers ==
  ASSUME TypeOK, CallsShaped, TimersInv, RunFrame
  PROVE  TimersInv'
<1> USE DEF thread_vars, prio_vars, mutex_vars, wait_vars, signal_vars, event_vars, loop_vars, core_vars
<1>1. /\ todo # <<>> /\ Head(todo) \in Frames /\ Tail(todo) \in Seq(Frames) /\ todo \in Seq(Frames)
      /\ Range(todo) = {Head(todo)} \cup Range(Tail(todo))
  BY TodoParts DEF RunFrame
<1>2. \A tm : Frame("Rearm", Null, tm) \in Range(todo') => Frame("Rearm", Null, tm) \in Range(todo)
  BY PushedBy, FrameOf DEF WakeCalls
<1>3. CASE Head(todo).fn = "Rearm" /\ Rearm(Head(todo).obj)
  <2> DEFINE k == Head(todo).obj
  <2>1. k \in Timers /\ todo' = Tail(todo)
    BY <1>1, <1>3, FrameArguments DEF Rearm, Return
  <2>2. Head(todo) = Frame("Rearm", Null, k)
    BY <1>1, <1>3 DEF Frames, Frame
  <2>3. timer_events[k] = 0
    BY <1>1, <2>1, <2>2 DEF TimersInv
  <2>4. \A tm \in Timers : timer_events'[tm] = timer_events[tm] \/ (tm = k /\ timer_events'[tm] = 1)
    BY <1>3, <2>1, <2>3 DEF Rearm, TypeOK
  <2>5. OneTimerEvent'
    BY <2>4 DEF TimersInv, OneTimerEvent
  <2>6. \A tm \in Timers : Frame("Rearm", Null, tm) \notin Range(todo')
    <3> SUFFICES ASSUME NEW tm \in Timers, Frame("Rearm", Null, tm) \in Range(todo') PROVE FALSE
      OBVIOUS
    <3>1. PICK j \in DOMAIN Tail(todo) : Tail(todo)[j] = Frame("Rearm", Null, tm)
      BY <2>1 DEF Range
    <3>2. 1 \in DOMAIN todo /\ j + 1 \in DOMAIN todo /\ 1 < j + 1
          /\ todo[1] = Head(todo) /\ todo[j + 1] = Frame("Rearm", Null, tm)
      BY <1>1, <3>1
    <3>3. Below(todo[1], todo[j + 1])
      BY <3>2 DEF CallsShaped, Nested
    <3>4. QED
      BY <1>3, <3>2, <3>3, FrameOf DEF Below, WakeCalls
  <2>7. QED
    BY <2>5, <2>6 DEF TimersInv
<1>4. CASE UNCHANGED timer_events
  BY <1>2, <1>4 DEF TimersInv, OneTimerEvent
<1>5. QED
  BY <1>3, <1>4 DEF RunFrame, Acquire, AddWaitingThread, RemoveWaitingThread, WakeupAllWaitingThreads,
         Wakeup, Resume, UpdatePendingMutex, Stop, ReleaseThreadMutexes, TerminateProcessThreads, Reschedule

(* A timer that is set, cancelled or due has at most one event left, and none when it is signalled. *)
LEMMA HandlerTimers ==
  ASSUME TypeOK, TypeOK', TimersInv, RunLoop \/ \E t \in Threads : ThreadCall(t)
  PROVE  TimersInv'
<1> USE DEF thread_vars, prio_vars, mutex_vars, wait_vars, signal_vars, event_vars, loop_vars, core_vars
<1>1. OneTimerEvent'
  <2>1. \A tm \in Timers : timer_events[tm] \in Nat /\ timer_events[tm] <= 1
    BY DEF TimersInv, OneTimerEvent, TypeOK
  <2>2. \/ UNCHANGED timer_events
        \/ \E k \in Timers, n \in {0, 1} : timer_events' = [timer_events EXCEPT ![k] = n]
        \/ \E k \in Timers : timer_events' = [timer_events EXCEPT ![k] = timer_events[k] - 1]
    <3>1. CASE RunLoop
      BY <3>1 DEF RunLoop, StartIteration, AdvanceDone, StartSlice, EndSlice, RescheduleAll,
           ThreadWakeupCallback, TimerCallback, ServiceSignal, EventSignal
    <3>2. ASSUME NEW t \in Threads, ThreadCall(t)
          PROVE  \/ UNCHANGED timer_events
                 \/ \E k \in Timers, n \in {0, 1} : timer_events' = [timer_events EXCEPT ![k] = n]
      <4>1. CASE \/ \E tm \in Timers, initial \in BOOLEAN, interval \in BOOLEAN : SetTimer(t, tm, initial, interval)
                 \/ \E tm \in Timers : CancelTimer(t, tm)
        BY <4>1 DEF SetTimer, CancelTimer
      <4>2. QED
        BY <3>2, <4>1 DEF ThreadCall, CreateThread, ExitThread, TerminateProcess, SetThreadPriority,
             WaitSynchronization1, WaitSynchronizationN, WaitUnchanged, SleepThread, ReleaseMutex,
             ReleaseSemaphore, SignalEvent, EventSignal, ClearSignal
    <3>3. QED
      BY <3>1, <3>2
  <2>3. ASSUME NEW tm \in Timers PROVE timer_events'[tm] <= 1
    <3>1. timer_events \in [Timers -> Nat]
      BY DEF TypeOK
    <3>2. timer_events'[tm] \in {timer_events[tm], 0, 1, timer_events[tm] - 1}
      BY <2>2, <3>1
    <3>3. QED
      BY <2>1, <3>2
  <2>4. QED
    BY <2>3 DEF OneTimerEvent
<1>2. ASSUME NEW tm \in Timers, Frame("Rearm", Null, tm) \in Range(todo')
      PROVE  timer_events'[tm] = 0
  <2>1. ASSUME \A g \in Range(todo') : g.fn # "Rearm" PROVE FALSE
    BY <1>2, <2>1, FrameOf
  <2>2. ASSUME NEW g, todo' = <<g>>, g.fn # "Rearm" PROVE FALSE
    BY <2>1, <2>2, RangeSingle
  <2>3. ASSUME NEW fn, NEW t, NEW objs, fn # "Rearm", todo' = ForEach(fn, t, objs) PROVE FALSE
    BY <2>1, <2>3, ForEachFrames
  <2>4. ASSUME NEW fn, NEW t, fn # "Rearm", todo' = [i \in 1 .. NumCores |-> Frame(fn, t, i - 1)] PROVE FALSE
    BY <2>1, <2>4, FrameOf DEF Range
  <2>5. ASSUME NEW t \in Threads, todo' = WakeFrames(t, <<>>, wait_objects[t]) PROVE FALSE
    <3>1. wait_objects[t] \in Seq(Objects) /\ <<>> \in Seq(Objects)
      BY DEF TypeOK
    <3>2. \A g \in Range(todo') : g.fn \in WakeCalls
      BY <2>5, <3>1, WakeList
    <3>3. QED
      BY <2>1, <3>2 DEF WakeCalls
  <2>6. CASE todo' = <<>>
    BY <1>2, <2>6 DEF Range
  <2>7. ASSUME NEW k \in Timers, todo' = TimerFrames(k) /\ timer_events'[k] \in {timer_events[k] - 1, 0}
        PROVE  timer_events'[tm] = 0
    <3>1. Range(todo') = {Frame("Wake", Null, k), Frame("Rearm", Null, k)}
      BY <2>7 DEF TimerFrames, Range
    <3>2. tm = k
      BY <1>2, <3>1, FrameOf
    <3>3. timer_events[k] \in Nat /\ timer_events[k] <= 1 /\ timer_events'[k] \in Nat
      BY DEF TimersInv, OneTimerEvent, TypeOK
    <3>4. QED
      BY <2>7, <3>2, <3>3
  <2>8. \/ \E k \in Timers : todo' = TimerFrames(k) /\ timer_events'[k] \in {timer_events[k] - 1, 0}
        \/ todo' = <<>> \/ \E g : todo' = <<g>> /\ g.fn # "Rearm"
        \/ \E fn, t, objs : fn # "Rearm" /\ todo' = ForEach(fn, t, objs)
        \/ \E fn, t : fn # "Rearm" /\ todo' = [i \in 1 .. NumCores |-> Frame(fn, t, i - 1)]
        \/ \E t \in Threads : todo' = WakeFrames(t, <<>>, wait_objects[t])
    <3>1. CASE \/ \E o \in Objects : todo' = <<Frame("Wake", Null, o)>>
               \/ \E t \in Threads : todo' = <<Frame("Stop", t, Null)>> \/ todo' = <<Frame("Resume", t, Null)>>
               \/ \E c \in Cores : todo' = <<Frame("Reschedule", Null, c)>>
      BY <3>1, FrameOf
    <3>2. CASE \/ \E t \in Threads, objs \in Seq(Objects) :
                    todo' = ForEach("Acquire", t, objs) \/ todo' = ForEach("AddWaiting", t, objs)
               \/ \E objs \in Seq(Mutexes) : todo' = ForEach("UpdatePriority", Null, objs)
      BY <3>2
    <3>3. CASE \/ todo' = [i \in 1 .. NumCores |-> Frame("Reschedule", Null, i - 1)]
               \/ \E p \in Threads : todo' = [i \in 1 .. NumCores |-> Frame("TerminateThreads", p, i - 1)]
      BY <3>3, ZenonT(30)
    <3>4. QED
      BY <3>1, <3>2, <3>3, HandlerStarts
  <2>9. QED
    BY <2>2, <2>3, <2>4, <2>5, <2>6, <2>7, <2>8
<1>3. QED
  BY <1>1, <1>2 DEF TimersInv

(* Timeouts and timers, for any number of cores: a thread that runs or is dead has no wakeup event  *)
(* left, so ThreadWakeupCallback never ends a wait it was not scheduled for, and WakeAfterDelay,    *)
(* Timer::Set and Timer::Signal never schedule a second event.                                      *)
THEOREM TimeoutsAlwaysSound == Spec => []TimeoutsSound
<1>1. Init => SchedulerInv /\ TimersInv
  <2>1. Init => TimersInv
    BY DEF Init, TimersInv, OneTimerEvent, Range
  <2>2. QED
    BY <2>1, SchedulerInit
<1>2. ASSUME TypeOK, TypeOK', SchedulerInv, TimersInv, [Next]_vars
      PROVE  SchedulerInv' /\ TimersInv'
  <2>1. SchedulerInv'
    BY <1>2, SchedulerStep
  <2>2. CASE RunFrame
    BY <1>2, <2>1, <2>2, FrameTimers DEF SchedulerInv
  <2>3. CASE RunLoop \/ \E t \in Threads : ThreadCall(t)
    BY <1>2, <2>1, <2>3, HandlerTimers
  <2>4. CASE UNCHANGED vars
    BY <1>2, <2>1, <2>4 DEF vars, event_vars, TimersInv, OneTimerEvent
  <2>5. QED
    BY <1>2, <2>2, <2>3, <2>4 DEF Next
<1>3. SchedulerInv /\ TimersInv => TimeoutsSound
  BY DEF SchedulerInv, TimersInv, TimeoutsSound
<1>4. QED
  BY <1>1, <1>2, <1>3, TypeCorrect, PTL DEF Spec

-----------------------------------------------------------------------------
(* The best ready thread of a core runs *)

\* No ready thread of core c beats the one that runs there
Served(c) ==
  \A t \in Threads :
    status[t] = "Ready" /\ CoreOf[t] = c =>
      LET cur == current_thread[c] IN
      cur # Null /\ status[cur] = "Running" /\ current_priority[cur] <= current_priority[t]

WakeupDue == \E t \in Threads : Frame("Wakeup", t, Null) \in Range(todo)

\* The calls that come after PrepareReschedule
AfterPrepare == {"AddWaiting", "UpdatePriority", "Stop", "ReleaseMutexes", "TerminateThreads"}

\* A thread that is being woken still waits
WakersWaiting == \A t \in Threads : Frame("Wakeup", t, Null) \in Range(todo) => status[t] \in SyncStatus

\* A core is served unless it will be rescheduled: after its Advance, at the end of the iteration,
\* because a thread is being woken, or by a Reschedule that is due
ServedInv ==
  /\ \A c \in Cores : \/ c \in Range(advancing) \/ reschedule_pending \/ WakeupDue \/ Rescheduling(c)
                      \/ Served(c)
  /\ \A f \in Range(todo) : f.fn \in AfterPrepare => reschedule_pending
  /\ WakersWaiting

(* After a frame only calls that may follow it are left. *)
LEMMA TailBelow ==
  ASSUME TypeOK, CallsShaped, todo # <<>>, NEW g \in Range(Tail(todo))
  PROVE  Below(Head(todo), g)
BY NestedTail DEF TypeOK, CallsShaped

(* A thread to be woken goes on waiting until it is: only its own grants and removals come before.   *)
LEMMA FrameWakers ==
  ASSUME TypeOK, CallsShaped, WakersWaiting, RunFrame
  PROVE  WakersWaiting'
<1> SUFFICES ASSUME NEW t \in Threads, Frame("Wakeup", t, Null) \in Range(todo')
             PROVE  status'[t] \in SyncStatus
  BY DEF WakersWaiting
<1> DEFINE f == Head(todo)
           w == Frame("Wakeup", t, Null)
<1> USE DEF thread_vars, prio_vars, mutex_vars, wait_vars, signal_vars, event_vars, loop_vars, core_vars
<1>1. /\ todo # <<>> /\ f \in Frames /\ Range(todo) = {f} \cup Range(Tail(todo))
      /\ w.fn = "Wakeup" /\ w.thr = t
  BY TodoParts, FrameOf DEF RunFrame
<1>2. CASE f.fn = "Wake"
  <2>1. status' = status
    BY <1>2 DEF RunFrame, WakeupAllWaitingThreads
  <2>2. w \in Range(todo) \/ status[w.thr] \in SyncStatus
    BY <1>1, <1>2, PushedBy
  <2>3. QED
    BY <1>1, <2>1, <2>2 DEF WakersWaiting
<1>3. CASE f.fn # "Wake"
  <2>1. w \in Range(todo)
    BY <1>1, <1>3, PushedBy DEF WakeCalls
  <2>2. CASE w \in Range(Tail(todo))
    <3>1. f.fn \in {"Acquire", "RemoveWaiting"}
      BY <1>1, <2>2, TailBelow DEF Below
    <3>2. status' = status
      BY <3>1 DEF RunFrame, Acquire, RemoveWaitingThread
    <3>3. QED
      BY <2>1, <3>2 DEF WakersWaiting
  <2>3. CASE w \notin Range(Tail(todo))
    <3>1. w = f
      BY <1>1, <2>1, <2>3
    <3>2. todo' = Tail(todo)
      BY <1>1, <3>1 DEF RunFrame, Wakeup, Return
    <3>3. QED
      BY <2>3, <3>2
  <2>4. QED
    BY <2>2, <2>3
<1>4. QED
  BY <1>2, <1>3

(* A core that is rescheduled is served: PopNextReadyThread takes the first thread of the best       *)
(* queue, and nothing better is ready when the current thread stays or the core idles.              *)
LEMMA RescheduleServes ==
  ASSUME TypeOK, SchedulerInv, NEW c \in Cores, Reschedule(c)
  PROVE  Served(c)'
<1> SUFFICES ASSUME NEW u \in Threads, status'[u] = "Ready", CoreOf[u] = c
             PROVE  /\ current_thread'[c] # Null /\ status'[current_thread'[c]] = "Running"
                    /\ current_priority'[current_thread'[c]] <= current_priority'[u]
  BY DEF Served
<1> DEFINE q == current_priority[u]
           cur == current_thread[c]
<1>1. current_priority' = current_priority /\ q \in Priorities /\ q \in Nat
  <2>1. current_priority' = current_priority
    BY RescheduleEffect
  <2>2. q \in Priorities /\ Priorities \subseteq Nat
    BY PrioritiesAssumption DEF TypeOK, Priorities
  <2>3. QED
    BY <2>1, <2>2
<1>2. ASSUME status[u] = "Ready" PROVE ready_queue[c][q] # <<>>
  <2>1. u \in Range(ready_queue[c][q])
    BY <1>1, <1>2 DEF SchedulerInv, QueuesMatch, ReadyAt, Lists
  <2>2. QED
    BY <2>1 DEF Range
<1>3. StaysRunnable(c) => cur \in Threads /\ cur # Null /\ status[cur] = "Running" /\ current_priority[cur] \in Nat
  BY PrioritiesAssumption DEF StaysRunnable, TypeOK, Priorities
<1>4. ASSUME status[u] = "Ready", q \notin BetterQueues(c) PROVE StaysRunnable(c) /\ current_priority[cur] <= q
  BY <1>1, <1>2, <1>3, <1>4 DEF BetterQueues
<1>5. CASE BetterQueues(c) = {} /\ StaysRunnable(c) /\ UNCHANGED <<status, current_thread>>
  BY <1>1, <1>3, <1>4, <1>5
<1>6. CASE BetterQueues(c) = {} /\ ~StaysRunnable(c) /\ UNCHANGED status
  BY <1>4, <1>6
<1>7. ASSUME NEW p \in BetterQueues(c), NEW t \in Threads, \A r \in BetterQueues(c) : p <= r,
             CoreOf[t] = c, current_priority[t] = p, current_thread'[c] = t, status'[t] = "Running",
             status[u] = "Ready" \/ (u = cur /\ StaysRunnable(c))
      PROVE  /\ current_thread'[c] # Null /\ status'[current_thread'[c]] = "Running"
             /\ current_priority'[current_thread'[c]] <= current_priority'[u]
  <2>1. p \in Nat /\ (StaysRunnable(c) => p < current_priority[cur]) /\ t # Null
    BY PrioritiesAssumption, ObjectsAssumption DEF BetterQueues, Priorities, Objects
  <2>2. p <= q
    <3>1. CASE u = cur /\ StaysRunnable(c)
      BY <1>1, <2>1, <3>1
    <3>2. CASE status[u] = "Ready" /\ q \in BetterQueues(c)
      BY <1>7, <3>2
    <3>3. CASE status[u] = "Ready" /\ q \notin BetterQueues(c)
      BY <1>1, <1>3, <1>4, <2>1, <3>3
    <3>4. QED
      BY <1>7, <3>1, <3>2, <3>3
  <2>3. QED
    BY <1>1, <1>7, <2>1, <2>2
<1>8. QED
  BY <1>5, <1>6, <1>7, RescheduleEffect

(* A core on which nothing changed is still served. *)
LEMMA ServedKept ==
  ASSUME TypeOK, CurrentsRun, NEW c \in Cores, Served(c), current_thread'[c] = current_thread[c],
         current_priority' = current_priority, \A t \in Threads : CoreOf[t] = c => status'[t] = status[t]
  PROVE  Served(c)'
<1>1. current_thread[c] # Null => current_thread[c] \in Threads /\ CoreOf[current_thread[c]] = c
  BY DEF TypeOK, CurrentsRun
<1>2. QED
  BY <1>1 DEF Served

(* Inside a handler a core stays served, or its reschedule stays due. *)
LEMMA FrameServed ==
  ASSUME TypeOK, SchedulerInv, ServedInv, RunFrame
  PROVE  ServedInv'
<1> DEFINE f == Head(todo)
<1> USE DEF thread_vars, prio_vars, mutex_vars, wait_vars, signal_vars, event_vars, loop_vars, core_vars
<1>1. /\ todo # <<>> /\ f \in Frames /\ f \in Range(todo) /\ Range(todo) = {f} \cup Range(Tail(todo))
      /\ Range(Tail(todo)) \subseteq Range(todo')
  BY TodoParts, TailKept DEF RunFrame
<1>2. (reschedule_pending => reschedule_pending') /\ advancing' = advancing
  <2>1. CASE f.fn = "Reschedule"
    BY <2>1 DEF RunFrame, Reschedule
  <2>2. CASE f.fn # "Reschedule"
    BY <2>2, FrameEffect
  <2>3. QED
    BY <2>1, <2>2
<1>3. \A g \in Range(todo') : g.fn \in AfterPrepare => reschedule_pending'
  <2> SUFFICES ASSUME NEW g \in Range(todo'), g.fn \in AfterPrepare PROVE reschedule_pending'
    OBVIOUS
  <2>1. g \in Range(todo) \/ f.fn \in {"Stop", "TerminateThreads"}
    BY PushedBy DEF AfterPrepare, WakeCalls
  <2>2. QED
    BY <1>1, <1>2, <2>1 DEF ServedInv, AfterPrepare
<1>4. WakersWaiting'
  BY FrameWakers DEF ServedInv, SchedulerInv
<1>5. ASSUME NEW c \in Cores, ~reschedule_pending'
      PROVE  c \in Range(advancing') \/ WakeupDue' \/ Rescheduling(c)' \/ Served(c)'
  <2>1. ~reschedule_pending /\ f.fn \notin AfterPrepare
    BY <1>1, <1>2, <1>5 DEF ServedInv
  <2>2. c \in Range(advancing) \/ WakeupDue \/ Rescheduling(c) \/ Served(c)
    BY <2>1 DEF ServedInv
  <2>3. CASE f.fn = "RemoveWaiting"
    <3>1. f.thr \in Threads /\ f.obj \in Objects /\ f = Frame("RemoveWaiting", f.thr, f.obj)
      BY <1>1, <2>3, FrameFields
    <3>2. Leaving(f.thr)
      BY <1>1, <3>1 DEF SchedulerInv, CallsShaped
    <3>3. Frame("ReleaseMutexes", f.thr, Null) \notin Range(todo)
      BY <2>1, FrameOf DEF ServedInv, AfterPrepare
    <3>4. Frame("Wakeup", f.thr, Null) \in Range(Tail(todo))
      BY <1>1, <2>3, <3>2, <3>3, FrameOf DEF Leaving
    <3>5. QED
      BY <1>1, <3>1, <3>4 DEF WakeupDue
  <2>4. CASE f.fn = "Reschedule"
    <3>1. f.obj \in Cores /\ Reschedule(f.obj)
      BY <1>1, <2>4, FrameArguments DEF RunFrame
    <3>2. CASE f.obj = c
      BY <3>1, <3>2, RescheduleServes
    <3>3. CASE f.obj # c
      <4>1. ~WakeupDue
        <5>1. \A t \in Threads : Frame("Wakeup", t, Null) # f /\ Frame("Wakeup", t, Null).fn = "Wakeup"
          BY <2>4, FrameOf
        <5>2. \A t \in Threads : Frame("Wakeup", t, Null) \notin Range(Tail(todo))
          BY <1>1, <2>4, <5>1, TailBelow DEF Below, SchedulerInv
        <5>3. QED
          BY <1>1, <5>1, <5>2 DEF WakeupDue
      <4>2. Rescheduling(c) => Rescheduling(c)'
        BY <1>1, <3>3, FrameOf DEF Rescheduling
      <4>3. Served(c) => Served(c)'
        <5>1. /\ current_priority' = current_priority /\ current_thread'[c] = current_thread[c]
              /\ \A t \in Threads : CoreOf[t] = c => status'[t] = status[t]
          BY <3>1, <3>3, RescheduleEffect
        <5>2. QED
          BY <5>1, ServedKept DEF SchedulerInv
      <4>4. QED
        BY <1>2, <2>2, <4>1, <4>2, <4>3
    <3>4. QED
      BY <3>2, <3>3
  <2>5. CASE f.fn \in {"Acquire", "Wake", "Wakeup", "Resume", "Rearm"}
    <3>1. UNCHANGED <<status, current_priority, current_thread>>
      <4>1. CASE f.fn = "Acquire"
        BY <1>5, <4>1 DEF RunFrame, Acquire, AcquireMutex, AcquireSemaphore, AcquireSignal, AcquireThread,
               PrepareReschedule
      <4>2. CASE f.fn \in {"Wakeup", "Resume"}
        BY <1>5, <4>2 DEF RunFrame, Wakeup, Resume, ResumeFromWait, PrepareReschedule
      <4>3. CASE f.fn \in {"Wake", "Rearm"}
        BY <4>3 DEF RunFrame, WakeupAllWaitingThreads, Rearm
      <4>4. QED
        BY <2>5, <4>1, <4>2, <4>3
    <3>2. Served(c) => Served(c)'
      BY <3>1, ServedKept DEF SchedulerInv
    <3>3. Rescheduling(c) => Rescheduling(c)'
      BY <1>1, <2>5, FrameOf DEF Rescheduling
    <3>4. f.fn # "Wakeup"
      <4> SUFFICES ASSUME f.fn = "Wakeup" PROVE FALSE
        OBVIOUS
      <4>1. f.thr \in Threads /\ f = Frame("Wakeup", f.thr, Null)
        BY <1>1, FrameFields
      <4>2. status[f.thr] \in BlockedStatus
        BY <1>1, <4>1 DEF ServedInv, WakersWaiting, BlockedStatus
      <4>3. Wakeup(f.thr)
        BY DEF RunFrame
      <4>4. QED
        BY <1>5, <4>2, <4>3 DEF Wakeup, ResumeFromWait, PrepareReschedule
    <3>5. WakeupDue => WakeupDue'
      BY <1>1, <3>4, FrameOf DEF WakeupDue
    <3>6. QED
      BY <1>2, <2>2, <3>2, <3>3, <3>5
  <2>6. QED
    BY <1>1, <2>1, <2>3, <2>4, <2>5, FrameFields DEF AfterPrepare
<1>6. QED
  BY <1>3, <1>4, <1>5 DEF ServedInv

(* What the handlers start with, as far as the reschedule of a core depends on it. *)
LEMMA HandlerCalls ==
  ASSUME TypeOK, RunLoop \/ \E t \in Threads : ThreadCall(t)
  PROVE  /\ \A g \in Range(todo') :
              \/ g.fn \in AfterPrepare => reschedule_pending'
              \/ g.fn = "TerminateThreads" /\ "TerminateProcess" \in Svcs
         /\ WakersWaiting'
<1> DEFINE Fine(g) == \/ g.fn \in AfterPrepare => reschedule_pending'
                      \/ g.fn = "TerminateThreads" /\ "TerminateProcess" \in Svcs
           Goal == (\A g \in Range(todo') : Fine(g)) /\ WakersWaiting'
<1>1. ASSUME \A g \in Range(todo') : g.fn # "Wakeup" /\ Fine(g) PROVE Goal
  BY <1>1, FrameOf DEF WakersWaiting
<1> HIDE DEF Goal
<1>2. ASSUME NEW g, todo' = <<g>>, g.fn # "Wakeup" /\ Fine(g) PROVE Goal
  BY <1>1, <1>2, RangeSingle
<1>3. ASSUME NEW fn, NEW t, NEW objs, fn # "Wakeup" /\ (fn \in AfterPrepare => reschedule_pending'),
             todo' = ForEach(fn, t, objs)
      PROVE  Goal
  BY <1>1, <1>3, ForEachFrames
<1>4. ASSUME \/ todo' = [i \in 1 .. NumCores |-> Frame("Reschedule", Null, i - 1)]
             \/ \E p \in Threads : /\ todo' = [i \in 1 .. NumCores |-> Frame("TerminateThreads", p, i - 1)]
                                 /\ "TerminateProcess" \in Svcs
      PROVE  Goal
  <2>1. CASE todo' = [i \in 1 .. NumCores |-> Frame("Reschedule", Null, i - 1)]
    <3>1. \A g \in Range(todo') : g.fn = "Reschedule"
      BY <2>1, FrameOf DEF Range
    <3>2. QED
      BY <1>1, <3>1 DEF AfterPrepare
  <2>2. CASE \E p \in Threads : /\ todo' = [i \in 1 .. NumCores |-> Frame("TerminateThreads", p, i - 1)]
                                /\ "TerminateProcess" \in Svcs
    <3>1. \A g \in Range(todo') : g.fn = "TerminateThreads"
      BY <2>2, FrameOf DEF Range
    <3>2. QED
      BY <1>1, <2>2, <3>1
  <2>3. QED
    BY <1>4, <2>1, <2>2
<1>5. ASSUME NEW x \in Threads, todo' = WakeFrames(x, <<>>, wait_objects[x]), status[x] \in SyncStatus, status' = status
      PROVE  Goal
  <2>1. wait_objects[x] \in Seq(Objects) /\ <<>> \in Seq(Objects)
    BY DEF TypeOK
  <2>2. \A g \in Range(todo') : g.fn \in WakeCalls /\ g.thr = x
    BY <1>5, <2>1, WakeList
  <2>3. \A t \in Threads : Frame("Wakeup", t, Null) \in Range(todo') => t = x
    BY <2>2, FrameOf
  <2>4. QED
    BY <1>5, <2>2, <2>3 DEF Goal, AfterPrepare, WakeCalls, WakersWaiting
<1>6. ASSUME NEW k \in Timers, todo' = TimerFrames(k) PROVE Goal
  <2>1. Range(todo') = {Frame("Wake", Null, k), Frame("Rearm", Null, k)}
    BY <1>6 DEF TimerFrames, Range
  <2>2. QED
    BY <1>1, <2>1, FrameOf DEF AfterPrepare
<1>7. ASSUME todo' = <<>> PROVE Goal
  BY <1>1, <1>7 DEF Range
<1>8. ASSUME \/ \E o \in Objects : todo' = <<Frame("Wake", Null, o)>>
             \/ \E t \in Threads : \/ todo' = <<Frame("Stop", t, Null)>> /\ reschedule_pending'
                                   \/ todo' = <<Frame("Resume", t, Null)>>
             \/ \E c \in Cores : todo' = <<Frame("Reschedule", Null, c)>>
      PROVE  Goal
  BY <1>2, <1>8, FrameOf DEF AfterPrepare
<1>9. ASSUME \/ \E t \in Threads, objs \in Seq(Objects) :
                  \/ todo' = ForEach("Acquire", t, objs)
                  \/ todo' = ForEach("AddWaiting", t, objs) /\ reschedule_pending'
             \/ \E objs \in Seq(Mutexes) : todo' = ForEach("UpdatePriority", Null, objs) /\ reschedule_pending'
      PROVE  Goal
  BY <1>3, <1>9 DEF AfterPrepare
<1>10. Goal
  <2> HIDE DEF Fine
  <2>1. QED
    BY <1>4, <1>5, <1>6, <1>7, <1>8, <1>9, HandlerStarts
<1>11. QED
  BY <1>10 DEF Goal

(* Between handlers a core stays served, or a reschedule is asked for. *)
LEMMA HandlerServed ==
  ASSUME TypeOK, TypeOK', SchedulerInv, ServedInv, RunLoop \/ \E t \in Threads : ThreadCall(t),
         "TerminateProcess" \notin Svcs
  PROVE  ServedInv'
<1> USE DEF thread_vars, prio_vars, mutex_vars, wait_vars, signal_vars, event_vars, loop_vars, core_vars
<1>1. todo = <<>> /\ Range(todo) = {}
  BY HandlerStarts DEF Range
<1>2. \A c \in Cores : c \in Range(advancing) \/ reschedule_pending \/ Served(c)
  BY <1>1 DEF ServedInv, WakeupDue, Rescheduling
<1>3. ASSUME NEW c \in Cores, UNCHANGED <<status, current_priority, current_thread>>, Served(c) PROVE Served(c)'
  BY <1>3, ServedKept DEF SchedulerInv
<1> DEFINE Due(c) == c \in Range(advancing') \/ reschedule_pending' \/ Rescheduling(c)' \/ Served(c)'
<1>4. CASE RunLoop
  <2>1. UNCHANGED <<status, current_priority, current_thread>>
    BY <1>4 DEF RunLoop, StartIteration, AdvanceDone, StartSlice, EndSlice, RescheduleAll,
           ThreadWakeupCallback, TimerCallback, ServiceSignal, EventSignal
  <2>2. ASSUME NEW c \in Cores PROVE Due(c)
    <3>1. CASE StartIteration
      <4>1. c \notin Range(advancing) /\ ~reschedule_pending
        BY <3>1 DEF StartIteration, Range
      <4>2. QED
        BY <1>2, <1>3, <2>1, <4>1
    <3>2. CASE AdvanceDone
      <4>1. advancing # <<>> /\ advancing \in Seq(Cores) /\ advancing' = Tail(advancing)
            /\ todo' = <<Frame("Reschedule", Null, Head(advancing))>> /\ UNCHANGED reschedule_pending
        BY <3>2 DEF AdvanceDone, TypeOK
      <4>2. Range(advancing) = {Head(advancing)} \cup Range(advancing')
        BY <4>1, RangeTail
      <4>3. Range(todo') = {Frame("Reschedule", Null, Head(advancing))}
        BY <4>1, RangeSingle
      <4>4. c = Head(advancing) => Rescheduling(c)'
        BY <4>3 DEF Rescheduling
      <4>5. QED
        BY <1>2, <1>3, <2>1, <4>1, <4>2, <4>4
    <3>3. CASE RescheduleAll
      <4>1. c + 1 \in 1 .. NumCores /\ (c + 1) - 1 = c
        BY CoresAssumption DEF Cores
      <4>2. todo'[c + 1] = Frame("Reschedule", Null, c) /\ c + 1 \in DOMAIN todo'
        BY <3>3, <4>1 DEF RescheduleAll
      <4>3. QED
        BY <4>2 DEF Rescheduling, Range
    <3>4. CASE advancing' = advancing /\ (reschedule_pending => reschedule_pending')
      BY <1>2, <1>3, <2>1, <3>4
    <3>5. \/ StartIteration \/ AdvanceDone \/ RescheduleAll
          \/ advancing' = advancing /\ (reschedule_pending => reschedule_pending')
      <4>1. CASE StartSlice
        BY <4>1 DEF StartSlice, PrepareReschedule
      <4>2. QED
        BY <1>4, <4>1 DEF RunLoop, EndSlice, ThreadWakeupCallback, TimerCallback, ServiceSignal, EventSignal
    <3>6. QED
      BY <3>1, <3>2, <3>3, <3>4, <3>5
  <2> HIDE DEF Due
  <2>3. QED
    BY <2>2, HandlerCalls DEF ServedInv, Due, AfterPrepare
<1>5. ASSUME NEW t \in Threads, ThreadCall(t) PROVE ServedInv'
  <2>1. ASSUME NEW c \in Cores PROVE Due(c)
    <3>1. /\ current_thread' = current_thread /\ advancing' = advancing
          /\ reschedule_pending => reschedule_pending'
          /\ UNCHANGED <<status, current_priority>> \/ reschedule_pending'
      BY <1>5, CallEffect
    <3>2. QED
      BY <1>2, <1>3, <3>1
  <2>2. QED
    BY <1>5, <2>1, HandlerCalls DEF ServedInv, AfterPrepare
<1>6. QED
  BY <1>4, <1>5

(* All cores are about to advance when the emulation starts. *)
LEMMA InitServed == Init => ServedInv
<1> SUFFICES ASSUME Init PROVE ServedInv
  OBVIOUS
<1>1. Range(todo) = {}
  BY DEF Init, Range
<1>2. ASSUME NEW c \in Cores PROVE c \in Range(advancing)
  <2>1. c + 1 \in 1 .. NumCores /\ (c + 1) - 1 = c
    BY CoresAssumption DEF Cores
  <2>2. AllCores[c + 1] = c /\ c + 1 \in DOMAIN AllCores
    BY <2>1 DEF AllCores
  <2>3. QED
    BY <2>2 DEF Init, Range
<1>3. QED
  BY <1>1, <1>2 DEF ServedInv, WakersWaiting

(* The two halves of the scheduler, in a program that terminates no process: whoever changes the     *)
(* priority of a thread, it is queued where its priority says, and an iteration of the run loop ends *)
(* with the best ready thread on each core.  TerminateProcess is left out because the code breaks    *)
(* the second half there: the removal of a stopped waiter from a mutex can lower the running thread   *)
(* without asking for a reschedule.                                                                 *)
THEOREM BestThreadsServed == "TerminateProcess" \notin Svcs => (Spec => []QueuesServeBest)
<1> SUFFICES ASSUME "TerminateProcess" \notin Svcs PROVE Spec => []QueuesServeBest
  OBVIOUS
<1>1. Init => SchedulerInv /\ ServedInv
  BY SchedulerInit, InitServed
<1>2. ASSUME TypeOK, TypeOK', SchedulerInv, ServedInv, [Next]_vars
      PROVE  SchedulerInv' /\ ServedInv'
  <2>1. SchedulerInv'
    BY <1>2, SchedulerStep
  <2>2. CASE RunFrame
    BY <1>2, <2>1, <2>2, FrameServed
  <2>3. CASE RunLoop \/ \E t \in Threads : ThreadCall(t)
    BY <1>2, <2>1, <2>3, HandlerServed
  <2>4. CASE UNCHANGED vars
    <3>1. ServedInv'
      BY <1>2, <2>4 DEF vars, prio_vars, loop_vars, core_vars, ServedInv, Served, WakeupDue, Rescheduling, WakersWaiting
    <3>2. QED
      BY <2>1, <3>1
  <2>5. QED
    BY <1>2, <2>2, <2>3, <2>4 DEF Next
<1>3. TypeOK /\ SchedulerInv /\ ServedInv => QueuesServeBest
  <2> SUFFICES ASSUME TypeOK, SchedulerInv, ServedInv PROVE ReadyQueueConsistent /\ BestThreadRuns
    BY DEF QueuesServeBest
  <2>1. ReadyQueueConsistent
    BY MatchIsConsistent DEF SchedulerInv
  <2>2. BestThreadRuns
    <3> SUFFICES ASSUME todo = <<>>, advancing = <<>>, ~reschedule_pending, NEW t \in Threads, status[t] = "Ready"
                 PROVE  LET cur == current_thread[CoreOf[t]] IN
                        cur # Null /\ status[cur] = "Running" /\ current_priority[cur] <= current_priority[t]
      BY DEF BestThreadRuns
    <3>1. Range(todo) = {} /\ Range(advancing) = {} /\ CoreOf[t] \in Cores
      BY CoresAssumption DEF Range
    <3>2. Served(CoreOf[t])
      BY <3>1 DEF ServedInv, WakeupDue, Rescheduling
    <3>3. QED
      BY <3>2 DEF Served
  <2>3. QED
    BY <2>1, <2>2
<1>4. QED
  BY <1>1, <1>2, <1>3, TypeCorrect, PTL DEF Spec
=============================================================================
